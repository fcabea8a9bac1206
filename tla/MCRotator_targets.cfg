SPECIFICATION Spec
CONSTANTS
  portrait = portrait
  landscape = landscape
  large = large
  secure = secure
  Conf = {portrait, landscape, large, secure}
  Size <- SizeOf
  Secure <- SecureOf
  Fd = {1, 2}
  NoConf = NoConf
  NoFd = 0
  Targets <- SomeTargets
INVARIANTS ShowsCurrent BufferFits
PROPERTY NoOverwrite
