\* One port that both drivers want, with a rate a USHORT cannot hold; one
\* failure; every buffer up to three entries.
SPECIFICATION Spec
CONSTANTS
  Ports = {p1}
  Rates = {9600, 115200}
  UserTexts <- FewTexts
  Times = {655}
  MaxFails = 1
  MaxBuf = 9
  NPorts = 2
  SizeOfPort = 3
INVARIANTS OwnedIsReadable CopiesAgree HookGone
PROPERTY ProgramsWhatIsShown
