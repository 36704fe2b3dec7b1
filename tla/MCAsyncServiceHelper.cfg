SPECIFICATION Spec
CONSTANT MaxDeaths = 2
INVARIANT OneAnswer
INVARIANT AnsweredIsUnbound
INVARIANT NoException
INVARIANT FlagsEndWithInstallation
