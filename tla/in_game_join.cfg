SPECIFICATION FairSpec
CONSTANTS
    NumPlayers = 2
    Absent = {1}
    MaxFrame = 1
    MaxConnects = 2
    MaxToggles = 1
INVARIANTS TypeOK FlagsAreOfTheClient SavedWorldStandsStill
PROPERTIES LaunchedPlayersGetIn EveryoneInResumes
CHECK_DEADLOCK FALSE
