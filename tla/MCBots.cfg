\* Three users and two guild:setup jobs race to create one guild; then the guild's two
\* bots join and leave twice while one user changes its settings.
CONSTANTS
    Calls = {c1, c2, c3}
    Setup = Setup
    MaxJobs = 2
    Main = main
    Own = own
    Recon = recon
    Editors = {c1}
    Tokens = {k}
    NoToken = NoToken
    MaxMoves = 2
    MaxRare = 1
SPECIFICATION BotsSpec
PROPERTY FollowsItsBot
INVARIANTS WholeWhenSettled BotsTypeOK EditsKept
