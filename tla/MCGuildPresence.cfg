\* Two gateway handlers, the reconciliation and a sync on one guild that the bot
\* leaves and joins again.
CONSTANTS
    Shard = {h1, h2}
    Recon = Recon
    Sync = Sync
    NoTask = NoTask
    MaxMoves = 2
    MaxRare = 1
SPECIFICATION FairSpec
INVARIANTS TypeOK SyncExclusive
PROPERTY Converges
