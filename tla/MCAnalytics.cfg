\* Three rows of one guild on two days, the first of which may expire; two channels,
\* of which the report shows one.
CONSTANTS
    Event = {"e1", "e2", "e3"}
    Of <- OfEvent
    Table <- Migration
    Today = 2
    OverviewDays = 1
    MaxDays = 2
    TopLimit = 20
    BoardLimit = 500
    KeyLimit = 1
    PageSize = 1
    Retention = 1
    Home = "g1"
    Asked = {"chart", "channels", "heatmap"}
    Order <- Orders
    Pages = {1, 2}
    Leaver = {"u1"}
    Browser = {"b1"}
SPECIFICATION AnalyticsSpec
INVARIANTS  ErasedIsGone PagesPartition
CHECK_DEADLOCK FALSE
