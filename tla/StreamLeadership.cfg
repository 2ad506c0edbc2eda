\* Two tabs that each subscribe once or one of them again, three events and one
\* incident, under the scheduling of the browser.
SPECIFICATION FairSpec
CONSTANTS
    Tabs = {1, 2}
    MaxSeq = 3
    MaxChanges = 2
    MaxIncidents = 1
PROPERTIES
    NoSilentSkip
    OneLeaderInTheEnd
    TabsCatchUp
\* With no tab left open nothing happens any more.
CHECK_DEADLOCK FALSE
