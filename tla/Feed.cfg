\* The values of server.js, feed.html, drive.js and infinite-scroll.yaml.
SPECIFICATION Spec
CONSTANTS
  Total = 200
  Batch = 20
  Cap = 50
  Target = 200
INVARIANT TypeOK HarvestIsFeed NoStall
PROPERTY HarvestEnds
\* The driver stops; the page goes on only if somebody scrolls.
CHECK_DEADLOCK FALSE
