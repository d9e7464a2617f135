SPECIFICATION Spec
CONSTANTS
  Loops = {"device", "jmap", "graph"}
  ReadyTimes <- Readies
  Styles = {"none", "junk", "negative", "seconds", "date"}
  Latencies = {0, 1, 60}
  Lifetimes = {600}
  MaxSlowDowns = 3
INVARIANTS TypeOK Patient GivesUpLate EndsInTime
