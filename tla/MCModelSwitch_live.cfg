SPECIFICATION LiveSpec
CONSTANTS
  Workers = {w1, w2}
  Models = {m1}
  NoModel = none
  Rounds = 1
  Asked = {"restart", "request"}
  MaxOps = 2
PROPERTY ReloadsSettle
