\* Every pair of requests.
CONSTANTS
  Characters = {"0", "1", ":", "a", "e", "s"}
  Digits <- MCDigits
  Requests <- MCRequests
  MaxKeys = 2
SPECIFICATION Spec
INVARIANT KeysTellRequestsApart
