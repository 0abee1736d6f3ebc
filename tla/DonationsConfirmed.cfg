SPECIFICATION FairSpec
CONSTANTS
  Donations = {d1}
  Guests = {}
  Requests = {r1}
  Webhooks = {w1}
  Officers = {o1}
  MaxFaults = 0
PROPERTIES ApprovedIsConfirmed
