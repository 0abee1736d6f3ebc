SPECIFICATION MoneySpec
CONSTANTS
  Donations = {d1}
  Guests = {d1}
  Requests = {r1, r2}
  Webhooks = {w1, w2}
  Officers = {o1}
  MaxFaults = 1
  Collections = {k1, k2}
  Campaigns = {c1}
  Concept <- MCConcept
  Amount <- MCAmount
  Transactions = {t1, t2}
  MaxInteger = 1
  MaxCrashes = 1
INVARIANTS TypeOK AgreesWithGateway PapersMatch
PROPERTIES CertificateIsSealed NotifiedIsSettled TransactionsEnd CatchUp
