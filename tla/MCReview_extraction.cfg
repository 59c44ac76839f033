\* Claims are extracted by the decision model, which may stop half-way.
SPECIFICATION Spec
CONSTANTS
  m1 = m1
  m2 = m2
  m3 = m3
  Outlook = Outlook
  Gmail = Gmail
  Messages = {m1, m2, m3}
  Thread <- MCThread
  Providers = {Outlook, Gmail}
  ProviderOf <- MCProviderOf
  Bonded = {1, 2}
  Users <- MCUsers
  Backends = {"Extract"}
  Offered = {"Network", "RateLimited", "Cancelled"}
INVARIANT AnalysedMeansRead
