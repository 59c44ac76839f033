\* m2 is of a conversation that may absorb the one of m1; m3 comes from Gmail.
SPECIFICATION Spec
CONSTANTS
  m1 = m1
  m2 = m2
  m3 = m3
  Outlook = Outlook
  Gmail = Gmail
  Messages = {m1, m2, m3}
  Thread <- MCThread
  Providers = {Outlook, Gmail}
  ProviderOf <- MCProviderOf
  Bonded = {1, 2}
  Users <- MCUsers
  Backends = {"Chat", "Triage", "Extract"}
  Offered = {"Network", "RateLimited", "Cancelled"}
INVARIANTS TypeOK NothingDropped CountsAreTrue NoCardTwice
PROPERTIES ListedUntilRead
