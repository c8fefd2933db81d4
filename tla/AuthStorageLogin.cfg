\* Two instances that share a token and a key; logins.
SPECIFICATION AuthSpec
CONSTANTS
  Instances = {"i1", "i2"}
  Requests = {"c1", "c2"}
  InstanceOf <- OwnInstance
  Providers = {"oauth", "key"}
  OAuthProviders = {"oauth"}
  Given = 2
  InitialFile <- TokenAndKey
  MaxIssued = 3
PROPERTY LoginsAreStored
CHECK_DEADLOCK FALSE
