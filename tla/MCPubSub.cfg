CONSTANTS
  c1 = c1
  c2 = c2
  Clients <- MCClients
  Channels <- MCChannels
  Patterns <- MCPatterns
SPECIFICATION Spec
INVARIANTS
  TypeOK
  ChannelIndexesAgree
  PatternIndexesAgree
  PublishReachesExactlySubscribers
  IntrospectionAgrees
  PubsubFlagIffSubscribed
