------------------------------- MODULE PubSub -------------------------------
(***************************************************************************)
(* Pub/Sub of pubsub.c: every client's channel set (c->pubsub_channels)    *)
(* and pattern list (c->pubsub_patterns), the server's channel index       *)
(* (server.pubsub_channels: channel -> list of clients) and pattern list   *)
(* (server.pubsub_patterns: [client, pattern] entries), and the commands  *)
(* that change them, each one atomic as the single-threaded server runs    *)
(* it. SUBSCRIBE and the other commands loop over their arguments calling *)
(* the same helper; one argument per command is modelled.                  *)
(*                                                                         *)
(* Channel names and patterns are sequences of characters; a pattern may  *)
(* hold "*" and "?" (character classes and escapes are not modelled).     *)
(***************************************************************************)
EXTENDS Integers, Sequences, SequencesExt, FiniteSets

CONSTANTS
  Clients,    \* the connected clients
  Channels,   \* channel names: sequences of characters
  Patterns    \* patterns: sequences of characters, "*" and "?"

VARIABLES
  cchannels,  \* c->pubsub_channels, as a set (a dict with NULL values)
  cpatterns,  \* c->pubsub_patterns, in list order
  schannels,  \* server.pubsub_channels: a function on the channels it holds
  spatterns,  \* server.pubsub_patterns, in list order
  pubsubFlag, \* CLIENT_PUBSUB in c->flags
  delivered,  \* the messages the step just taken sent, in order: [client, via]
  published   \* the channel it published to, <<>> if it was no PUBLISH

vars == <<cchannels, cpatterns, schannels, spatterns, pubsubFlag, delivered,
          published>>

TypeOK ==
  /\ cchannels \in [Clients -> SUBSET Channels]
  /\ \A c \in Clients : cpatterns[c] \in Seq(Patterns)
  /\ DOMAIN schannels \subseteq Channels
  /\ \A ch \in DOMAIN schannels : schannels[ch] \in Seq(Clients) \ {<<>>}
  /\ spatterns \in Seq([client : Clients, pattern : Patterns])
  /\ pubsubFlag \in [Clients -> BOOLEAN]
  /\ delivered \in Seq([client : Clients, via : Channels \cup Patterns])
  /\ published \in Channels \cup {<<>>}

Init ==
  /\ cchannels = [c \in Clients |-> {}]
  /\ cpatterns = [c \in Clients |-> <<>>]
  /\ schannels = [ch \in {} |-> <<>>]
  /\ spatterns = <<>>
  /\ pubsubFlag = [c \in Clients |-> FALSE]
  /\ delivered = <<>>
  /\ published = <<>>

-----------------------------------------------------------------------------
(* stringmatchlen (util.c) on patterns of "*", "?" and literal characters. *)

\* Mutant: "?" also matches the empty string.
RECURSIVE GlobMatchLaxQuestion(_, _)
GlobMatchLaxQuestion(p, s) ==
  IF p = <<>> THEN s = <<>>
  ELSE IF Head(p) = "*"
  THEN GlobMatchLaxQuestion(Tail(p), s) \/ (s # <<>> /\ GlobMatchLaxQuestion(p, Tail(s)))
  ELSE IF Head(p) = "?"
  THEN GlobMatchLaxQuestion(Tail(p), s) \/ (s # <<>> /\ GlobMatchLaxQuestion(Tail(p), Tail(s)))
  ELSE s # <<>> /\ Head(p) = Head(s) /\ GlobMatchLaxQuestion(Tail(p), Tail(s))

\* A "*" matches any run of characters (none included), "?" exactly one,
\* any other character itself.
RECURSIVE GlobMatch(_, _)
GlobMatch(p, s) ==
  IF p = <<>> THEN s = <<>>
  ELSE IF Head(p) = "*"
  THEN GlobMatch(Tail(p), s) \/ (s # <<>> /\ GlobMatch(p, Tail(s)))
  ELSE IF Head(p) = "?"
  THEN s # <<>> /\ GlobMatch(Tail(p), Tail(s))
  ELSE s # <<>> /\ Head(p) = Head(s) /\ GlobMatch(Tail(p), Tail(s))

\* The reference: the pattern cuts the channel name into consecutive
\* pieces, one per pattern character, each matched by that character.
GlobReference(p, s) ==
  LET n == Len(p)
      piece(tk, w) == CASE tk = "*" -> TRUE
                        [] tk = "?" -> Len(w) = 1
                        [] OTHER    -> w = <<tk>>
  IN \E cut \in [0..n -> 0..Len(s)] :
       /\ cut[0] = 0 /\ cut[n] = Len(s)
       /\ \A i \in 1..n : /\ cut[i - 1] <= cut[i]
                          /\ piece(p[i], SubSeq(s, cut[i - 1] + 1, cut[i]))

-----------------------------------------------------------------------------
(* Helpers on the server's indexes.                                        *)

\* Mutant: the count leaves the patterns out.
ClientSubscriptionsCountChannelsOnly(c, cc, cp) == Cardinality(cc[c])

\* clientSubscriptionsCount: channels plus patterns of client c.
ClientSubscriptionsCount(c, cc, cp) == Cardinality(cc[c]) + Len(cp[c])

\* Mutant: the channel's entry is kept when its list becomes empty.
RemoveSubscriberKeepEmpty(sc, ch, c) == [sc EXCEPT ![ch] = RemoveFirst(@, c)]

\* The client is deleted from the channel's list (listSearchKey and
\* listDelNode), and the channel leaves the index with its last client.
RemoveSubscriber(sc, ch, c) ==
  LET l == RemoveFirst(sc[ch], c)
  IN IF l = <<>> THEN [x \in DOMAIN sc \ {ch} |-> sc[x]]
     ELSE [sc EXCEPT ![ch] = l]

\* Mutant: the list of a channel already held is replaced by a new one.
AddSubscriberReplace(sc, ch, c) ==
  [x \in DOMAIN sc \cup {ch} |-> IF x = ch THEN <<c>> ELSE sc[x]]

\* dictAdd on a new channel with a new list, else listAddNodeTail.
AddSubscriber(sc, ch, c) ==
  IF ch \in DOMAIN sc THEN [sc EXCEPT ![ch] = Append(@, c)]
  ELSE [x \in DOMAIN sc \cup {ch} |-> IF x = ch THEN <<c>> ELSE sc[x]]

\* Mutant: the server search matches the pattern and ignores the client.
PatternEntryMatchesAnyClient(e, c, pat) == e.pattern = pat

\* listMatchPubsubPattern: same client and equal pattern.
PatternEntryMatches(e, c, pat) == e.client = c /\ e.pattern = pat

\* pubsubUnsubscribePattern's server-side delete.
RemovePatternEntry(sp, c, pat) ==
  RemoveFirstMatch(sp, LAMBDA e : PatternEntryMatches(e, c, pat))

\* pubsubUnsubscribeAllChannels and pubsubUnsubscribeAllPatterns, as
\* freeClient and UNSUBSCRIBE / PUNSUBSCRIBE without arguments run them.
UnsubscribeAllChannels(c, sc) ==
  FoldSet(LAMBDA ch, acc : RemoveSubscriber(acc, ch, c), sc, cchannels[c])

UnsubscribeAllPatterns(c, sp) ==
  FoldSeq(LAMBDA pat, acc : RemovePatternEntry(acc, c, pat), sp, cpatterns[c])

-----------------------------------------------------------------------------
(* The commands.                                                           *)

\* A command other than PUBLISH sends no message.
NoMessage == delivered' = <<>> /\ published' = <<>>

\* SUBSCRIBE ch: pubsubSubscribeChannel, then the flag is set.
Subscribe(c, ch) ==
  /\ IF ch \in cchannels[c]
     THEN UNCHANGED <<cchannels, schannels>>
     ELSE /\ cchannels' = [cchannels EXCEPT ![c] = @ \cup {ch}]
          /\ schannels' = AddSubscriber(schannels, ch, c)
  /\ pubsubFlag' = [pubsubFlag EXCEPT ![c] = TRUE]
  /\ UNCHANGED <<cpatterns, spatterns>> /\ NoMessage

\* UNSUBSCRIBE ch: pubsubUnsubscribeChannel, then the flag is cleared if
\* the client is left with no subscriptions.
UnsubscribeNow(c, cc) ==
  pubsubFlag' = [pubsubFlag EXCEPT ![c] =
                   IF ClientSubscriptionsCount(c, cc, cpatterns) = 0
                   THEN FALSE ELSE @]

Unsubscribe(c, ch) ==
  /\ IF ch \in cchannels[c]
     THEN /\ cchannels' = [cchannels EXCEPT ![c] = @ \ {ch}]
          /\ schannels' = RemoveSubscriber(schannels, ch, c)
     ELSE UNCHANGED <<cchannels, schannels>>
  /\ UnsubscribeNow(c, cchannels')
  /\ UNCHANGED <<cpatterns, spatterns>> /\ NoMessage

\* UNSUBSCRIBE without arguments.
UnsubscribeAll(c) ==
  /\ cchannels' = [cchannels EXCEPT ![c] = {}]
  /\ schannels' = UnsubscribeAllChannels(c, schannels)
  /\ UnsubscribeNow(c, cchannels')
  /\ UNCHANGED <<cpatterns, spatterns>> /\ NoMessage

\* PSUBSCRIBE pat: pubsubSubscribePattern, then the flag is set.
Psubscribe(c, pat) ==
  /\ IF pat \in ToSet(cpatterns[c])
     THEN UNCHANGED <<cpatterns, spatterns>>
     ELSE /\ cpatterns' = [cpatterns EXCEPT ![c] = Append(@, pat)]
          /\ spatterns' = Append(spatterns, [client |-> c, pattern |-> pat])
  /\ pubsubFlag' = [pubsubFlag EXCEPT ![c] = TRUE]
  /\ UNCHANGED <<cchannels, schannels>> /\ NoMessage

\* PUNSUBSCRIBE pat and PUNSUBSCRIBE without arguments; the flag is
\* cleared if the client is left with no subscriptions.
PunsubscribeNow(c, cp) ==
  pubsubFlag' = [pubsubFlag EXCEPT ![c] =
                   IF ClientSubscriptionsCount(c, cchannels, cp) = 0
                   THEN FALSE ELSE @]

Punsubscribe(c, pat) ==
  /\ IF pat \in ToSet(cpatterns[c])
     THEN /\ cpatterns' = [cpatterns EXCEPT ![c] = RemoveFirst(@, pat)]
          /\ spatterns' = RemovePatternEntry(spatterns, c, pat)
     ELSE UNCHANGED <<cpatterns, spatterns>>
  /\ PunsubscribeNow(c, cpatterns')
  /\ UNCHANGED <<cchannels, schannels>> /\ NoMessage

PunsubscribeAll(c) ==
  /\ cpatterns' = [cpatterns EXCEPT ![c] = <<>>]
  /\ spatterns' = UnsubscribeAllPatterns(c, spatterns)
  /\ PunsubscribeNow(c, cpatterns')
  /\ UNCHANGED <<cchannels, schannels>> /\ NoMessage

\* pubsubPublishMessage: the channel's subscribers in list order, then
\* every pattern entry that matches, in list order.
ChannelReceivers(ch) ==
  IF ch \in DOMAIN schannels
  THEN [i \in 1..Len(schannels[ch]) |-> [client |-> schannels[ch][i], via |-> ch]]
  ELSE <<>>

PatternReceivers(ch) ==
  LET m == SelectSeq(spatterns, LAMBDA e : GlobMatch(e.pattern, ch))
  IN [i \in 1..Len(m) |-> [client |-> m[i].client, via |-> m[i].pattern]]

\* Mutant: the pattern list is only walked when no client has the channel.
PublishMessagePatternsElse(ch) ==
  IF ChannelReceivers(ch) # <<>> THEN ChannelReceivers(ch) ELSE PatternReceivers(ch)

PublishMessage(ch) == ChannelReceivers(ch) \o PatternReceivers(ch)

\* PUBLISH ch msg; the reply is Len(delivered).
Publish(ch) ==
  /\ delivered' = PublishMessage(ch)
  /\ published' = ch
  /\ UNCHANGED <<cchannels, cpatterns, schannels, spatterns, pubsubFlag>>

\* freeClient drops every subscription without replies; the connection
\* that takes the client's place starts with no subscriptions and flags.
FreeClient(c) ==
  /\ cchannels' = [cchannels EXCEPT ![c] = {}]
  /\ schannels' = UnsubscribeAllChannels(c, schannels)
  /\ cpatterns' = [cpatterns EXCEPT ![c] = <<>>]
  /\ spatterns' = UnsubscribeAllPatterns(c, spatterns)
  /\ pubsubFlag' = [pubsubFlag EXCEPT ![c] = FALSE]
  /\ NoMessage

Next ==
  \/ \E c \in Clients, ch \in Channels : Subscribe(c, ch) \/ Unsubscribe(c, ch)
  \/ \E c \in Clients, pat \in Patterns : Psubscribe(c, pat) \/ Punsubscribe(c, pat)
  \/ \E c \in Clients : UnsubscribeAll(c) \/ PunsubscribeAll(c) \/ FreeClient(c)
  \/ \E ch \in Channels : Publish(ch)

Spec == Init /\ [][Next]_vars

-----------------------------------------------------------------------------
(* PUBSUB CHANNELS [pattern], NUMSUB and NUMPAT, read from the server's    *)
(* indexes.                                                                *)

PubsubChannels(pat) == {ch \in DOMAIN schannels : GlobMatch(pat, ch)}

PubsubNumsub(ch) == IF ch \in DOMAIN schannels THEN Len(schannels[ch]) ELSE 0

PubsubNumpat == Len(spatterns)

-----------------------------------------------------------------------------
(* Properties.                                                             *)

Subscribers(ch) == {c \in Clients : ch \in cchannels[c]}

\* The server's channel index is the inverse of the clients' channel sets:
\* a channel has an entry exactly while some client is subscribed to it, and
\* its list holds each such client once (pubsubSubscribeChannel and
\* pubsubUnsubscribeChannel update both sides; the empty list is deleted).
ChannelIndexesAgree ==
  /\ DOMAIN schannels = {ch \in Channels : Subscribers(ch) # {}}
  /\ \A ch \in DOMAIN schannels : /\ ToSet(schannels[ch]) = Subscribers(ch)
                                  /\ IsInjective(schannels[ch])

\* The server's pattern list holds one [client, pattern] entry for every
\* pattern in every client's list and nothing else, whatever order the
\* clients subscribed and unsubscribed the same pattern in.
PatternIndexesAgree ==
  \A c \in Clients, pat \in Patterns :
    /\ Len(SelectSeq(cpatterns[c], LAMBDA x : x = pat)) <= 1
    /\ Len(SelectSeq(spatterns, LAMBDA e : e.client = c /\ e.pattern = pat))
         = IF pat \in ToSet(cpatterns[c]) THEN 1 ELSE 0

\* A PUBLISH reaches every client once for each of its subscriptions that
\* names or matches the channel, and no one else.
PublishReachesExactlySubscribers ==
  LET ch == published
      want == {[client |-> c, via |-> ch] : c \in Subscribers(ch)}
              \cup UNION {{[client |-> c, via |-> pat] :
                             pat \in {q \in ToSet(cpatterns[c]) : GlobReference(q, ch)}} :
                           c \in Clients}
  IN published # <<>> =>
       /\ ToSet(delivered) = want
       /\ Len(delivered) = Cardinality(want)

\* PUBSUB CHANNELS, NUMSUB and NUMPAT answer what the clients subscribed.
IntrospectionAgrees ==
  /\ \A pat \in Patterns :
       PubsubChannels(pat) = {ch \in Channels : Subscribers(ch) # {} /\ GlobReference(pat, ch)}
  /\ \A ch \in Channels : PubsubNumsub(ch) = Cardinality(Subscribers(ch))
  /\ PubsubNumpat = FoldFunction(LAMBDA c, acc : Len(cpatterns[c]) + acc, 0, [c \in Clients |-> c])

\* CLIENT_PUBSUB is set exactly while the client has a subscription
\* (SUBSCRIBE and PSUBSCRIBE set it; the unsubscribe commands clear it when
\* clientSubscriptionsCount is zero).
PubsubFlagIffSubscribed ==
  \A c \in Clients : pubsubFlag[c] <=> (cchannels[c] # {} \/ cpatterns[c] # <<>>)
=============================================================================
