------------------------------ MODULE Strings ------------------------------
(***************************************************************************)
(* The string commands of t_string.c (SET, GETSET, MSET, MSETNX, APPEND,  *)
(* SETRANGE, INCR, DECR, INCRBY, DECRBY, and the replies of GETRANGE and  *)
(* STRLEN) on the key space the list commands of ListBlocking act on: a    *)
(* key holds a list or a string object, a command on a key of the other    *)
(* type replies WRONGTYPE, and SET and MSET replace a list (its elements  *)
(* are dropped) without waking the clients blocked on it.                 *)
(*                                                                         *)
(* A string object is a record [enc, shared, n, s]: enc is the encoding    *)
(* (int, embstr, raw), shared tells a pointer to one of the preallocated  *)
(* shared.integers (n is then its index), n is the value of a private int *)
(* object and s the bytes of an embstr or raw one. The shared objects are *)
(* the variable shared, so that a write through a pointer to one of them  *)
(* is seen by every key that points to it. Integers are LLBits wide.      *)
(* The helpers of object.c and util.c (tryObjectEncoding, string2ll,       *)
(* ll2string, ...) are not in this tree and are modelled from the spec.   *)
(***************************************************************************)
EXTENDS ListBlocking

CONSTANTS
  NoStr,               \* strs[k] of a key that holds no string
  LLBits,              \* width of long long
  OBJ_SHARED_INTEGERS, \* shared.integers[0 .. OBJ_SHARED_INTEGERS - 1]
  ProtoMaxLen,         \* the limit of checkStringLength (512MB)
  SetArgs,             \* the values SET, GETSET, MSET, APPEND, SETRANGE send
  IncrArgs,            \* the increments INCRBY and DECRBY send
  Offsets,             \* the offsets SETRANGE sends
  Ranges,              \* the start and end indexes GETRANGE is asked for
  StringKeys           \* the keys the string commands are sent for

VARIABLES
  strs,   \* the string object of every key (NoStr for no string)
  shared  \* the values held by the objects of shared.integers

strVars == <<strs, shared>>
allVars == <<vars, strVars>>

LLONG_MIN == -(2 ^ (LLBits - 1))
LLONG_MAX == 2 ^ (LLBits - 1) - 1
LLRange == LLONG_MIN..LLONG_MAX

\* Two's complement arithmetic of the build on LLBits bits.
Wrap(x) == ((x - LLONG_MIN) % (2 ^ LLBits)) + LLONG_MIN

NUL == "NUL"   \* the zero byte sdsgrowzero pads with
Digit == <<"0", "1", "2", "3", "4", "5", "6", "7", "8", "9">>
DigitValue(ch) == CHOOSE d \in 0..9 : Digit[d + 1] = ch

SharedInt(i) == [enc |-> "int", shared |-> TRUE, n |-> i, s |-> <<>>]
IntObj(v) == [enc |-> "int", shared |-> FALSE, n |-> v, s |-> <<>>]
StrObj(enc, bytes) == [enc |-> enc, shared |-> FALSE, n |-> 0, s |-> bytes]

-----------------------------------------------------------------------------
(* Conversions (util.c, object.c).                                         *)

\* ll2string: the decimal digits of v, with a leading minus.
RECURSIVE UDigits(_)
UDigits(u) == IF u < 10 THEN <<Digit[u + 1]>>
              ELSE UDigits(u \div 10) \o <<Digit[(u % 10) + 1]>>
Ll2string(v) == IF v < 0 THEN <<"-">> \o UDigits(-v) ELSE UDigits(v)

\* sdigits10: the length of the decimal form, counted without building it.
RECURSIVE Digits10(_)
Digits10(u) == IF u < 10 THEN 1 ELSE 1 + Digits10(u \div 10)
Sdigits10(v) == IF v < 0 THEN 1 + Digits10(-v) ELSE Digits10(v)

\* string2ll: "0", or an optional minus, a digit 1-9 and digits, whose
\* value fits the range: [ok, v].
String2ll(bytes) ==
  LET neg == bytes # <<>> /\ bytes[1] = "-"
      body == IF neg THEN Tail(bytes) ELSE bytes
      u == FoldLeft(LAMBDA acc, ch : acc * 10 + DigitValue(ch), 0, body)
      v == IF neg THEN -u ELSE u
  IN IF bytes = <<"0">> THEN [ok |-> TRUE, v |-> 0]
     ELSE IF /\ body # <<>>
             /\ \A i \in DOMAIN body : body[i] \in ToSet(Digit)
             /\ body[1] # "0"
             /\ v \in LLRange
     THEN [ok |-> TRUE, v |-> v] ELSE [ok |-> FALSE, v |-> 0]

\* The value of an int-encoded object, read through its pointer.
IntValue(o) == IF o.shared THEN shared[o.n] ELSE o.n

\* getDecodedObject: the bytes of a string object.
Decoded(o) == IF o.enc = "int" THEN Ll2string(IntValue(o)) ELSE o.s

\* stringObjectLen
StringObjectLen(o) == IF o.enc = "int" THEN Sdigits10(IntValue(o)) ELSE Len(o.s)

\* getLongLongFromObject: a missing object reads as 0.
GetLongLong(o) ==
  IF o = NoStr THEN [ok |-> TRUE, v |-> 0]
  ELSE IF o.enc = "int" THEN [ok |-> TRUE, v |-> IntValue(o)]
  ELSE String2ll(o.s)

\* tryObjectEncoding of an argument (refcount 1, maxmemory unset): a
\* string that string2l accepts becomes a shared integer when it is small
\* and an int object otherwise; any other short string an embstr.
TryObjectEncoding(bytes) ==
  LET p == String2ll(bytes)
  IN IF Len(bytes) <= 20 /\ p.ok
     THEN IF p.v >= 0 /\ p.v < OBJ_SHARED_INTEGERS THEN SharedInt(p.v) ELSE IntObj(p.v)
     ELSE StrObj("embstr", bytes)

\* createStringObjectFromLongLongForValue (maxmemory unset).
CreateStringObjectFromLongLongForValue(v) ==
  IF v >= 0 /\ v < OBJ_SHARED_INTEGERS THEN SharedInt(v) ELSE IntObj(v)

\* dbUnshareStringValue: a shared or not raw object is replaced by a raw
\* copy of its bytes.
DbUnshareStringValue(o) ==
  IF o.shared \/ o.enc # "raw" THEN StrObj("raw", Decoded(o)) ELSE o

\* checkStringLength
CheckStringLength(size) == size <= ProtoMaxLen
-----------------------------------------------------------------------------
(* The key space as one record: the lists' db (STRING_VALUE marks a key   *)
(* holding a string), the dropped elements and the string objects.        *)

KS == [db |-> db, gone |-> gone, strs |-> strs]

SetKS(st) == db' = st.db /\ gone' = st.gone /\ strs' = st.strs

\* setKey: dbAdd or dbOverwrite of a string; a list it replaces is dropped
\* (a string key is never signalled as ready).
SetKey(st, k, o) ==
  [db |-> (k :> STRING_VALUE) @@ st.db,
   gone |-> st.gone \o (IF IsList(st.db, k) THEN st.db[k] ELSE <<>>),
   strs |-> [st.strs EXCEPT ![k] = o]]

\* dbAdd or dbOverwrite of a string object, on a key holding no list.
StoreString(k, o) ==
  /\ db' = (k :> STRING_VALUE) @@ db
  /\ strs' = [strs EXCEPT ![k] = o]

\* The list side of the server is left as it is.
ListsUnchanged == UNCHANGED <<bpop, blockingKeys, readyKeys, nextVal>>

-----------------------------------------------------------------------------
(* The commands. Error replies change nothing and are left out.           *)

\* setCommand without options: setKey(tryObjectEncoding(value)).
SetCommand(k, v) ==
  /\ Idle
  /\ SetKS(SetKey(KS, k, TryObjectEncoding(v)))
  /\ UNCHANGED shared /\ ListsUnchanged

\* getsetCommand: getGenericCommand replies WRONGTYPE for a list, then
\* setKey.
GetsetCommand(k, v) ==
  /\ Idle
  /\ ~IsList(db, k)
  /\ SetKS(SetKey(KS, k, TryObjectEncoding(v)))
  /\ UNCHANGED shared /\ ListsUnchanged

\* msetGenericCommand: with NX nothing is set if any key exists; then
\* every pair is set in order.
MsetGenericCommand(ps, nx) ==
  /\ Idle
  /\ nx => \A j \in DOMAIN ps : ps[j][1] \notin DOMAIN db
  /\ SetKS(FoldLeft(LAMBDA st, p : SetKey(st, p[1], TryObjectEncoding(p[2])), KS, ps))
  /\ UNCHANGED shared /\ ListsUnchanged

\* Mutant: only an increment past LLONG_MAX is refused.
OverflowsUpOnly(old, incr) == incr > 0 /\ old > 0 /\ incr > LLONG_MAX - old

\* incrDecrCommand, the overflow check.
Overflows(old, incr) ==
  \/ incr < 0 /\ old < 0 /\ incr < LLONG_MIN - old
  \/ incr > 0 /\ old > 0 /\ incr > LLONG_MAX - old

\* Mutant: the refcount is not looked at.
CanUpdateInPlaceAnyRefcount(o, value) ==
  o # NoStr /\ o.enc = "int" /\ (value < 0 \/ value >= OBJ_SHARED_INTEGERS)

\* Mutant: a value a shared integer holds is also written in place.
CanUpdateInPlaceAnyValue(o, value) == o # NoStr /\ ~o.shared /\ o.enc = "int"

\* incrDecrCommand, the test for changing the object in place.
CanUpdateInPlace(o, value) ==
  /\ o # NoStr
  /\ ~o.shared
  /\ o.enc = "int"
  /\ (value < 0 \/ value >= OBJ_SHARED_INTEGERS)

\* o->ptr = value: a write through the pointer the key holds.
WriteInPlace(k, value) ==
  IF strs[k].shared
  THEN shared' = [shared EXCEPT ![strs[k].n] = value] /\ UNCHANGED strs
  ELSE strs' = [strs EXCEPT ![k].n = value] /\ UNCHANGED shared

\* incrDecrCommand: parse the value (a missing key is 0), refuse an
\* overflow, then change the object in place or store a new one.
IncrDecrCommand(k, incr) ==
  LET o == strs[k]
      p == GetLongLong(o)
      value == Wrap(p.v + incr)
  IN /\ Idle
     /\ ~IsList(db, k)
     /\ p.ok
     /\ ~Overflows(p.v, incr)
     /\ IF CanUpdateInPlace(o, value)
        THEN WriteInPlace(k, value) /\ UNCHANGED db
        ELSE StoreString(k, CreateStringObjectFromLongLongForValue(value))
             /\ UNCHANGED shared
     /\ UNCHANGED gone /\ ListsUnchanged

\* decrbyCommand negates its argument in long long arithmetic.
DecrbyIncrement(n) == Wrap(-n)

\* Mutant: only the appended bytes are counted.
AppendLengthArgOnly(o, v) == Len(v)

\* appendCommand, the length the value will have.
AppendLength(o, v) == StringObjectLen(o) + Len(v)

\* appendCommand: a missing key is created with the encoded argument; an
\* existing string is unshared and the argument appended, within the limit.
AppendCommand(k, v) ==
  /\ Idle
  /\ ~IsList(db, k)
  /\ IF strs[k] = NoStr
     THEN StoreString(k, TryObjectEncoding(v))
     ELSE /\ CheckStringLength(AppendLength(strs[k], v))
          /\ strs' = [strs EXCEPT ![k] = LET u == DbUnshareStringValue(@)
                                          IN [u EXCEPT !.s = @ \o v]]
          /\ UNCHANGED db
  /\ UNCHANGED <<shared, gone>> /\ ListsUnchanged

\* sdsgrowzero to off + Len(v), then memcpy of v at off.
Overwrite(bytes, off, v) ==
  [i \in 1..Max({Len(bytes), off + Len(v)}) |->
     IF i > off /\ i <= off + Len(v) THEN v[i - off]
     ELSE IF i <= Len(bytes) THEN bytes[i] ELSE NUL]

\* setrangeCommand with a non-empty value: a missing key is created as a
\* raw string of zero bytes, an existing one unshared; then overwritten.
SetrangeCommand(k, off, v) ==
  /\ Idle
  /\ off >= 0
  /\ ~IsList(db, k)
  /\ CheckStringLength(off + Len(v))
  /\ LET o == IF strs[k] = NoStr THEN StrObj("raw", <<>>)
              ELSE DbUnshareStringValue(strs[k])
     IN StoreString(k, [o EXCEPT !.s = Overwrite(@, off, v)])
  /\ UNCHANGED <<shared, gone>> /\ ListsUnchanged

\* renameGenericCommand: the key's object itself (its refcount raised, not
\* a copy) moves to dst, a list or a string alike.
RenameCommand(src, dst, nx) ==
  /\ Rename(src, dst, nx)
  /\ strs' = [strs EXCEPT ![dst] = strs[src], ![src] = NoStr]
  /\ UNCHANGED shared

\* delCommand: dbDelete of a list or a string.
DelCommand(k) == Del(k) /\ strs' = [strs EXCEPT ![k] = NoStr] /\ UNCHANGED shared

-----------------------------------------------------------------------------
(* The replies of the commands that only read.                            *)

\* Mutant: a negative end is not counted from the end.
GetrangeReplyNoNegativeEnd(o, start, end) ==
  LET str == Decoded(o)
      len == Len(str)
      s1 == IF start < 0 THEN len + start ELSE start
      s2 == IF s1 < 0 THEN 0 ELSE s1
      e2 == IF end < 0 THEN 0 ELSE end
      e3 == IF e2 >= len THEN len - 1 ELSE e2
  IN IF start < 0 /\ end < 0 /\ start > end THEN <<>>
     ELSE IF s2 > e3 \/ len = 0 THEN <<>> ELSE SubSeq(str, s2 + 1, e3 + 1)

\* getrangeCommand on a string object: negative indexes count from the
\* end, then both are clamped.
GetrangeReply(o, start, end) ==
  LET str == Decoded(o)
      len == Len(str)
      s1 == IF start < 0 THEN len + start ELSE start
      e1 == IF end < 0 THEN len + end ELSE end
      s2 == IF s1 < 0 THEN 0 ELSE s1
      e2 == IF e1 < 0 THEN 0 ELSE e1
      e3 == IF e2 >= len THEN len - 1 ELSE e2
  IN IF start < 0 /\ end < 0 /\ start > end THEN <<>>
     ELSE IF s2 > e3 \/ len = 0 THEN <<>> ELSE SubSeq(str, s2 + 1, e3 + 1)

\* strlenCommand
StrlenReply(o) == StringObjectLen(o)

-----------------------------------------------------------------------------
MsetArgs == UNION {[1..n -> StringKeys \X SetArgs] : n \in 1..2}

KeyspaceInit ==
  /\ Init
  /\ strs = [k \in Keys |-> NoStr]
  /\ shared = [i \in 0..(OBJ_SHARED_INTEGERS - 1) |-> i]

StringCommand ==
  \/ \E k \in StringKeys :
       \/ \E v \in SetArgs : SetCommand(k, v) \/ GetsetCommand(k, v) \/ AppendCommand(k, v)
       \/ \E off \in Offsets, v \in SetArgs : SetrangeCommand(k, off, v)
       \/ IncrDecrCommand(k, 1) \/ IncrDecrCommand(k, -1)
       \/ \E n \in IncrArgs : IncrDecrCommand(k, n) \/ IncrDecrCommand(k, DecrbyIncrement(n))
       \/ DelCommand(k)
  \/ \E ps \in MsetArgs : MsetGenericCommand(ps, FALSE) \/ MsetGenericCommand(ps, TRUE)

KeyspaceNext ==
  \/ ListCommand /\ UNCHANGED strVars
  \/ StringCommand
  \/ \E p \in RenamePairs, nx \in BOOLEAN : RenameCommand(p[1], p[2], nx)

KeyspaceSpec == KeyspaceInit /\ [][KeyspaceNext]_allVars

-----------------------------------------------------------------------------
(* Properties.                                                             *)

Bytes == ToSet(Digit) \cup {"-", NUL} \cup UNION {ToSet(a) : a \in SetArgs}

StringObject == [enc : {"int", "embstr", "raw"}, shared : BOOLEAN, n : LLRange,
                 s : Seq(Bytes)]

\* An int object points to a shared integer exactly when its value is one
\* a shared integer holds; a string object holds bytes only.
WellFormed(o) ==
  IF o.enc = "int" THEN o.s = <<>> /\ (o.shared <=> o.n \in 0..(OBJ_SHARED_INTEGERS - 1))
  ELSE ~o.shared /\ o.n = 0

\* The type of the string side, its agreement with the lists' db on which
\* keys hold strings, and the canonical form of integers: a value one of
\* shared.integers holds is never kept in a private int object (which
\* incrDecrCommand's in-place test and createStringObjectFromLongLong
\* ensure between them).
StringTypeOK ==
  /\ \A k \in Keys : strs[k] = NoStr \/ (strs[k] \in StringObject /\ WellFormed(strs[k]))
  /\ shared \in [0..(OBJ_SHARED_INTEGERS - 1) -> LLRange]
  /\ \A k \in Keys : strs[k] # NoStr <=> (k \in DOMAIN db /\ db[k] = STRING_VALUE)

DecodedOf(k) == IF strs[k] = NoStr THEN NoStr ELSE Decoded(strs[k])

\* No write goes through a shared object: the value of a key changes only
\* in a step that changes the key's own object, however many keys point
\* to the same member of shared.integers (the spec: shared objects are
\* never mutated; incrDecrCommand changes an object in place only when its
\* refcount is 1).
NoWriteThroughSharedObject ==
  [][\A k \in Keys : strs'[k] = strs[k] => DecodedOf(k)' = DecodedOf(k)]_allVars

ValueOf(k) == GetLongLong(strs[k]).v

\* INCRBY n and DECRBY n (INCR and DECR are n = 1) either change nothing
\* or leave exactly the old value plus or minus n: incrDecrCommand's
\* overflow check keeps long long arithmetic from wrapping.
IncrIsExact ==
  [][\A k \in Keys, n \in IncrArgs \cup {1} :
       /\ IncrDecrCommand(k, n) => ValueOf(k)' = ValueOf(k) + n
       /\ IncrDecrCommand(k, DecrbyIncrement(n)) => ValueOf(k)' = ValueOf(k) - n]_allVars

\* No command leaves a string longer than the proto limit: APPEND and
\* SETRANGE check the length the result will have (checkStringLength),
\* also when the old value is an integer counted by its digits.
StringsWithinLimit ==
  \A k \in Keys : strs[k] # NoStr => StringObjectLen(strs[k]) <= ProtoMaxLen

\* s is a run of consecutive bytes of t.
IsSubstring(s, t) ==
  \E i \in 0..Len(t) : IsPrefix(s, SubSeq(t, i + 1, Len(t)))

\* GETRANGE and STRLEN answer from the key's bytes whatever the encoding:
\* GETRANGE 0 -1 returns the whole decoded value, every other range a run
\* of its bytes (the clamping never reads past either end), and STRLEN's
\* digit count (sdigits10) of an int object is the length of its decimal
\* form (ll2string).
ReadCommandsAgree ==
  \A k \in Keys : strs[k] # NoStr =>
    /\ GetrangeReply(strs[k], 0, -1) = Decoded(strs[k])
    /\ \A start, end \in Ranges :
         IsSubstring(GetrangeReply(strs[k], start, end), Decoded(strs[k]))
    /\ StrlenReply(strs[k]) = Len(Decoded(strs[k]))
=============================================================================
