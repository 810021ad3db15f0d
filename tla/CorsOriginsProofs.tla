-------------------------- MODULE CorsOriginsProofs --------------------------
(***************************************************************************)
(* The list of allowed origins, for every CORS_ORIGINS of any length.      *)
(***************************************************************************)
EXTENDS CorsOrigins, SequenceTheorems, TLAPS

(***************************************************************************)
(* The inductive invariant.                                                *)
(***************************************************************************)
\* What is left of an entry that is not blank.
Text == Uri \cup {Wildcard, NotUri}

Prefix(s, n) == {s[i] : i \in 1..n}

\* The texts among the first j entries.
Seen(j) == {raw[k].text : k \in 1..j} \ {Blank}

\* Every element of s stands in CORS_ORIGINS where just the elements of s up to
\* it have been seen.
Follows(s) ==
    \A n \in DOMAIN s : \E j \in DOMAIN raw :
        raw[j].text = s[n] /\ Seen(j) = Prefix(s, n)

AllGood(s) == \A n \in DOMAIN s : s[n] # Blank /\ ~parse_cors_origin_fails(s[n])

NoneTwice(s) == \A m, n \in DOMAIN s : m < n => s[m] # s[n]

CorsTypes ==
    /\ raw \in Seq(Entry)
    /\ read \in Nat
    /\ origins \in Seq(Text)
    /\ allowed \in Seq(Text)

\* How far each pass has come.
Passes ==
    /\ phase = "parsing" =>
          /\ read <= Len(raw)
          /\ Seen(read) = Range(origins)
          /\ allowed = <<>>
    /\ phase = "filtering" =>
          /\ read <= Len(origins)
          /\ Seen(Len(raw)) = Range(origins)
          /\ Range(allowed) = Prefix(origins, read)
    /\ phase = "serving" =>
          /\ Seen(Len(raw)) = Range(origins)
          /\ Range(allowed) = Range(origins)

Echo ==
    echoed # None =>
        /\ phase = "serving"
        /\ echoed.origin \in BrowserOrigin
        /\ echoed.allow <=> echoed.origin \in Range(allowed)

CorsInv ==
    /\ CorsTypes
    /\ Passes
    /\ Follows(origins) /\ Follows(allowed)
    /\ AllGood(origins)
    /\ NoneTwice(allowed)
    /\ Echo

(***************************************************************************)
(* Prefixes.                                                               *)
(***************************************************************************)
\* The whole of a sequence, and one more element.
LEMMA PrefixAppend ==
    ASSUME NEW s \in Seq(Text), NEW x \in Text
    PROVE  /\ Range(s) = Prefix(s, Len(s))
           /\ \A n \in 1..Len(s) : Prefix(Append(s, x), n) = Prefix(s, n)
           /\ Prefix(Append(s, x), Len(s) + 1) = Range(s) \cup {x}
           /\ Range(Append(s, x)) = Range(s) \cup {x}
<1>1. /\ DOMAIN s = 1..Len(s) /\ Len(s) \in Nat
      /\ DOMAIN Append(s, x) = 1..Len(s) + 1
      /\ \A i \in 1..Len(s) : Append(s, x)[i] = s[i]
      /\ Append(s, x)[Len(s) + 1] = x
  OBVIOUS
<1>2. Range(s) = Prefix(s, Len(s))
  BY <1>1 DEF Range, Prefix
<1>3. \A n \in 1..Len(s) : Prefix(Append(s, x), n) = Prefix(s, n)
  BY <1>1 DEF Prefix
<1>4. 1..Len(s) + 1 = (1..Len(s)) \cup {Len(s) + 1}
  BY <1>1
<1>5. Prefix(Append(s, x), Len(s) + 1) = Range(s) \cup {x}
  BY <1>1, <1>2, <1>4 DEF Prefix
<1>6. Range(Append(s, x)) = Prefix(Append(s, x), Len(s) + 1)
  BY <1>1 DEF Range, Prefix
<1> QED
  BY <1>2, <1>3, <1>5, <1>6

\* One more entry read.
LEMMA SeenNext ==
    ASSUME NEW j \in Nat
    PROVE  Seen(j + 1) = Seen(j) \cup ({raw[j + 1].text} \ {Blank})
<1>1. 1..j + 1 = (1..j) \cup {j + 1}
  OBVIOUS
<1> QED
  BY <1>1 DEF Seen

\* A list goes on following CORS_ORIGINS with the next text that is new to it.
LEMMA FollowsAppend ==
    ASSUME NEW s \in Seq(Text), NEW x \in Text, Follows(s),
           NEW j \in DOMAIN raw, raw[j].text = x, Seen(j) = Range(s) \cup {x}
    PROVE  Follows(Append(s, x))
<1>1. /\ DOMAIN Append(s, x) = (1..Len(s)) \cup {Len(s) + 1}
      /\ DOMAIN s = 1..Len(s)
      /\ \A i \in 1..Len(s) : Append(s, x)[i] = s[i]
      /\ Append(s, x)[Len(s) + 1] = x
  OBVIOUS
<1>2. ASSUME NEW n \in 1..Len(s)
      PROVE  \E k \in DOMAIN raw : /\ raw[k].text = Append(s, x)[n]
                                   /\ Seen(k) = Prefix(Append(s, x), n)
  BY <1>1, PrefixAppend DEF Follows
<1>3. /\ raw[j].text = Append(s, x)[Len(s) + 1]
      /\ Seen(j) = Prefix(Append(s, x), Len(s) + 1)
  BY <1>1, PrefixAppend
<1> QED
  BY <1>1, <1>2, <1>3 DEF Follows

\* CORS_ORIGINS does not change, and nor does what follows it.
LEMMA FollowsNext ==
    ASSUME raw' = raw
    PROVE  /\ \A j : Seen(j)' = Seen(j)
           /\ \A s : Follows(s) /\ origins' = s => Follows(origins)'
           /\ \A s : Follows(s) /\ allowed' = s => Follows(allowed)'
<1>1. \A j : Seen(j)' = Seen(j)
  BY DEF Seen
<1>2. ASSUME NEW s, Follows(s), origins' = s PROVE Follows(origins)'
  <2>1. \A n : Prefix(origins, n)' = Prefix(s, n)
    BY <1>2 DEF Prefix
  <2> QED
    BY <1>1, <1>2, <2>1 DEF Follows
<1>3. ASSUME NEW s, Follows(s), allowed' = s PROVE Follows(allowed)'
  <2>1. \A n : Prefix(allowed, n)' = Prefix(s, n)
    BY <1>3 DEF Prefix
  <2> QED
    BY <1>1, <1>3, <2>1 DEF Follows
<1> QED
  BY <1>1, <1>2, <1>3

(***************************************************************************)
(* The steps.                                                              *)
(***************************************************************************)
\* Nothing has been read.
LEMMA CorsInit == Init => CorsInv
<1> SUFFICES ASSUME Init PROVE CorsInv
  OBVIOUS
<1>1. PICK n \in 0..MaxEntries : raw \in [1..n -> Entry]
  BY DEF Init
<1>2. raw \in Seq(Entry)
  BY <1>1, CorsAssumption
<1>3. CorsTypes
  BY <1>2 DEF CorsTypes, Init
<1>4. Seen(0) = {} /\ Range(<<>>) = {}
  BY DEF Seen, Range
<1>5. Passes
  <2>1. Len(raw) \in Nat
    BY <1>2
  <2>2. phase = "parsing" /\ read = 0 /\ origins = <<>> /\ allowed = <<>>
    BY DEF Init
  <2>3. Seen(read) = Range(origins)
    BY <1>4, <2>2
  <2> QED
    BY <2>1, <2>2, <2>3 DEF Passes
<1>6. Follows(<<>>) /\ AllGood(<<>>) /\ NoneTwice(<<>>)
  BY DEF Follows, AllGood, NoneTwice
<1> QED
  BY <1>3, <1>5, <1>6 DEF CorsInv, Init, Echo

\* The first pass takes an entry.
LEMMA CorsParse ==
    ASSUME CorsInv, parse_cors_origin
    PROVE  CorsInv'
<1> DEFINE text == raw[read + 1].text
<1>1. /\ phase = "parsing" /\ read \in Nat /\ read < Len(raw) /\ read' = read + 1
      /\ raw' = raw /\ allowed' = allowed /\ echoed' = echoed
  BY DEF parse_cors_origin, CorsInv, CorsTypes
<1>2. /\ read + 1 \in DOMAIN raw
      /\ raw \in Seq(Entry)
      /\ text \in Text \cup {Blank}
      /\ origins \in Seq(Text)
  BY <1>1, CorsAssumption DEF CorsInv, CorsTypes, Text
<1>3. Seen(read + 1) = Range(origins) \cup ({text} \ {Blank})
  BY <1>1, SeenNext DEF CorsInv, Passes
<1>4. Echo' /\ allowed = <<>> /\ Follows(allowed)'
  BY <1>1, FollowsNext DEF CorsInv, Passes, Echo
<1>5. CASE /\ origins' = origins
           /\ (text = Blank /\ phase' = phase) \/ phase' = "failed"
  <2>1. CorsTypes'
    BY <1>1, <1>5 DEF CorsInv, CorsTypes
  <2>2. Passes'
    BY <1>1, <1>2, <1>3, <1>4, <1>5 DEF Passes, Seen, CorsInv
  <2>3. Follows(origins)' /\ AllGood(origins)' /\ NoneTwice(allowed)'
    BY <1>1, <1>5, FollowsNext DEF CorsInv, AllGood, NoneTwice
  <2> QED
    BY <1>4, <2>1, <2>2, <2>3 DEF CorsInv
<1>6. CASE /\ text # Blank /\ ~parse_cors_origin_fails(text)
           /\ origins' = Append(origins, text) /\ phase' = phase
  <2>1. text \in Text /\ Append(origins, text) \in Seq(Text)
    BY <1>2, <1>6
  <2>2. CorsTypes'
    BY <1>1, <1>6, <2>1 DEF CorsInv, CorsTypes, Text
  <2>3. Passes'
    BY <1>1, <1>2, <1>3, <1>4, <1>6, <2>1, PrefixAppend DEF Passes, Seen, CorsInv
  <2>4. Follows(Append(origins, text))
    BY <1>2, <1>3, <1>6, <2>1, FollowsAppend DEF CorsInv
  <2>5. Follows(origins)'
    BY <1>1, <1>6, <2>4, FollowsNext
  <2>6. AllGood(origins)'
    BY <1>2, <1>6, <2>1 DEF AllGood, CorsInv
  <2> QED
    BY <1>1, <1>4, <2>2, <2>3, <2>5, <2>6 DEF CorsInv, NoneTwice
<1> QED
  BY <1>5, <1>6 DEF parse_cors_origin

\* The first pass ends.
LEMMA CorsCollect ==
    ASSUME CorsInv, Collect
    PROVE  CorsInv'
<1>1. Prefix(origins, 0) = {} /\ Range(<<>>) = {}
  BY DEF Prefix, Range
<1>2. /\ phase = "parsing" /\ read = Len(raw) /\ phase' = "filtering" /\ read' = 0
      /\ raw' = raw /\ origins' = origins /\ allowed' = allowed /\ echoed' = echoed
  BY DEF Collect
<1>3. CorsTypes'
  BY <1>2 DEF CorsInv, CorsTypes
<1>4. Prefix(origins, 0)' = {}
  BY DEF Prefix
<1>5. Range(allowed)' = {} /\ Seen(Len(raw))' = Range(origins)'
  BY <1>1, <1>2 DEF CorsInv, Passes, Seen, Range
<1>6. Len(origins) \in Nat
  BY DEF CorsInv, CorsTypes
<1>7. Passes'
  BY <1>2, <1>4, <1>5, <1>6 DEF Passes
<1> QED
  BY <1>2, <1>3, <1>7, FollowsNext DEF CorsInv, AllGood, NoneTwice, Echo

\* The second pass takes an origin.
LEMMA CorsKeep ==
    ASSUME CorsInv, KeepFirst
    PROVE  CorsInv'
<1> DEFINE text == origins[read + 1]
<1>1. /\ phase = "filtering" /\ read \in Nat /\ read < Len(origins)
      /\ read' = read + 1
      /\ raw' = raw /\ origins' = origins /\ echoed' = echoed /\ phase' = phase
  BY DEF KeepFirst, CorsInv, CorsTypes
<1>2. /\ origins \in Seq(Text) /\ allowed \in Seq(Text)
      /\ read + 1 \in DOMAIN origins
      /\ text \in Text
  BY <1>1 DEF CorsInv, CorsTypes, Text
<1>3. Prefix(origins, read + 1) = Range(allowed) \cup {text}
  <2>1. 1..read + 1 = (1..read) \cup {read + 1}
    BY <1>1
  <2>2. Range(allowed) = Prefix(origins, read)
    BY <1>1 DEF CorsInv, Passes
  <2> QED
    BY <2>1, <2>2 DEF Prefix
<1>4. OccursBefore(read + 1) <=> text \in Range(allowed)
  BY <1>1 DEF OccursBefore, CorsInv, Passes, Prefix
<1>5. Follows(origins)' /\ AllGood(origins)' /\ Echo'
  BY <1>1, FollowsNext DEF CorsInv, AllGood, Echo
<1>6. /\ read + 1 <= Len(origins)
      /\ Seen(Len(raw))' = Range(origins)'
  <2>1. read + 1 <= Len(origins)
    BY <1>1, <1>2
  <2>2. Seen(Len(raw)) = Range(origins)
    BY <1>1 DEF CorsInv, Passes
  <2>3. Seen(Len(raw))' = Seen(Len(raw)) /\ Range(origins)' = Range(origins)
    BY <1>1 DEF Seen, Range
  <2> QED
    BY <2>1, <2>2, <2>3
<1>7. ASSUME Range(allowed') = Prefix(origins, read + 1) PROVE Passes'
  <2>1. Range(allowed)' = Prefix(origins, read)'
    BY <1>1, <1>7 DEF Range, Prefix
  <2> QED
    BY <1>1, <1>6, <2>1 DEF Passes
<1>8. CASE OccursBefore(read + 1)
  <2>1. allowed' = allowed
    BY <1>8 DEF KeepFirst
  <2>2. CorsTypes'
    BY <1>1, <2>1 DEF CorsInv, CorsTypes
  <2>3. Passes'
    BY <1>3, <1>4, <1>7, <1>8, <2>1
  <2> QED
    BY <1>1, <1>5, <2>1, <2>2, <2>3, FollowsNext DEF CorsInv, NoneTwice
<1>9. CASE ~OccursBefore(read + 1)
  <2>1. allowed' = Append(allowed, text)
    BY <1>9 DEF KeepFirst
  <2>2. CorsTypes'
    BY <1>1, <1>2, <2>1 DEF CorsInv, CorsTypes
  <2>3. Passes'
    BY <1>2, <1>3, <1>7, <2>1, PrefixAppend
  <2>4. PICK j \in DOMAIN raw :
           raw[j].text = text /\ Seen(j) = Prefix(origins, read + 1)
    BY <1>2 DEF CorsInv, Follows
  <2>5. Follows(Append(allowed, text))
    BY <1>2, <1>3, <2>4, FollowsAppend DEF CorsInv
  <2>6. Follows(allowed)'
    BY <1>1, <2>1, <2>5, FollowsNext
  <2>7. NoneTwice(allowed)'
    BY <1>2, <1>4, <1>9, <2>1 DEF CorsInv, NoneTwice, Range
  <2> QED
    BY <1>5, <2>2, <2>3, <2>6, <2>7 DEF CorsInv
<1> QED
  BY <1>8, <1>9

\* Once the lists are as they are, nothing about them changes.
LEMMA ListsKept ==
    ASSUME CorsInv, UNCHANGED <<raw, read, origins, allowed>>
    PROVE  /\ CorsTypes'
           /\ Follows(origins)' /\ Follows(allowed)'
           /\ AllGood(origins)'
           /\ NoneTwice(allowed)'
<1>1. CorsTypes'
  BY DEF CorsInv, CorsTypes
<1>2. Follows(origins)' /\ Follows(allowed)'
  BY FollowsNext DEF CorsInv
<1> QED
  BY <1>1, <1>2 DEF CorsInv, AllGood, NoneTwice

\* The layer is built.
LEMMA CorsServe ==
    ASSUME CorsInv, cors_layer
    PROVE  CorsInv'
<1>1. /\ Seen(Len(raw)) = Range(origins)
      /\ Range(allowed) = Prefix(origins, Len(origins))
      /\ origins \in Seq(Text)
  BY DEF cors_layer, CorsInv, CorsTypes, Passes
<1>2. Range(origins) = Prefix(origins, Len(origins))
  BY <1>1 DEF Range, Prefix
<1>3. Passes'
  BY <1>1, <1>2 DEF cors_layer, Passes, Seen
<1>4. Echo'
  BY DEF cors_layer, CorsInv, Echo
<1> QED
  BY <1>3, <1>4, ListsKept DEF cors_layer, CorsInv

\* A request is compared with the list.
LEMMA CorsEcho ==
    ASSUME CorsInv, NEW origin \in BrowserOrigin, CrossOriginRequest(origin)
    PROVE  CorsInv'
<1>1. Passes'
  BY DEF CrossOriginRequest, CorsInv, Passes, Seen
<1>2. /\ echoed'.origin = origin
      /\ echoed'.allow = (origin \in Range(allowed))
      /\ phase' = "serving" /\ allowed' = allowed
  BY DEF CrossOriginRequest
<1>3. Echo'
  BY <1>2 DEF Echo
<1> QED
  BY <1>1, <1>3, ListsKept DEF CrossOriginRequest, CorsInv

\* CorsInv holds throughout.
LEMMA CorsInvariant == Spec => []CorsInv
<1>1. CorsInv /\ [Next]_vars => CorsInv'
  <2> SUFFICES ASSUME CorsInv, [Next]_vars PROVE CorsInv'
    OBVIOUS
  <2>1. CASE UNCHANGED vars
    <3>1. Passes' /\ Echo'
      BY <2>1 DEF vars, CorsInv, Passes, Echo, Seen
    <3> QED
      BY <2>1, <3>1, ListsKept DEF vars, CorsInv
  <2> QED
    BY <2>1, CorsParse, CorsCollect, CorsKeep, CorsServe, CorsEcho DEF Next
<1> QED
  BY <1>1, CorsInit, PTL DEF Spec

\* However long CORS_ORIGINS is and whatever it repeats, the layer is given
\* each of its entries once, in the order of first occurrence and all of them
\* good, and allows exactly the browser origins listed as they are sent.
THEOREM OriginsListed == Spec => []ListedIsAllowed
<1>1. CorsInv => ListedIsAllowed
  <2> SUFFICES ASSUME CorsInv PROVE ListedIsAllowed
    OBVIOUS
  <2>1. Listed = Seen(Len(raw))
    BY DEF Listed, Seen, CorsInv, CorsTypes
  <2>2. phase = "serving" => Range(allowed) = Listed
    BY <2>1 DEF CorsInv, Passes
  <2>3. phase = "serving" => \A text \in Listed : ~parse_cors_origin_fails(text)
    BY <2>1 DEF CorsInv, Passes, AllGood, Range
  <2>4. ASSUME NEW m \in DOMAIN allowed, NEW n \in DOMAIN allowed, m < n
        PROVE  WrittenBefore(allowed[m], allowed[n])
    <3>1. PICK j \in DOMAIN raw :
             raw[j].text = allowed[m] /\ Seen(j) = Prefix(allowed, m)
      BY DEF CorsInv, Follows
    <3>2. allowed[n] \notin Prefix(allowed, m)
      BY <2>4 DEF Prefix, CorsInv, CorsTypes, NoneTwice
    <3>3. allowed[n] # Blank
      BY CorsAssumption DEF CorsInv, CorsTypes, Text
    <3> QED
      BY <3>1, <3>2, <3>3 DEF WrittenBefore, Seen
  <2>5. echoed # None =>
           (echoed.allow <=> \E k \in DOMAIN raw : raw[k].text = echoed.origin)
    <3>1. BrowserOrigin \subseteq Uri
      BY DEF BrowserOrigin, Uri
    <3>2. Blank \notin Uri
      BY CorsAssumption
    <3> QED
      BY <2>2, <3>1, <3>2 DEF CorsInv, Echo, Listed
  <2> QED
    BY <2>2, <2>3, <2>4, <2>5 DEF ListedIsAllowed
<1> QED
  BY <1>1, CorsInvariant, PTL
=============================================================================
