------------------------ MODULE SemanticCache_proofs ------------------------
(***************************************************************************)
(* The safety theorems of SemanticCache, for any number of clients, keys   *)
(* and results, any capacity, and a lease that may expire at any moment.   *)
(***************************************************************************)
EXTENDS SemanticCache, FiniteSetTheorems, WellFoundedInduction, TLAPS

\* TypeOK without the bound on the bucket.
Typed ==
  /\ disturbed \in BOOLEAN /\ lapsed \in BOOLEAN /\ (lapsed => disturbed)
  /\ lease \in Clients \cup {Free, Stray}
  /\ bucket \subseteq Descriptors
  /\ values \in [Keys -> Nonces \cup {None}]
  /\ last \in Nonces \cup {None}
  /\ requests \in [Clients -> Requests]

\* What a request looks at again are descriptors of the keys it prunes.
RecheckOf(c) ==
  At(c, "recheck") =>
    /\ requests[c].job = "prune"
    /\ \A d \in requests[c].todo : d.key \in requests[c].keys

\* Who is about to store has been given a nonce.
NonceOf(c) ==
  requests[c].job = "store" /\ requests[c].pc \in {"acquire", "read", "setBucket"}
    => requests[c].nonce \in Nonces

\* Who has renewed its lease to write still has it, unless it ran out just then.
WritesOf(c) ==
  /\ requests[c].checked =>
       requests[c].pc \in {"setBucket", "setValue", "delete", "release"}
  /\ ~lapsed /\ Writing(c) => lease = c

\* OwnerHasReadBucket for one client.
OwnerOf(c) ==
  ~lapsed /\ lease = c /\ requests[c].pc \in {"recheck", "setBucket"} =>
    \A d \in bucket :
      \/ d \in requests[c].ds
      \/ requests[c].job = "prune" /\ d.key \in requests[c].keys

Knows(c) == RecheckOf(c) /\ NonceOf(c) /\ WritesOf(c) /\ OwnerOf(c)

IInv == Typed /\ \A c \in Clients : Knows(c)

\* A request that is over has the type of one.
LEMMA BlankType == Blank \in Requests
<1>1. (CHOOSE k \in Keys : TRUE) \in Keys
  BY CacheAssumption DEF CacheAssumption
<1>2. QED
  BY <1>1 DEF Blank, Requests, Pcs

\* ... and nothing to do.
LEMMA BlankFields ==
  /\ Blank.pc = "idle" /\ Blank.ds = {} /\ Blank.todo = {} /\ Blank.keys = {}
  /\ ~Blank.checked
BY DEF Blank

\* Nobody knows anything at first.
LEMMA InitIInv == Init => IInv
<1> SUFFICES ASSUME Init PROVE IInv
  OBVIOUS
<1>1. requests \in [Clients -> Requests] /\ \A c \in Clients : requests[c] = Blank
  BY BlankType DEF Init
<1>2. Typed
  BY <1>1 DEF Init, Typed
<1>3. \A c \in Clients : Knows(c)
  BY <1>1, BlankFields DEF Knows, RecheckOf, NonceOf, WritesOf, Writing, OwnerOf, At
<1>4. QED
  BY <1>2, <1>3 DEF IInv

\* A request is one client's own: a step of one leaves the others as they are.
LEMMA BecomeFacts ==
  ASSUME Typed, NEW c \in Clients, NEW r \in Requests, Become(c, r)
  PROVE  /\ requests' \in [Clients -> Requests]
         /\ requests'[c] = r
         /\ \A b \in Clients \ {c} : requests'[b] = requests[b]
BY DEF Typed, Become

\* A client takes the lease if nobody has it, and loses no lease but its own.
LeaseOf(c) == lease' = lease \/ (lease \in {c, Free} /\ lease' \in {c, Free, Stray})

\* A step that leaves the bucket alone, or is made under the lease, and gives
\* the lease at most to its own client, cannot disturb what others know.
LEMMA OthersKnow ==
  ASSUME IInv, NEW c \in Clients,
         \A b \in Clients \ {c} : requests'[b] = requests[b],
         lapsed' = lapsed, LeaseOf(c),
         bucket' = bucket \/ lapsed \/ lease' = c
  PROVE  \A b \in Clients \ {c} : Knows(b)'
<1> SUFFICES ASSUME NEW b \in Clients \ {c} PROVE Knows(b)'
  OBVIOUS
<1>1. Knows(b) /\ requests'[b] = requests[b]
  BY DEF IInv
<1>2. b # Free /\ b # Stray
  BY CacheAssumption DEF CacheAssumption, Free, Stray
<1>3. lease' = b <=> lease = b
  BY <1>2 DEF LeaseOf
<1>4. RecheckOf(b)' /\ NonceOf(b)'
  BY <1>1 DEF Knows, RecheckOf, NonceOf, At
<1>5. WritesOf(b)'
  BY <1>1, <1>3 DEF Knows, WritesOf, Writing
<1>6. OwnerOf(b)'
  BY <1>1, <1>3 DEF Knows, OwnerOf
<1>7. QED
  BY <1>4, <1>5, <1>6 DEF Knows

\* Such a step that leads its own client elsewhere.
LEMMA Moves ==
  ASSUME IInv, NEW c \in Clients, NEW r \in Requests, Become(c, r),
         lapsed' = lapsed, LeaseOf(c),
         bucket' = bucket \/ lapsed \/ lease' = c,
         bucket' \subseteq Descriptors,
         disturbed' \in BOOLEAN, disturbed => disturbed',
         values' \in [Keys -> Nonces \cup {None}], last' \in Nonces \cup {None},
         r.pc \notin {"recheck", "setBucket"},
         r.checked => r.pc \in {"setValue", "delete", "release"},
         r.checked /\ r.pc = "setValue" => lapsed \/ lease' = c,
         r.job = "store" /\ r.pc \in {"acquire", "read", "setBucket"}
           => r.nonce \in Nonces
  PROVE  IInv'
<1>1. /\ requests' \in [Clients -> Requests]
      /\ requests'[c] = r
      /\ \A b \in Clients \ {c} : requests'[b] = requests[b]
  BY BecomeFacts DEF IInv
<1>2. Typed'
  <2>1. lapsed' \in BOOLEAN /\ (lapsed' => disturbed')
    BY DEF IInv, Typed
  <2>2. lease' \in Clients \cup {Free, Stray}
    BY DEF IInv, Typed, LeaseOf
  <2>3. QED
    BY <1>1, <2>1, <2>2 DEF Typed
<1>3. \A b \in Clients \ {c} : Knows(b)'
  BY <1>1, OthersKnow
<1>4. Knows(c)'
  BY <1>1 DEF Knows, RecheckOf, NonceOf, WritesOf, Writing, OwnerOf, At
<1>5. QED
  BY <1>2, <1>3, <1>4 DEF IInv


----------------------------------------------------------------------------
\* The end of a change, whatever became of it.
LEMMA AfterMutateMoves ==
  ASSUME Typed, NEW c \in Clients, AfterMutate(c)
  PROVE  \E r \in Requests :
           /\ Become(c, r) /\ r.pc \in {"provider", "idle"} /\ r.ds = {}
           /\ ~r.checked
<1>1. requests[c] \in Requests
  BY DEF Typed
<1>2. CASE requests[c].job = "prune"
  <2> DEFINE r == [requests[c] EXCEPT !.pc = "provider", !.ds = {}, !.todo = {},
                                      !.keys = {}, !.checked = FALSE]
  <2>1. Become(c, r)
    BY <1>2 DEF AfterMutate
  <2>2. r \in Requests
    BY <1>1 DEF Requests, Pcs
  <2>3. r.pc = "provider" /\ r.ds = {} /\ ~r.checked
    BY <1>1 DEF Requests
  <2> HIDE DEF r
  <2>4. QED
    BY <2>1, <2>2, <2>3
<1>3. CASE requests[c].job # "prune"
  BY <1>3, BlankType, BlankFields DEF AfterMutate, Answer
<1>4. QED
  BY <1>2, <1>3

\* A step to another place changes nothing else of the request.
LEMMA GotoMoves ==
  ASSUME Typed, NEW c \in Clients, NEW pc \in Pcs, Goto(c, pc)
  PROVE  \E r \in Requests :
           /\ Become(c, r) /\ r.pc = pc
           /\ r.job = requests[c].job /\ r.nonce = requests[c].nonce
           /\ r.key = requests[c].key /\ r.keys = requests[c].keys
           /\ r.ds = requests[c].ds /\ r.checked = requests[c].checked
<1> DEFINE r == [requests[c] EXCEPT !.pc = pc]
<1>1. requests[c] \in Requests
  BY DEF Typed
<1>2. /\ r \in Requests /\ r.pc = pc
      /\ r.job = requests[c].job /\ r.nonce = requests[c].nonce
      /\ r.key = requests[c].key /\ r.keys = requests[c].keys
      /\ r.ds = requests[c].ds /\ r.checked = requests[c].checked
  BY <1>1 DEF Requests
<1>3. Become(c, r)
  BY DEF Goto
<1> HIDE DEF r
<1>4. QED
  BY <1>2, <1>3

\* Serving a request touches neither the index nor the lease.
LEMMA ServingKeeps ==
  ASSUME IInv, NEW c \in Clients, Ask(c) \/ Serving(c) PROVE IInv'
<1> DEFINE q == requests[c]
<1>1. /\ Typed /\ q \in Requests
      /\ q.checked => q.pc \in {"setBucket", "setValue", "delete", "release"}
  BY DEF IInv, Typed, Knows, WritesOf
<1>2. CASE Ask(c)
  <2>1. PICK force \in BOOLEAN :
          Become(c, [Blank EXCEPT !.pc = IF force THEN "provider" ELSE "lookup",
                                  !.force = force])
    BY <1>2 DEF Ask
  <2> DEFINE r == [Blank EXCEPT !.pc = IF force THEN "provider" ELSE "lookup",
                                !.force = force]
  <2>2. r \in Requests
    BY BlankType DEF Requests, Pcs
  <2>3. r.pc \in {"provider", "lookup"} /\ ~r.checked
    BY DEF Blank
  <2>4. Become(c, r)
    BY <2>1
  <2> HIDE DEF r
  <2>5. QED
    BY <1>1, <1>2, <2>2, <2>3, <2>4, Moves DEF Ask, store, aux, LeaseOf, Typed
<1>3. CASE Lookup(c)
  <2>1. PICK eligible \in SUBSET bucket :
          Become(c, [q EXCEPT !.pc = "probe", !.todo = eligible])
    BY <1>3 DEF Lookup
  <2> DEFINE r == [q EXCEPT !.pc = "probe", !.todo = eligible]
  <2>2. r \in Requests /\ r.pc = "probe" /\ ~r.checked
    BY <1>1, <1>3 DEF Requests, Pcs, Typed, Lookup, At
  <2>3. Become(c, r)
    BY <2>1
  <2> HIDE DEF r
  <2>4. QED
    BY <1>1, <1>3, <2>2, <2>3, Moves DEF Lookup, store, aux, LeaseOf, Typed
<1>4. CASE Probe(c)
  <2>1. CASE Goto(c, "provider")
    <3>1. PICK r \in Requests : Become(c, r) /\ r.pc = "provider" /\ ~r.checked
      <4>1. "provider" \in Pcs /\ q.pc = "probe"
        BY <1>4 DEF Pcs, Probe, At
      <4>2. QED
        BY <1>1, <2>1, <4>1, GotoMoves
    <3>2. QED
      BY <1>1, <1>4, <3>1, Moves DEF Probe, store, aux, LeaseOf, Typed
  <2>2. CASE Become(c, [q EXCEPT !.pc = "acquire", !.job = "prune"])
    <3> DEFINE r == [q EXCEPT !.pc = "acquire", !.job = "prune"]
    <3>1. r \in Requests /\ r.pc = "acquire" /\ r.job = "prune" /\ ~r.checked
      BY <1>1, <1>4 DEF Requests, Pcs, Probe, At
    <3>2. Become(c, r)
      BY <2>2
    <3> HIDE DEF r
    <3>3. QED
      BY <1>1, <1>4, <3>1, <3>2, Moves DEF Probe, store, aux, LeaseOf, Typed
  <2>3. ASSUME NEW d \in q.todo, ~Matches(d),
               Become(c, [q EXCEPT !.todo = @ \ {d}, !.keys = @ \cup {d.key}])
        PROVE  IInv'
    <3> DEFINE r == [q EXCEPT !.todo = @ \ {d}, !.keys = @ \cup {d.key}]
    <3>1. d.key \in Keys
      BY <1>1 DEF Requests, Descriptors
    <3>2. r \in Requests
      BY <1>1, <3>1 DEF Requests
    <3>3. r.pc = "probe" /\ ~r.checked
      BY <1>1, <1>4 DEF Requests, Probe, At
    <3>4. Become(c, r)
      BY <2>3
    <3> HIDE DEF r
    <3>5. QED
      BY <1>1, <1>4, <3>2, <3>3, <3>4, Moves DEF Probe, store, aux, LeaseOf, Typed
  <2>4. ASSUME NEW d \in q.todo, Matches(d),
               Become(c, [q EXCEPT !.pc = "hit", !.todo = {d},
                                   !.nonce = values[d.key]])
        PROVE  IInv'
    <3> DEFINE r == [q EXCEPT !.pc = "hit", !.todo = {d}, !.nonce = values[d.key]]
    <3>1. d \in Descriptors /\ d.key \in Keys
      BY <1>1 DEF Requests, Descriptors
    <3>2. r \in Requests
      BY <1>1, <3>1 DEF Requests, Pcs, Typed
    <3>3. r.pc = "hit" /\ ~r.checked
      BY <1>1, <1>4 DEF Requests, Probe, At
    <3>4. Become(c, r)
      BY <2>4
    <3> HIDE DEF r
    <3>5. QED
      BY <1>1, <1>4, <3>2, <3>3, <3>4, Moves DEF Probe, store, aux, LeaseOf, Typed
  <2>5. QED
    BY <1>4, <2>1, <2>2, <2>3, <2>4 DEF Probe
<1>5. CASE Serve(c)
  <2>1. CASE Answer(c)
    BY <1>1, <1>5, <2>1, BlankType, BlankFields, Moves DEF Serve, Answer, store, aux, LeaseOf, Typed
  <2>2. CASE Become(c, [q EXCEPT !.pc = "probe", !.todo = {}, !.nonce = None])
    <3> DEFINE r == [q EXCEPT !.pc = "probe", !.todo = {}, !.nonce = None]
    <3>1. r \in Requests /\ r.pc = "probe" /\ ~r.checked
      BY <1>1, <1>5 DEF Requests, Pcs, Serve, At
    <3>2. Become(c, r)
      BY <2>2
    <3> HIDE DEF r
    <3>3. QED
      BY <1>1, <1>5, <3>1, <3>2, Moves DEF Serve, store, aux, LeaseOf, Typed
  <2>3. QED
    BY <1>5, <2>1, <2>2 DEF Serve
<1>6. CASE Provide(c)
  <2>1. CASE Answer(c)
    BY <1>1, <1>6, <2>1, BlankType, BlankFields, Moves DEF Provide, Answer, store, aux, LeaseOf, Typed
  <2>2. CASE Goto(c, "store")
    <3>1. PICK r \in Requests : Become(c, r) /\ r.pc = "store" /\ ~r.checked
      BY <1>1, <1>6, <2>2, GotoMoves DEF Pcs, Provide, At
    <3>2. QED
      BY <1>1, <1>6, <3>1, Moves DEF Provide, store, aux, LeaseOf, Typed
  <2>3. QED
    BY <1>6, <2>1, <2>2 DEF Provide
<1>7. CASE Store(c)
  <2>1. CASE Answer(c) /\ UNCHANGED last
    BY <1>1, <1>7, <2>1, BlankType, BlankFields, Moves DEF Store, Answer, store, aux, LeaseOf, Typed
  <2>2. ASSUME NEW key \in Keys, last # MaxStores, last' = last + 1,
               Become(c, [Blank EXCEPT !.pc = "acquire", !.key = key,
                                       !.nonce = last + 1])
        PROVE  IInv'
    <3> DEFINE r == [Blank EXCEPT !.pc = "acquire", !.key = key, !.nonce = last + 1]
    <3>1. last + 1 \in Nonces
      BY <1>1, <2>2, CacheAssumption DEF Typed, Nonces, None, CacheAssumption
    <3>2. r \in Requests
      BY <3>1, BlankType DEF Requests, Pcs
    <3>3. r.pc = "acquire" /\ r.nonce = last + 1 /\ ~r.checked
      BY DEF Blank
    <3>4. Become(c, r)
      BY <2>2
    <3> HIDE DEF r
    <3>5. QED
      BY <1>1, <1>7, <2>2, <3>1, <3>2, <3>3, <3>4, Moves DEF Store, store, aux, LeaseOf, Typed
  <2>3. QED
    BY <1>7, <2>1, <2>2 DEF Store
<1>8. QED
  BY <1>2, <1>3, <1>4, <1>5, <1>6, <1>7 DEF Serving


\* Changes of the bucket: the owner of the lease reads it before it writes,
\* and while it owns the lease no other write is let in.
LEMMA MutatingKeeps ==
  ASSUME IInv, NEW c \in Clients, Mutating(c) PROVE IInv'
<1> DEFINE q == requests[c]
<1>1. /\ Typed /\ q \in Requests /\ Knows(c)
      /\ q.checked => q.pc \in {"setBucket", "setValue", "delete", "release"}
  BY DEF IInv, Typed, Knows, WritesOf
<1>2. CASE Acquire(c)
  <2>1. q.job = "store" => q.nonce \in Nonces
    BY <1>1, <1>2 DEF Acquire, At, Knows, NonceOf
  <2>2. PICK r \in Requests : /\ Become(c, r) /\ r.pc = "read" /\ ~r.checked
                              /\ r.job = q.job /\ r.nonce = q.nonce
    BY <1>1, <1>2, GotoMoves DEF Acquire, Pcs, At
  <2>3. QED
    BY <1>1, <1>2, <2>1, <2>2, Moves DEF Acquire, store, aux, LeaseOf, Typed
<1>3. CASE GiveUp(c)
  BY <1>1, <1>3, AfterMutateMoves, Moves DEF GiveUp, store, aux, LeaseOf, Typed
<1>4. CASE Read(c)
  <2>1. /\ UNCHANGED <<lease, store, last, aux>>
        /\ bucket \in SUBSET Descriptors
    BY <1>1, <1>4 DEF Read, Typed
  <2>2. CASE q.job = "store" /\ Become(c, [q EXCEPT !.pc = "setBucket", !.ds = bucket])
    <3> DEFINE r == [q EXCEPT !.pc = "setBucket", !.ds = bucket]
    <3>1. /\ r \in Requests /\ r.pc = "setBucket" /\ r.ds = bucket
          /\ r.job = q.job /\ r.nonce = q.nonce /\ ~r.checked
      BY <1>1, <1>4, <2>1 DEF Requests, Pcs, Read, At
    <3>2. Become(c, r)
      BY <2>2
    <3> HIDE DEF r
    <3>3. /\ requests' \in [Clients -> Requests] /\ requests'[c] = r
          /\ \A b \in Clients \ {c} : requests'[b] = requests[b]
      BY <1>1, <3>1, <3>2, BecomeFacts
    <3>4. Typed' /\ \A b \in Clients \ {c} : Knows(b)'
      BY <1>1, <2>1, <3>3, OthersKnow DEF Typed, store, aux, LeaseOf
    <3>5. Knows(c)'
      BY <1>1, <1>4, <2>1, <3>1, <3>3
      DEF Read, Knows, RecheckOf, NonceOf, WritesOf, Writing, OwnerOf, At, store, aux
    <3>6. QED
      BY <3>4, <3>5 DEF IInv
  <2>3. CASE /\ q.job = "prune"
             /\ Become(c, [q EXCEPT !.pc = "recheck", !.ds = bucket,
                                    !.todo = {d \in bucket : d.key \in q.keys}])
    <3> DEFINE todo == {d \in bucket : d.key \in q.keys}
               r == [q EXCEPT !.pc = "recheck", !.ds = bucket, !.todo = todo]
    <3>1. todo \in SUBSET Descriptors /\ \A d \in todo : d.key \in q.keys
      BY <2>1
    <3>2. Become(c, r)
      BY <2>3
    <3> HIDE DEF todo
    <3>3. /\ r \in Requests /\ r.pc = "recheck" /\ r.ds = bucket /\ r.todo = todo
          /\ r.job = "prune" /\ r.keys = q.keys /\ ~r.checked
      BY <1>1, <1>4, <2>1, <2>3, <3>1 DEF Requests, Pcs, Read, At
    <3> HIDE DEF r
    <3>4. /\ requests' \in [Clients -> Requests] /\ requests'[c] = r
          /\ \A b \in Clients \ {c} : requests'[b] = requests[b]
      BY <1>1, <3>2, <3>3, BecomeFacts
    <3>5. Typed' /\ \A b \in Clients \ {c} : Knows(b)'
      BY <1>1, <2>1, <3>4, OthersKnow DEF Typed, store, aux, LeaseOf
    <3>6. Knows(c)'
      BY <2>1, <3>1, <3>3, <3>4 DEF Knows, RecheckOf, NonceOf, WritesOf, Writing, OwnerOf, At, store, aux
    <3>7. QED
      BY <3>5, <3>6 DEF IInv
  <2>4. QED
    BY <1>1, <1>4, <2>2, <2>3 DEF Read, Requests
<1>5. CASE Recheck(c)
  <2>1. /\ UNCHANGED <<lease, store, last, aux>> /\ q.pc = "recheck"
        /\ q.job = "prune" /\ \A d \in q.todo : d.key \in q.keys
    BY <1>1, <1>5 DEF Recheck, At, Knows, RecheckOf
  <2>2. ASSUME NEW pc \in {"recheck", "setBucket"},
               NEW todo \in SUBSET q.todo, NEW ds \in SUBSET q.ds,
               \A d \in q.ds \ ds : d.key \in q.keys,
               Become(c, [q EXCEPT !.pc = pc, !.todo = todo, !.ds = ds])
        PROVE  IInv'
    <3> DEFINE r == [q EXCEPT !.pc = pc, !.todo = todo, !.ds = ds]
    <3>1. /\ r \in Requests /\ r.pc = pc /\ r.todo = todo /\ r.ds = ds
          /\ r.job = q.job /\ r.keys = q.keys /\ ~r.checked
      BY <1>1, <2>1 DEF Requests, Pcs
    <3>2. Become(c, r)
      BY <2>2
    <3> HIDE DEF r
    <3>3. /\ requests' \in [Clients -> Requests] /\ requests'[c] = r
          /\ \A b \in Clients \ {c} : requests'[b] = requests[b]
      BY <1>1, <3>1, <3>2, BecomeFacts
    <3>4. Typed' /\ \A b \in Clients \ {c} : Knows(b)'
      BY <1>1, <2>1, <3>3, OthersKnow DEF Typed, store, aux, LeaseOf
    <3>5. Knows(c)'
      BY <1>1, <2>1, <2>2, <3>1, <3>3
      DEF Knows, RecheckOf, NonceOf, WritesOf, Writing, OwnerOf, At, store, aux
    <3>6. QED
      BY <3>4, <3>5 DEF IInv
  <2>3. CASE Goto(c, "setBucket")
    <3>1. [q EXCEPT !.pc = "setBucket"]
            = [q EXCEPT !.pc = "setBucket", !.todo = q.todo, !.ds = q.ds]
      BY <1>1 DEF Requests
    <3>2. QED
      BY <2>2, <2>3, <3>1 DEF Goto
  <2>4. ASSUME NEW d \in q.todo,
               Become(c, [q EXCEPT !.todo = @ \ {d},
                                   !.ds = IF Matches(d) THEN @ ELSE @ \ {d}])
        PROVE  IInv'
    <3> DEFINE ds == IF Matches(d) THEN q.ds ELSE q.ds \ {d}
    <3>1. [q EXCEPT !.todo = @ \ {d}, !.ds = IF Matches(d) THEN @ ELSE @ \ {d}]
            = [q EXCEPT !.pc = "recheck", !.todo = q.todo \ {d}, !.ds = ds]
      BY <1>1, <2>1 DEF Requests
    <3>2. ds \in SUBSET q.ds /\ \A e \in q.ds \ ds : e.key \in q.keys
      BY <2>1
    <3> HIDE DEF ds
    <3>3. QED
      BY <2>2, <2>4, <3>1, <3>2
  <2>5. QED
    BY <1>5, <2>3, <2>4 DEF Recheck
<1>6. CASE CheckOwner(c)
  <2>1. CASE lease = c /\ Become(c, [q EXCEPT !.checked = TRUE])
    <3> DEFINE r == [q EXCEPT !.checked = TRUE]
    <3>1. /\ r \in Requests /\ r.pc = q.pc /\ r.pc \in {"setBucket", "setValue"}
          /\ r.job = q.job /\ r.nonce = q.nonce /\ r.ds = q.ds /\ r.keys = q.keys
      BY <1>1, <1>6 DEF Requests, CheckOwner
    <3>2. Become(c, r)
      BY <2>1
    <3> HIDE DEF r
    <3>3. /\ requests' \in [Clients -> Requests] /\ requests'[c] = r
          /\ \A b \in Clients \ {c} : requests'[b] = requests[b]
      BY <1>1, <3>1, <3>2, BecomeFacts
    <3>4. UNCHANGED <<lease, bucket, values, last, disturbed, lapsed>>
      BY <1>6 DEF CheckOwner, store, aux
    <3>5. Typed' /\ \A b \in Clients \ {c} : Knows(b)'
      BY <1>1, <3>3, <3>4, OthersKnow DEF Typed, LeaseOf
    <3>6. Knows(c)'
      BY <1>1, <2>1, <3>1, <3>3, <3>4
      DEF Knows, RecheckOf, NonceOf, WritesOf, Writing, OwnerOf, At
    <3>7. QED
      BY <3>5, <3>6 DEF IInv
  <2>2. CASE Become(c, [q EXCEPT !.pc = "release"])
    <3>1. Goto(c, "release")
      BY <2>2 DEF Goto
    <3>2. PICK r \in Requests : Become(c, r) /\ r.pc = "release"
      BY <1>1, <3>1, GotoMoves DEF Pcs
    <3>3. QED
      BY <1>1, <1>6, <3>2, Moves DEF CheckOwner, store, aux, LeaseOf, Typed
  <2>3. QED
    BY <1>6, <2>1, <2>2 DEF CheckOwner
<1>8. CASE SetBucket(c)
  <2>1. lapsed \/ lease = c
    BY <1>1, <1>8 DEF SetBucket, MayWrite, Knows, WritesOf, Writing, At
  <2>2. CASE /\ q.job = "store"
             /\ bucket' = Newest(Retained(q))
             /\ Become(c, [q EXCEPT !.pc = "setValue", !.ds = {}, !.keys = Evicted(q),
                                    !.checked = FALSE])
    <3> DEFINE r == [q EXCEPT !.pc = "setValue", !.ds = {}, !.keys = Evicted(q),
                              !.checked = FALSE]
    <3>1. Retained(q) \subseteq Descriptors
      <4>1. q.key \in Keys /\ q.ds \subseteq Descriptors
        BY <1>1 DEF Requests
      <4>2. q.nonce \in Nonces
        BY <1>1, <1>8, <2>2 DEF SetBucket, At, Knows, NonceOf
      <4>3. Own(q) \in Descriptors
        BY <4>1, <4>2 DEF Own, Descriptors
      <4>4. QED
        BY <4>1, <4>3 DEF Retained
    <3>2. bucket' \subseteq Descriptors
      BY <2>2, <3>1 DEF Newest
    <3>3. Evicted(q) \subseteq Keys
      BY <3>1 DEF Evicted, KeysOf, Descriptors
    <3>4. r \in Requests /\ r.pc = "setValue" /\ ~r.checked
      BY <1>1, <3>3 DEF Requests, Pcs
    <3>5. Become(c, r)
      BY <2>2
    <3> HIDE DEF r
    <3>6. QED
      BY <1>1, <1>8, <2>1, <3>2, <3>4, <3>5, Moves DEF SetBucket, aux, LeaseOf, Typed
  <2>3. CASE bucket' = q.ds /\ Goto(c, "release")
    BY <1>1, <1>8, <2>1, <2>3, GotoMoves, Moves DEF SetBucket, aux, LeaseOf, Typed, Requests, Pcs
  <2>4. QED
    BY <1>8, <2>2, <2>3 DEF SetBucket
<1>9. CASE SetValue(c)
  BY <1>1, <1>9, GotoMoves, Moves DEF SetValue, aux, LeaseOf, Typed, Requests, Pcs
<1>10. CASE Delete(c)
  <2>1. values' \in [Keys -> Nonces \cup {None}]
    BY <1>1, <1>10 DEF Delete, Typed
  <2>2. CASE Goto(c, "release")
    BY <1>1, <1>10, <2>1, <2>2, GotoMoves, Moves DEF Delete, aux, LeaseOf, Typed, Pcs
  <2>3. ASSUME NEW k \in q.keys, Become(c, [q EXCEPT !.keys = @ \ {k}]) PROVE IInv'
    <3> DEFINE r == [q EXCEPT !.keys = @ \ {k}]
    <3>1. r \in Requests /\ r.pc = "delete"
      BY <1>1, <1>10 DEF Requests, Delete, At
    <3>2. Become(c, r)
      BY <2>3
    <3> HIDE DEF r
    <3>3. QED
      BY <1>1, <1>10, <2>1, <3>1, <3>2, Moves DEF Delete, aux, LeaseOf, Typed
  <2>4. QED
    BY <1>10, <2>2, <2>3 DEF Delete
<1>11. CASE Release(c)
  BY <1>1, <1>11, AfterMutateMoves, Moves DEF Release, store, aux, LeaseOf, Typed
<1>12. QED
  BY <1>2, <1>3, <1>4, <1>5, <1>6, <1>8, <1>9, <1>10, <1>11 DEF Mutating

\* No failure, crash, expiry or eviction gives a lease to anybody.
LEMMA FaultKeeps ==
  ASSUME IInv, NEW c \in Clients, CommandFails(c) \/ LeaseFails(c) \/ Crash(c)
  PROVE  IInv'
<1>1. Typed
  BY DEF IInv
<1>2. CASE CommandFails(c)
  <2>1. CASE Answer(c)
    BY <1>1, <1>2, <2>1, BlankType, BlankFields, Moves
    DEF CommandFails, Answer, store, aux, LeaseOf, Typed
  <2>2. CASE Goto(c, "release")
    BY <1>1, <1>2, <2>2, GotoMoves, Moves DEF CommandFails, store, aux, LeaseOf, Typed, Pcs
  <2>3. QED
    BY <1>2, <2>1, <2>2 DEF CommandFails
<1>3. CASE LeaseFails(c)
  BY <1>1, <1>3, AfterMutateMoves, Moves DEF LeaseFails, store, aux, LeaseOf, Typed
<1>4. CASE Crash(c)
  BY <1>1, <1>4, BlankType, BlankFields, Moves DEF Crash, Answer, store, aux, LeaseOf, Typed
<1>5. QED
  BY <1>2, <1>3, <1>4

\* What the lease, or the cache, loses by itself nobody relies on.
LEMMA LossKeeps ==
  ASSUME IInv, Expire \/ DropBucket \/ \E k \in Keys : DropValue(k) PROVE IInv'
<1> DEFINE Lost == /\ lease' \in {lease, Free} /\ bucket' \in {bucket, {}}
                   /\ requests' = requests /\ Typed'
                   /\ \/ lapsed'
                      \/ /\ lapsed' = lapsed
                         /\ \A b \in Clients : lease = b /\ Writing(b) => lease' = lease
<1>1. Lost
  <2>1. Typed
    BY DEF IInv
  <2>2. CASE Expire
    BY <2>1, <2>2 DEF Expire, store, Typed
  <2>3. CASE DropBucket
    BY <2>1, <2>3 DEF DropBucket, store, Typed
  <2>4. ASSUME NEW k \in Keys, DropValue(k) PROVE Lost
    BY <2>1, <2>4 DEF DropValue, store, Typed
  <2>5. QED
    BY <2>2, <2>3, <2>4
<1>2. ASSUME NEW b \in Clients PROVE Knows(b)'
  <2>1. Knows(b) /\ b # Free
    BY CacheAssumption DEF IInv, CacheAssumption, Free
  <2>2. RecheckOf(b)' /\ NonceOf(b)' /\ OwnerOf(b)'
    BY <1>1, <2>1 DEF Knows, RecheckOf, NonceOf, OwnerOf, At
  <2>3. WritesOf(b)'
    BY <1>1, <2>1 DEF Knows, WritesOf, Writing
  <2>4. QED
    BY <2>2, <2>3 DEF Knows
<1>3. QED
  BY <1>1, <1>2 DEF IInv

\* IInv is inductive.
LEMMA IInvStep == IInv /\ [Next]_vars => IInv'
<1> SUFFICES ASSUME IInv, [Next]_vars PROVE IInv'
  OBVIOUS
<1>1. CASE UNCHANGED vars
  BY <1>1 DEF vars, store, IInv, Typed, Knows, RecheckOf, NonceOf, WritesOf, Writing, OwnerOf, At
<1>2. CASE Next
  BY <1>2, ServingKeeps, MutatingKeeps, FaultKeeps, LossKeeps DEF Next
<1>3. QED
  BY <1>1, <1>2

\* No takeover of the lease lets two changes of the bucket start from the same
\* contents, for any number of writers, and expiry at any time but one: between
\* the check that has renewed a lease and the write that follows it.
THEOREM WritersTakeTurns == Spec => []OwnerHasReadBucket
<1>1. IInv => OwnerHasReadBucket
  BY DEF IInv, Knows, OwnerOf, OwnerHasReadBucket
<1>2. QED
  BY <1>1, InitIInv, IInvStep, PTL DEF Spec

----------------------------------------------------------------------------
(***************************************************************************)
(* The index.  Every result has a nonce of its own, so that the newest     *)
(* descriptors can be counted; a key has one descriptor at most; and the   *)
(* owner of the lease has read what it writes back.  While nothing has     *)
(* failed, a stored result that is not indexed is its to see to.           *)
(***************************************************************************)
\* Where a request owns the lease, unless something has gone wrong.
Holding == {"read", "recheck", "setBucket", "setValue", "delete", "release"}

\* A request has a result that is yet to be indexed.
Storing(c) ==
  requests[c].job = "store" /\ requests[c].pc \in {"acquire", "read", "setBucket"}

\* Descriptors that are indexed, that were read, or that are to be indexed.
InUse(d) ==
  \/ d \in bucket
  \/ \E c \in Clients : \/ d \in requests[c].ds
                        \/ Storing(c) /\ d = Own(requests[c])

OneEach ==
  /\ \A d \in Descriptors : InUse(d) => d.nonce <= last
  /\ \A d, e \in Descriptors : InUse(d) /\ InUse(e) /\ d.nonce = e.nonce => d = e

Index(ds) ==
  /\ Cardinality(ds) <= Capacity
  /\ \A d, e \in ds : d.key = e.key => d = e

Indices == Index(bucket) /\ \A c \in Clients : Index(requests[c].ds)

\* Client c, and nobody else, may write.
Sole(c) == lease = c /\ ~lapsed

HasRead(c) ==
  Sole(c) /\ requests[c].pc \in {"recheck", "setBucket"} =>
    \A d \in bucket \ requests[c].ds : ~Matches(d) /\ requests[c].job = "prune"

HoldsOf(c) ==
  ~disturbed =>
    /\ lease = c <=> requests[c].pc \in Holding
    /\ requests[c].pc \in {"recheck", "setBucket"} => requests[c].ds \subseteq bucket
    /\ requests[c].pc = "setValue" =>
         Own(requests[c]) \in bucket \/ requests[c].key \in requests[c].keys

\* The value of key k is about to be replaced or deleted by client c.
Owes(c, k) ==
  /\ lease = c
  /\ \/ requests[c].pc \in {"setValue", "delete"} /\ k \in requests[c].keys
     \/ requests[c].pc = "setValue" /\ k = requests[c].key

Indexed(k) == values[k] # None => [key |-> k, nonce |-> values[k]] \in bucket

\* A value is indexed, or it is the owner's to see to.
Seen(k) == Indexed(k) \/ \E c \in Clients : Owes(c, k)

Settled == ~disturbed => lease # Stray /\ \A k \in Keys : Seen(k)

IndexInv ==
  /\ OneEach /\ Indices
  /\ \A c \in Clients : HasRead(c) /\ HoldsOf(c)
  /\ Settled

FullInv == IInv /\ IndexInv

----------------------------------------------------------------------------
(***************************************************************************)
(* What a step of one client does, field by field.                         *)
(***************************************************************************)
\* Only client c's request changes.
Alone(c) ==
  /\ requests' \in [Clients -> Requests] /\ lapsed' = lapsed
  /\ \A b \in Clients \ {c} : requests'[b] = requests[b]

\* It is still about the same query and result.
Keeps(c) ==
  /\ requests'[c].job = requests[c].job
  /\ requests'[c].key = requests[c].key /\ requests'[c].nonce = requests[c].nonce

From(c, pc) == requests[c].pc = pc
To(c, pc) == requests'[c].pc = pc
Quiet == UNCHANGED <<lease, store, last, disturbed>>

\* A step outside of a change, ...
Serves(c) ==
  /\ Quiet /\ requests[c].pc \notin Holding /\ requests'[c].pc \notin Holding
  /\ requests'[c].ds \subseteq requests[c].ds /\ ~Storing(c)'

\* ... which begins with a new nonce ...
Starts(c) ==
  /\ UNCHANGED <<lease, store, disturbed>> /\ last \in Nat /\ last' = last + 1
  /\ requests[c].pc \notin Holding /\ To(c, "acquire")
  /\ requests'[c].nonce = last + 1 /\ requests'[c].ds = {}

\* ... and the lease.
Acquires(c) ==
  /\ UNCHANGED <<store, last, disturbed>>
  /\ lease = Free /\ lease' = c
  /\ From(c, "acquire") /\ To(c, "read")
  /\ Keeps(c) /\ requests'[c].ds = requests[c].ds

Reads(c) ==
  /\ Quiet /\ Keeps(c) /\ requests'[c].ds = bucket
  /\ From(c, "read") /\ requests'[c].pc \in {"recheck", "setBucket"}

Rechecks(c) ==
  /\ Quiet /\ Keeps(c) /\ requests[c].job = "prune"
  /\ From(c, "recheck") /\ requests'[c].pc \in {"recheck", "setBucket"}
  /\ requests'[c].ds \subseteq requests[c].ds
  /\ \A d \in requests[c].ds \ requests'[c].ds : ~Matches(d)

Checks(c) ==
  /\ Quiet /\ Keeps(c) /\ requests'[c].ds = requests[c].ds
  /\ requests[c].pc \in {"setBucket", "setValue"} /\ To(c, requests[c].pc)
  /\ requests'[c].keys = requests[c].keys

\* Who does not own the lease gives up.
TurnedAway(c) ==
  /\ Quiet /\ lease # c
  /\ requests[c].pc \in {"setBucket", "setValue"} /\ To(c, "release")
  /\ requests'[c].ds = requests[c].ds

Registers(c) ==
  /\ UNCHANGED <<lease, values, last, disturbed>> /\ (~lapsed => lease = c)
  /\ From(c, "setBucket") /\ To(c, "setValue")
  /\ requests[c].job = "store" /\ Keeps(c)
  /\ bucket' = Newest(Retained(requests[c]))
  /\ requests'[c].keys = Evicted(requests[c]) /\ requests'[c].ds = {}

Prunes(c) ==
  /\ UNCHANGED <<lease, values, last, disturbed>> /\ (~lapsed => lease = c)
  /\ From(c, "setBucket") /\ To(c, "release")
  /\ requests[c].job = "prune" /\ bucket' = requests[c].ds
  /\ requests'[c].ds = requests[c].ds

Puts(c) ==
  /\ UNCHANGED <<lease, bucket, last, disturbed>> /\ (~lapsed => lease = c)
  /\ From(c, "setValue") /\ To(c, "delete")
  /\ values' = [values EXCEPT ![requests[c].key] = requests[c].nonce]
  /\ requests'[c].keys = requests[c].keys /\ requests'[c].ds = requests[c].ds

DeletesOne(c) ==
  /\ UNCHANGED <<lease, bucket, last, disturbed>>
  /\ From(c, "delete") /\ To(c, "delete") /\ requests'[c].ds = requests[c].ds
  /\ \E k \in requests[c].keys :
       /\ values' = [values EXCEPT ![k] = None]
       /\ requests'[c].keys = requests[c].keys \ {k}

HasDeleted(c) ==
  /\ Quiet /\ requests[c].keys = {} /\ requests'[c].ds = requests[c].ds
  /\ From(c, "delete") /\ To(c, "release")

Releases(c) ==
  /\ UNCHANGED <<store, last, disturbed>>
  /\ lease' = IF lease = c THEN Free ELSE lease
  /\ From(c, "release") /\ requests'[c].pc \in {"provider", "idle"}
  /\ requests'[c].ds = {}

Fails(c) ==
  /\ UNCHANGED <<store, last>> /\ disturbed'
  /\ lease' \in {lease, Free, Stray}
  /\ requests'[c].pc \in {"release", "provider", "idle"}
  /\ requests'[c].ds \subseteq requests[c].ds

StepOf(c) ==
  /\ Alone(c)
  /\ \/ Serves(c) \/ Starts(c) \/ Acquires(c) \/ Reads(c) \/ Rechecks(c)
     \/ Checks(c) \/ TurnedAway(c) \/ Registers(c) \/ Prunes(c) \/ Puts(c)
     \/ DeletesOne(c) \/ HasDeleted(c) \/ Releases(c) \/ Fails(c)

\* Steps that leave a change, or lead elsewhere without other consequence.
LEMMA GotoStep ==
  ASSUME Typed, NEW c \in Clients, NEW pc \in Pcs, Goto(c, pc), lapsed' = lapsed
  PROVE  /\ Alone(c) /\ Keeps(c) /\ To(c, pc)
         /\ requests'[c].ds = requests[c].ds /\ requests'[c].keys = requests[c].keys
BY GotoMoves, BecomeFacts DEF Alone, Keeps, To

\* The end of a change.
LEMMA AfterStep ==
  ASSUME Typed, NEW c \in Clients, AfterMutate(c), lapsed' = lapsed
  PROVE  /\ Alone(c) /\ requests'[c].pc \in {"provider", "idle"}
         /\ requests'[c].ds = {}
BY AfterMutateMoves, BecomeFacts DEF Alone

\* An answer.
LEMMA AnswerStep ==
  ASSUME Typed, NEW c \in Clients, Answer(c), lapsed' = lapsed
  PROVE  /\ Alone(c) /\ To(c, "idle") /\ requests'[c].ds = {}
BY BlankType, BlankFields, BecomeFacts DEF Alone, Answer, To

\* Serving a request.
LEMMA ServingStep ==
  ASSUME Typed, NEW c \in Clients, Ask(c) \/ Serving(c) PROVE StepOf(c)
<1> DEFINE q == requests[c]
<1>1. q \in Requests
  BY DEF Typed
<1>2. ASSUME NEW r \in Requests, Become(c, r), lapsed' = lapsed, Quiet,
             q.pc \notin Holding, r.pc \notin Holding, r.ds \subseteq q.ds,
             ~(r.job = "store" /\ r.pc \in {"acquire", "read", "setBucket"})
      PROVE  StepOf(c)
  <2>1. requests'[c] = r /\ Alone(c)
    BY <1>2, BecomeFacts DEF Alone
  <2>2. QED
    BY <1>2, <2>1 DEF StepOf, Serves, Storing
<1>3. CASE Answer(c) /\ Quiet /\ lapsed' = lapsed /\ q.pc \notin Holding
  BY <1>2, <1>3, BlankType, BlankFields DEF Answer, Holding
<1>4. ASSUME Goto(c, "provider") \/ Goto(c, "store"), Quiet, lapsed' = lapsed,
             q.pc \notin Holding
      PROVE  StepOf(c)
  <2>1. PICK pc \in {"provider", "store"} : Goto(c, pc)
    BY <1>4
  <2>2. pc \in Pcs
    BY DEF Pcs
  <2>3. QED
    BY <1>2, <1>4, <2>1, <2>2, GotoMoves DEF Holding
<1>5. CASE Ask(c)
  <2>1. PICK force \in BOOLEAN :
          Become(c, [Blank EXCEPT !.pc = IF force THEN "provider" ELSE "lookup",
                                  !.force = force])
    BY <1>5 DEF Ask
  <2> DEFINE r == [Blank EXCEPT !.pc = IF force THEN "provider" ELSE "lookup",
                                !.force = force]
  <2>2. r \in Requests
    BY BlankType DEF Requests, Pcs
  <2>3. r.pc \in {"provider", "lookup"} /\ r.ds = {}
    BY DEF Blank
  <2>4. Become(c, r)
    BY <2>1
  <2> HIDE DEF r
  <2>5. QED
    BY <1>2, <1>5, <2>2, <2>3, <2>4 DEF Ask, At, Quiet, store, aux, Holding
<1>6. CASE Lookup(c)
  <2>1. PICK eligible \in SUBSET bucket :
          Become(c, [q EXCEPT !.pc = "probe", !.todo = eligible])
    BY <1>6 DEF Lookup
  <2> DEFINE r == [q EXCEPT !.pc = "probe", !.todo = eligible]
  <2>2. r \in Requests /\ r.pc = "probe" /\ r.ds = q.ds
    BY <1>1 DEF Requests, Pcs, Typed
  <2>3. Become(c, r)
    BY <2>1
  <2> HIDE DEF r
  <2>4. QED
    BY <1>2, <1>6, <2>2, <2>3 DEF Lookup, At, Quiet, store, aux, Holding
<1>7. CASE Probe(c)
  <2>1. Quiet /\ lapsed' = lapsed /\ q.pc = "probe"
    BY <1>7 DEF Probe, Quiet, store, aux, At
  <2>2. CASE Goto(c, "provider")
    BY <1>4, <2>1, <2>2 DEF Holding
  <2>3. CASE Become(c, [q EXCEPT !.pc = "acquire", !.job = "prune"])
    <3> DEFINE r == [q EXCEPT !.pc = "acquire", !.job = "prune"]
    <3>1. r \in Requests /\ r.pc = "acquire" /\ r.job = "prune" /\ r.ds = q.ds
      BY <1>1 DEF Requests, Pcs
    <3>2. Become(c, r)
      BY <2>3
    <3> HIDE DEF r
    <3>3. QED
      BY <1>2, <2>1, <3>1, <3>2 DEF Holding
  <2>4. ASSUME NEW d \in q.todo,
               Become(c, [q EXCEPT !.todo = @ \ {d}, !.keys = @ \cup {d.key}])
        PROVE  StepOf(c)
    <3> DEFINE r == [q EXCEPT !.todo = @ \ {d}, !.keys = @ \cup {d.key}]
    <3>1. d.key \in Keys
      BY <1>1 DEF Requests, Descriptors
    <3>2. r \in Requests /\ r.pc = "probe" /\ r.ds = q.ds
      BY <1>1, <2>1, <3>1 DEF Requests
    <3>3. Become(c, r)
      BY <2>4
    <3> HIDE DEF r
    <3>4. QED
      BY <1>2, <2>1, <3>2, <3>3 DEF Holding
  <2>5. ASSUME NEW d \in q.todo,
               Become(c, [q EXCEPT !.pc = "hit", !.todo = {d},
                                   !.nonce = values[d.key]])
        PROVE  StepOf(c)
    <3> DEFINE r == [q EXCEPT !.pc = "hit", !.todo = {d}, !.nonce = values[d.key]]
    <3>1. d \in Descriptors /\ d.key \in Keys
      BY <1>1 DEF Requests, Descriptors
    <3>2. r \in Requests /\ r.pc = "hit" /\ r.ds = q.ds
      BY <1>1, <3>1 DEF Requests, Pcs, Typed
    <3>3. Become(c, r)
      BY <2>5
    <3> HIDE DEF r
    <3>4. QED
      BY <1>2, <2>1, <3>2, <3>3 DEF Holding
  <2>6. QED
    BY <1>7, <2>2, <2>3, <2>4, <2>5 DEF Probe
<1>8. CASE Serve(c)
  <2>1. Quiet /\ lapsed' = lapsed /\ q.pc = "hit"
    BY <1>8 DEF Serve, Quiet, store, aux, At
  <2>2. CASE Become(c, [q EXCEPT !.pc = "probe", !.todo = {}, !.nonce = None])
    <3> DEFINE r == [q EXCEPT !.pc = "probe", !.todo = {}, !.nonce = None]
    <3>1. r \in Requests /\ r.pc = "probe" /\ r.ds = q.ds
      BY <1>1 DEF Requests, Pcs
    <3>2. Become(c, r)
      BY <2>2
    <3> HIDE DEF r
    <3>3. QED
      BY <1>2, <2>1, <3>1, <3>2 DEF Holding
  <2>3. QED
    BY <1>3, <1>8, <2>1, <2>2 DEF Serve, Holding
<1>9. CASE Provide(c)
  <2>1. Quiet /\ lapsed' = lapsed /\ q.pc \notin Holding
    BY <1>9 DEF Provide, At, Quiet, store, aux, Holding
  <2>2. QED
    BY <1>3, <1>4, <1>9, <2>1 DEF Provide
<1>10. CASE Store(c)
  <2>1. CASE Answer(c) /\ UNCHANGED last
    BY <1>3, <1>10, <2>1 DEF Store, At, Quiet, store, aux, Holding
  <2>2. ASSUME NEW key \in Keys, last # MaxStores, last' = last + 1,
               Become(c, [Blank EXCEPT !.pc = "acquire", !.key = key,
                                       !.nonce = last + 1])
        PROVE  StepOf(c)
    <3> DEFINE r == [Blank EXCEPT !.pc = "acquire", !.key = key, !.nonce = last + 1]
    <3>1. last \in Nat /\ last + 1 \in Nonces
      BY <2>2, CacheAssumption DEF Typed, Nonces, None, CacheAssumption
    <3>2. r \in Requests
      BY <3>1, BlankType DEF Requests, Pcs
    <3>3. r.pc = "acquire" /\ r.nonce = last + 1 /\ r.ds = {}
      BY DEF Blank
    <3>4. Become(c, r)
      BY <2>2
    <3> HIDE DEF r
    <3>5. /\ UNCHANGED <<lease, store, aux>> /\ q.pc = "store"
      BY <1>10 DEF Store, At
    <3>6. requests'[c] = r /\ Alone(c)
      BY <3>2, <3>4, <3>5, BecomeFacts DEF Alone, aux
    <3>7. Starts(c)
      BY <2>2, <3>1, <3>3, <3>5, <3>6 DEF Starts, To, Holding, aux
    <3>8. QED
      BY <3>6, <3>7 DEF StepOf
  <2>3. QED
    BY <1>10, <2>1, <2>2 DEF Store
<1>11. QED
  BY <1>5, <1>6, <1>7, <1>8, <1>9, <1>10 DEF Serving

\* Changing the index.
LEMMA MutatingStep ==
  ASSUME Typed, NEW c \in Clients, Mutating(c), RecheckOf(c), WritesOf(c)
  PROVE  StepOf(c)
<1> DEFINE q == requests[c]
<1>1. q \in Requests
  BY DEF Typed
<1>2. CASE Acquire(c)
  <2>1. UNCHANGED <<store, last, aux>> /\ q.pc = "acquire"
    BY <1>2 DEF Acquire, At, aux, store
  <2>2. Alone(c) /\ Acquires(c)
    BY <1>2, <2>1, GotoStep DEF Acquire, Acquires, store, aux, From, Pcs
  <2>3. QED
    BY <2>2 DEF StepOf
<1>3. CASE GiveUp(c)
  <2>1. Quiet /\ lapsed' = lapsed /\ q.pc = "acquire"
    BY <1>3 DEF GiveUp, Quiet, store, aux, At
  <2>2. Alone(c) /\ Serves(c)
    BY <1>3, <2>1, AfterStep DEF GiveUp, Serves, Holding, Storing
  <2>3. QED
    BY <2>2 DEF StepOf
<1>4. CASE Read(c)
  <2>1. Quiet /\ lapsed' = lapsed /\ q.pc = "read" /\ bucket \in SUBSET Descriptors
    BY <1>4 DEF Read, Quiet, store, aux, At, Typed
  <2>2. ASSUME NEW r \in Requests, Become(c, r), r.pc \in {"recheck", "setBucket"},
               r.ds = bucket, r.key = q.key, r.nonce = q.nonce, r.job = q.job
        PROVE  StepOf(c)
    <3>1. requests'[c] = r /\ Alone(c)
      BY <2>1, <2>2, BecomeFacts DEF aux, Alone
    <3>2. QED
      BY <2>1, <2>2, <3>1 DEF StepOf, Reads, Keeps, From
  <2>3. CASE Become(c, [q EXCEPT !.pc = "setBucket", !.ds = bucket])
    <3> DEFINE r == [q EXCEPT !.pc = "setBucket", !.ds = bucket]
    <3>1. /\ r \in Requests /\ r.pc = "setBucket" /\ r.ds = bucket
          /\ r.key = q.key /\ r.nonce = q.nonce /\ r.job = q.job
      BY <1>1, <2>1 DEF Requests, Pcs
    <3>2. Become(c, r)
      BY <2>3
    <3> HIDE DEF r
    <3>3. QED
      BY <2>2, <3>1, <3>2
  <2>4. CASE Become(c, [q EXCEPT !.pc = "recheck", !.ds = bucket,
                                 !.todo = {d \in bucket : d.key \in q.keys}])
    <3> DEFINE todo == {d \in bucket : d.key \in q.keys}
               r == [q EXCEPT !.pc = "recheck", !.ds = bucket, !.todo = todo]
    <3>1. todo \in SUBSET Descriptors
      BY <2>1
    <3>2. Become(c, r)
      BY <2>4
    <3> HIDE DEF todo
    <3>3. /\ r \in Requests /\ r.pc = "recheck" /\ r.ds = bucket
          /\ r.key = q.key /\ r.nonce = q.nonce /\ r.job = q.job
      BY <1>1, <2>1, <3>1 DEF Requests, Pcs
    <3> HIDE DEF r
    <3>4. QED
      BY <2>2, <3>2, <3>3
  <2>5. QED
    BY <1>4, <2>3, <2>4 DEF Read
<1>5. CASE Recheck(c)
  <2>1. Quiet /\ lapsed' = lapsed /\ q.pc = "recheck" /\ q.job = "prune"
    BY <1>5 DEF Recheck, Quiet, store, aux, At, RecheckOf
  <2>2. CASE Goto(c, "setBucket")
    <3>1. Alone(c) /\ Rechecks(c)
      BY <2>1, <2>2, GotoStep DEF Rechecks, From, To, Pcs
    <3>2. QED
      BY <3>1 DEF StepOf
  <2>3. ASSUME NEW d \in q.todo,
               Become(c, [q EXCEPT !.todo = @ \ {d},
                                   !.ds = IF Matches(d) THEN @ ELSE @ \ {d}])
        PROVE  StepOf(c)
    <3> DEFINE ds == IF Matches(d) THEN q.ds ELSE q.ds \ {d}
               todo == q.todo \ {d}
               r == [q EXCEPT !.todo = todo, !.ds = ds]
    <3>1. [q EXCEPT !.todo = @ \ {d}, !.ds = IF Matches(d) THEN @ ELSE @ \ {d}] = r
      BY <1>1 DEF Requests
    <3>2. ds \in SUBSET q.ds /\ \A e \in q.ds \ ds : ~Matches(e)
      OBVIOUS
    <3>3. todo \in SUBSET q.todo
      OBVIOUS
    <3> HIDE DEF ds, todo
    <3>4. /\ r \in Requests /\ r.pc = q.pc /\ r.ds = ds
          /\ r.key = q.key /\ r.nonce = q.nonce /\ r.job = q.job
      BY <1>1, <3>2, <3>3 DEF Requests
    <3>5. Become(c, r)
      BY <2>3, <3>1
    <3> HIDE DEF r
    <3>6. requests'[c] = r /\ Alone(c)
      BY <2>1, <3>4, <3>5, BecomeFacts DEF aux, Alone
    <3>7. Rechecks(c)
      BY <2>1, <3>2, <3>4, <3>6 DEF Rechecks, Keeps, From
    <3>8. QED
      BY <3>6, <3>7 DEF StepOf
  <2>4. QED
    BY <1>5, <2>2, <2>3 DEF Recheck
<1>6. CASE CheckOwner(c)
  <2>1. Quiet /\ lapsed' = lapsed /\ q.pc \in {"setBucket", "setValue"}
    BY <1>6 DEF CheckOwner, Quiet, store, aux
  <2>2. CASE lease = c /\ Become(c, [q EXCEPT !.checked = TRUE])
    <3> DEFINE r == [q EXCEPT !.checked = TRUE]
    <3>1. /\ r \in Requests /\ r.pc = q.pc /\ r.ds = q.ds /\ r.keys = q.keys
          /\ r.key = q.key /\ r.nonce = q.nonce /\ r.job = q.job
      BY <1>1 DEF Requests
    <3>2. Become(c, r)
      BY <2>2
    <3> HIDE DEF r
    <3>3. requests'[c] = r /\ Alone(c)
      BY <2>1, <3>1, <3>2, BecomeFacts DEF aux, Alone
    <3>4. QED
      BY <2>1, <3>1, <3>3 DEF StepOf, Checks, Keeps, To
  <2>3. CASE lease # c /\ Goto(c, "release")
    <3>1. Alone(c) /\ TurnedAway(c)
      BY <2>1, <2>3, GotoStep DEF TurnedAway, Pcs
    <3>2. QED
      BY <3>1 DEF StepOf
  <2>4. QED
    BY <1>6, <2>2, <2>3 DEF CheckOwner, Goto
<1>8. CASE SetBucket(c)
  <2>1. /\ UNCHANGED <<lease, values, last, aux>>
        /\ q.pc = "setBucket" /\ (~lapsed => lease = c)
    BY <1>8 DEF SetBucket, MayWrite, WritesOf, Writing, At, aux
  <2>2. CASE /\ q.job = "store"
             /\ bucket' = Newest(Retained(q))
             /\ Become(c, [q EXCEPT !.pc = "setValue", !.ds = {}, !.keys = Evicted(q),
                                    !.checked = FALSE])
    <3> DEFINE r == [q EXCEPT !.pc = "setValue", !.ds = {}, !.keys = Evicted(q),
                              !.checked = FALSE]
    <3>1. Evicted(q) \subseteq Keys
      <4>1. \A d \in Retained(q) : d.key \in Keys
        BY <1>1 DEF Retained, Own, Requests, Descriptors
      <4>2. QED
        BY <4>1 DEF Evicted, KeysOf
    <3>2. /\ r \in Requests /\ r.pc = "setValue" /\ r.ds = {} /\ r.keys = Evicted(q)
          /\ r.key = q.key /\ r.nonce = q.nonce /\ r.job = q.job
      BY <1>1, <3>1 DEF Requests, Pcs
    <3>3. Become(c, r)
      BY <2>2
    <3> HIDE DEF r
    <3>4. requests'[c] = r /\ Alone(c)
      BY <2>1, <3>2, <3>3, BecomeFacts DEF aux, Alone
    <3>5. Registers(c)
      BY <2>1, <2>2, <3>2, <3>4 DEF aux, Registers, Keeps, From, To
    <3>6. QED
      BY <3>4, <3>5 DEF StepOf
  <2>3. CASE q.job = "prune" /\ bucket' = q.ds /\ Goto(c, "release")
    <3>1. Alone(c) /\ Prunes(c)
      BY <2>1, <2>3, GotoStep DEF aux, Prunes, From, Pcs
    <3>2. QED
      BY <3>1 DEF StepOf
  <2>4. QED
    BY <1>8, <2>2, <2>3 DEF SetBucket
<1>9. CASE SetValue(c)
  <2>1. /\ UNCHANGED <<lease, bucket, last, aux>>
        /\ q.pc = "setValue" /\ (~lapsed => lease = c)
    BY <1>9 DEF SetValue, MayWrite, WritesOf, Writing, At, aux
  <2>2. Alone(c) /\ Puts(c)
    BY <1>9, <2>1, GotoStep DEF aux, SetValue, Puts, From, Pcs
  <2>3. QED
    BY <2>2 DEF StepOf
<1>10. CASE Delete(c)
  <2>1. /\ UNCHANGED <<lease, bucket, last, aux>> /\ q.pc = "delete"
    BY <1>10 DEF Delete, At
  <2>2. ASSUME NEW k \in q.keys, values' = [values EXCEPT ![k] = None],
               Become(c, [q EXCEPT !.keys = @ \ {k}])
        PROVE  StepOf(c)
    <3> DEFINE r == [q EXCEPT !.keys = @ \ {k}]
    <3>1. r \in Requests /\ r.pc = "delete" /\ r.ds = q.ds /\ r.keys = q.keys \ {k}
      BY <1>1, <2>1 DEF Requests
    <3>2. Become(c, r)
      BY <2>2
    <3> HIDE DEF r
    <3>3. requests'[c] = r /\ Alone(c)
      BY <2>1, <3>1, <3>2, BecomeFacts DEF aux, Alone
    <3>4. DeletesOne(c)
      BY <2>1, <2>2, <3>1, <3>3 DEF aux, DeletesOne, From, To
    <3>5. QED
      BY <3>3, <3>4 DEF StepOf
  <2>3. CASE q.keys = {} /\ Goto(c, "release") /\ UNCHANGED values
    <3>1. Alone(c) /\ HasDeleted(c)
      BY <2>1, <2>3, GotoStep DEF HasDeleted, Quiet, store, aux, From, Pcs
    <3>2. QED
      BY <3>1 DEF StepOf
  <2>4. QED
    BY <1>10, <2>2, <2>3 DEF Delete
<1>11. CASE Release(c)
  <2>1. Alone(c) /\ Releases(c)
    BY <1>11, AfterStep DEF Release, Releases, store, aux, From, At
  <2>2. QED
    BY <2>1 DEF StepOf
<1>12. QED
  BY <1>2, <1>3, <1>4, <1>5, <1>6, <1>8, <1>9, <1>10, <1>11 DEF Mutating

\* What fails ends the change.
LEMMA FaultStep ==
  ASSUME Typed, NEW c \in Clients, CommandFails(c) \/ LeaseFails(c) \/ Crash(c)
  PROVE  StepOf(c)
<1>1. UNCHANGED <<store, last, lapsed>> /\ disturbed'
  BY DEF CommandFails, LeaseFails, Crash
<1>2. lease' \in {lease, Free, Stray}
  BY DEF CommandFails, LeaseFails, Crash
<1>3. Answer(c) \/ AfterMutate(c) \/ Goto(c, "release")
  BY DEF CommandFails, LeaseFails, Crash
<1>4. /\ Alone(c) /\ requests'[c].pc \in {"release", "provider", "idle"}
      /\ requests'[c].ds \subseteq requests[c].ds
  BY <1>1, <1>3, AnswerStep, AfterStep, GotoStep DEF To, Pcs
<1>5. QED
  BY <1>1, <1>2, <1>4 DEF StepOf, Fails

\* A non-empty set of numbers has a least one.
LEMMA Least ==
  ASSUME NEW T \in SUBSET Nat, T # {} PROVE \E x \in T : \A y \in T : x <= y
<1>1. PICK x \in T : \A y \in T : <<y, x>> \notin OpToRel(<, Nat)
  BY NatLessThanWellFounded, WFMin, Zenon
<1>2. \A y \in T : ~(y < x)
  BY <1>1 DEF OpToRel
<1>3. QED
  BY <1>2

\* There are finitely many descriptors.
LEMMA DescriptorsFinite ==
  ASSUME NEW S \in SUBSET Descriptors PROVE IsFiniteSet(S)
<1> DEFINE f == [p \in Keys \X Nonces |-> [key |-> p[1], nonce |-> p[2]]]
<1>1. IsFiniteSet(Keys) /\ IsFiniteSet(Nonces)
  BY CacheAssumption, FS_Interval DEF CacheAssumption, Nonces
<1>2. IsFiniteSet(Keys \X Nonces)
  BY <1>1, FS_Product
<1>3. f \in Surjection(Keys \X Nonces, Descriptors)
  <2>1. f \in [Keys \X Nonces -> Descriptors]
    BY DEF Descriptors
  <2>2. ASSUME NEW d \in Descriptors PROVE \E p \in Keys \X Nonces : f[p] = d
    <3>1. <<d.key, d.nonce>> \in Keys \X Nonces /\ d = [key |-> d.key, nonce |-> d.nonce]
      BY DEF Descriptors
    <3>2. f[<<d.key, d.nonce>>] = d
      BY <3>1
    <3>3. QED
      BY <3>1, <3>2
  <2>3. QED
    BY <2>1, <2>2 DEF Surjection
<1> HIDE DEF f
<1>4. IsFiniteSet(Descriptors)
  BY <1>2, <1>3, FS_Surjection
<1>5. QED
  BY <1>4, FS_Subset

\* The descriptors of S that are younger than d.
Younger(S, d) == {e \in S : e.nonce > d.nonce}

\* The newest descriptors are not too many ...
LEMMA NewestFits ==
  ASSUME NEW S \in SUBSET Descriptors,
         \A d, e \in S : d.nonce = e.nonce => d = e
  PROVE  Cardinality(Newest(S)) <= Capacity
<1> DEFINE N == Newest(S)
<1>1. N \in SUBSET S /\ IsFiniteSet(N) /\ Capacity \in Nat \ {0}
  BY DescriptorsFinite, CacheAssumption DEF Newest, CacheAssumption
<1>2. CASE N = {}
  BY <1>1, <1>2, FS_EmptySet
<1>3. CASE N # {}
  <2>1. \A d \in S : d.nonce \in Nat
    BY DEF Descriptors, Nonces
  <2>2. PICK d \in N : \A e \in N : d.nonce <= e.nonce
    <3> DEFINE T == {e.nonce : e \in N}
    <3>1. T \in SUBSET Nat /\ T # {}
      BY <1>1, <1>3, <2>1
    <3>2. PICK x \in T : \A y \in T : x <= y
      BY <3>1, Least
    <3>3. QED
      BY <3>2
  <2>3. Cardinality(Younger(S, d)) < Capacity
    BY <2>2 DEF Newest, Younger
  <2>4. N \ {d} \in SUBSET Younger(S, d)
    BY <1>1, <2>1, <2>2 DEF Younger
  <2>5. IsFiniteSet(Younger(S, d))
    BY DescriptorsFinite DEF Younger
  <2>6. Cardinality(N \ {d}) <= Cardinality(Younger(S, d))
    BY <2>4, <2>5, FS_Subset
  <2>7. Cardinality(N \ {d}) = Cardinality(N) - 1
    BY <1>1, <2>2, FS_RemoveElement
  <2>8. Cardinality(N) \in Nat /\ Cardinality(Younger(S, d)) \in Nat
    BY <1>1, <2>5, FS_CardinalityType
  <2>9. QED
    BY <1>1, <2>3, <2>6, <2>7, <2>8
<1>4. QED
  BY <1>2, <1>3

\* ... nor too few, and younger than whatever is left out.
LEMMA NewestFills ==
  ASSUME NEW S \in SUBSET Descriptors, NEW d \in S \ Newest(S)
  PROVE  /\ Cardinality(Newest(S)) >= Capacity
         /\ \A e \in Newest(S) : e.nonce > d.nonce
<1> DEFINE N == Newest(S)
           M == S \ N
<1>1. /\ N \in SUBSET S /\ IsFiniteSet(N) /\ Capacity \in Nat /\ MaxStores \in Nat
      /\ \A e \in S : e.nonce \in 1..MaxStores
  BY DescriptorsFinite, CacheAssumption DEF Newest, CacheAssumption, Descriptors, Nonces
<1>2. \A e \in S : IsFiniteSet(Younger(S, e)) /\ Cardinality(Younger(S, e)) \in Nat
  BY DescriptorsFinite, FS_CardinalityType DEF Younger
<1>3. \A e \in S : e \in N <=> Cardinality(Younger(S, e)) < Capacity
  BY DEF Newest, Younger
<1>4. Cardinality(N) \in Nat
  BY <1>1, FS_CardinalityType
<1> HIDE DEF N
<1>5. \A e \in N : e.nonce > d.nonce
  <2> SUFFICES ASSUME NEW e \in N, e.nonce <= d.nonce PROVE FALSE
    BY <1>1
  <2>1. Younger(S, d) \in SUBSET Younger(S, e)
    BY <1>1 DEF Younger
  <2>2. Cardinality(Younger(S, d)) <= Cardinality(Younger(S, e))
    BY <1>1, <1>2, <2>1, FS_Subset
  <2>3. e \in S /\ Cardinality(Younger(S, e)) < Capacity
    BY <1>1, <1>3
  <2>4. ~(Cardinality(Younger(S, d)) < Capacity)
    BY <1>3 DEF N
  <2>5. QED
    BY <1>1, <1>2, <2>2, <2>3, <2>4
<1>6. Cardinality(N) >= Capacity
  <2>1. PICK m \in M : \A e \in M : e.nonce <= m.nonce
    <3> DEFINE T == {MaxStores - e.nonce : e \in M}
    <3>1. T \in SUBSET Nat /\ T # {}
      BY <1>1 DEF N
    <3>2. PICK x \in T : \A y \in T : x <= y
      BY <3>1, Least
    <3>3. PICK m \in M : x = MaxStores - m.nonce
      BY <3>2
    <3>4. ASSUME NEW e \in M PROVE e.nonce <= m.nonce
      <4>1. MaxStores - m.nonce <= MaxStores - e.nonce
        BY <3>2, <3>3
      <4>2. QED
        BY <1>1, <4>1
    <3>5. QED
      BY <3>4
  <2>2. Younger(S, m) \in SUBSET N
    BY <1>1, <2>1 DEF Younger
  <2>3. Cardinality(Younger(S, m)) <= Cardinality(N)
    BY <1>1, <2>2, FS_Subset
  <2>4. ~(Cardinality(Younger(S, m)) < Capacity)
    BY <1>3
  <2>5. QED
    BY <1>1, <1>2, <1>4, <2>3, <2>4
<1>7. QED
  BY <1>5, <1>6 DEF N

\* Nobody but clients owns a lease.
LEMMA ClientsAssumption == Free \notin Clients /\ Stray \notin Clients
BY CacheAssumption DEF CacheAssumption

\* What a step knows of is known before.
LEMMA InUseKept ==
  ASSUME NEW c \in Clients, Alone(c),
         \A d \in bucket' : InUse(d), \A d \in requests'[c].ds : InUse(d),
         Storing(c)' => Storing(c) /\ Keeps(c)
  PROVE  \A d : InUse(d)' => InUse(d)
<1> SUFFICES ASSUME NEW d, InUse(d)' PROVE InUse(d)
  OBVIOUS
<1>1. CASE d \in bucket'
  BY <1>1
<1>2. CASE d \in requests'[c].ds
  BY <1>2
<1>3. CASE Storing(c)' /\ d = Own(requests[c])'
  BY <1>3 DEF InUse, Keeps, Own
<1>4. ASSUME NEW b \in Clients \ {c},
             d \in requests'[b].ds \/ (Storing(b)' /\ d = Own(requests[b])')
      PROVE  InUse(d)
  BY <1>4 DEF Alone, InUse, Storing, Own
<1>5. QED
  BY <1>1, <1>2, <1>3, <1>4 DEF InUse

\* Whoever registers a result has one.
LEMMA RetainedFacts ==
  ASSUME FullInv, NEW c \in Clients, From(c, "setBucket"), requests[c].job = "store"
  PROVE  /\ Retained(requests[c]) \in SUBSET Descriptors
         /\ \A d \in Retained(requests[c]) : InUse(d)
         /\ \A d, e \in Retained(requests[c]) : d.key = e.key => d = e
<1> DEFINE q == requests[c]
<1>1. q \in Requests /\ q.nonce \in Nonces
  BY DEF FullInv, IInv, Typed, Knows, NonceOf, From
<1>2. q.key \in Keys /\ q.ds \subseteq Descriptors
  BY <1>1 DEF Requests
<1>3. /\ Own(q) \in Descriptors /\ Own(q).key = q.key
  BY <1>1, <1>2 DEF Own, Descriptors
<1>4. \A d \in q.ds : InUse(d)
  BY DEF InUse
<1>5. InUse(Own(q))
  BY DEF InUse, Storing, From
<1>6. \A d, e \in q.ds : d.key = e.key => d = e
  BY DEF FullInv, IndexInv, Indices, Index
<1>7. QED
  BY <1>2, <1>3, <1>4, <1>5, <1>6 DEF Retained

\* What the new index holds was retained.
LEMMA NewestRetained == ASSUME NEW S PROVE Newest(S) \in SUBSET S
BY DEF Newest

\* Every result has a nonce of its own.
LEMMA OneEachStep ==
  ASSUME FullInv, NEW c \in Clients, StepOf(c) PROVE OneEach'
<1>1. /\ Alone(c) /\ OneEach /\ last \in Nat
      /\ \A d \in Descriptors : d.nonce \in Nat
  BY CacheAssumption
  DEF StepOf, FullInv, IndexInv, IInv, Typed, Descriptors, Nonces, None, CacheAssumption
<1>2. CASE Starts(c)
  <2>1. ASSUME NEW d, InUse(d)' PROVE InUse(d) \/ d = Own(requests'[c])
    <3>1. CASE d \in bucket' \/ d \in requests'[c].ds
      BY <1>2, <3>1 DEF Starts, store, InUse
    <3>2. CASE d = Own(requests[c])'
      BY <3>2 DEF Own
    <3>3. ASSUME NEW b \in Clients \ {c},
                 d \in requests'[b].ds \/ (Storing(b)' /\ d = Own(requests[b])')
          PROVE  InUse(d)
      BY <1>1, <3>3 DEF Alone, InUse, Storing, Own
    <3>4. QED
      BY <2>1, <3>1, <3>2, <3>3 DEF InUse
  <2>2. Own(requests'[c]).nonce = last + 1 /\ last' = last + 1
    BY <1>2 DEF Own, Starts
  <2>3. QED
    BY <1>1, <2>1, <2>2 DEF OneEach
<1>3. CASE ~Starts(c)
  <2>1. last' = last /\ (Storing(c)' => Storing(c) /\ Keeps(c))
    BY <1>3 DEF StepOf, Serves, Acquires, Reads, Rechecks, Checks, TurnedAway,
       Registers, Prunes, Puts, DeletesOne, HasDeleted, Releases, Fails, Storing, Quiet,
       From, To, Keeps
  <2>2. ~Registers(c) => bucket' \in {bucket, requests[c].ds}
    BY <1>3 DEF StepOf, Serves, Acquires, Reads, Rechecks, Checks, TurnedAway,
       Prunes, Puts, DeletesOne, HasDeleted, Releases, Fails, Quiet, store
  <2>3. requests'[c].ds \subseteq requests[c].ds \cup bucket
    BY <1>3 DEF StepOf, Serves, Acquires, Reads, Rechecks, Checks, TurnedAway,
       Registers, Prunes, Puts, DeletesOne, HasDeleted, Releases, Fails
  <2>4. \A d \in bucket' : InUse(d)
    <3>1. CASE Registers(c)
      BY <3>1, RetainedFacts, NewestRetained DEF Registers
    <3>2. CASE ~Registers(c)
      BY <2>2, <3>2 DEF InUse
    <3>3. QED
      BY <3>1, <3>2
  <2>5. \A d \in requests'[c].ds : InUse(d)
    BY <2>3 DEF InUse
  <2>6. \A d : InUse(d)' => InUse(d)
    BY <1>1, <2>1, <2>4, <2>5, InUseKept
  <2>7. QED
    BY <1>1, <2>1, <2>6 DEF OneEach
<1>4. QED
  BY <1>2, <1>3

\* Part of an index is one.
LEMMA IndexPart ==
  ASSUME NEW S \in SUBSET Descriptors, Index(S), NEW T \in SUBSET S PROVE Index(T)
<1>1. IsFiniteSet(S) /\ Cardinality(S) \in Nat /\ Capacity \in Nat
  BY DescriptorsFinite, FS_CardinalityType, CacheAssumption DEF CacheAssumption
<1>2. Cardinality(T) <= Cardinality(S) /\ Cardinality(T) \in Nat
  BY <1>1, FS_Subset, FS_CardinalityType
<1>3. QED
  BY <1>1, <1>2 DEF Index

\* What is registered, or read, is an index.
LEMMA IndicesStep ==
  ASSUME FullInv, NEW c \in Clients, StepOf(c) PROVE Indices'
<1> DEFINE q == requests[c]
<1>1. /\ Alone(c) /\ Indices /\ bucket \in SUBSET Descriptors
      /\ q.ds \in SUBSET Descriptors
  BY DEF StepOf, FullInv, IndexInv, IInv, Typed, Requests
<1>2. Index(bucket) /\ Index(q.ds)
  BY <1>1 DEF Indices
<1>3. Index({})
  BY <1>1, <1>2, IndexPart
<1>4. Index(bucket')
  <2>1. CASE Registers(c)
    <3> DEFINE R == Retained(q)
    <3>1. /\ R \in SUBSET Descriptors /\ \A d \in R : InUse(d)
          /\ \A d, e \in R : d.key = e.key => d = e
      BY <2>1, RetainedFacts DEF Registers
    <3> HIDE DEF R
    <3>2. \A d, e \in R : d.nonce = e.nonce => d = e
      BY <3>1 DEF FullInv, IndexInv, OneEach
    <3>3. Cardinality(Newest(R)) <= Capacity
      BY <3>1, <3>2, NewestFits
    <3>4. Index(Newest(R))
      BY <3>1, <3>3, NewestRetained DEF Index
    <3>5. QED
      BY <2>1, <3>4 DEF Registers, R
  <2>2. CASE ~Registers(c)
    <3>1. bucket' \in {bucket, q.ds}
      BY <2>2 DEF StepOf, Serves, Starts, Acquires, Reads, Rechecks, Checks, TurnedAway,
         Prunes, Puts, DeletesOne, HasDeleted, Releases, Fails, Quiet, store
    <3>2. QED
      BY <1>2, <3>1
  <2>3. QED
    BY <2>1, <2>2
<1>5. Index(requests'[c].ds)
  <2>1. requests'[c].ds = bucket \/ requests'[c].ds \in SUBSET q.ds
    BY DEF StepOf, Serves, Starts, Acquires, Reads, Rechecks, Checks, TurnedAway,
       Registers, Prunes, Puts, DeletesOne, HasDeleted, Releases, Fails
  <2>2. QED
    BY <1>1, <1>2, <2>1, IndexPart
<1>6. Indices' = (Index(bucket') /\ \A b \in Clients : Index(requests'[b].ds))
  BY DEF Indices, Index
<1>7. QED
  BY <1>1, <1>4, <1>5, <1>6 DEF Indices, Alone

\* While nothing has failed, nobody else's step touches index, values or lease
\* under the owner's hands.
LEMMA OwnerUndisturbed ==
  ASSUME FullInv, NEW c \in Clients, StepOf(c), ~disturbed',
         NEW b \in Clients \ {c}, lease = b
  PROVE  UNCHANGED <<lease, store>> /\ ~disturbed
<1>1. ~disturbed
  BY DEF StepOf, Serves, Starts, Acquires, Reads, Rechecks, Checks, TurnedAway,
     Registers, Prunes, Puts, DeletesOne, HasDeleted, Releases, Fails, Quiet
<1>2. requests[c].pc \notin Holding
  BY <1>1 DEF FullInv, IndexInv, HoldsOf
<1>3. Serves(c) \/ Starts(c) \/ Acquires(c)
  BY <1>2 DEF StepOf, Acquires, Reads, Rechecks, Checks, TurnedAway,
     Registers, Prunes, Puts, DeletesOne, HasDeleted, Releases, Fails, Holding, From
<1>4. ~Acquires(c)
  BY ClientsAssumption DEF Acquires
<1>5. QED
  BY <1>1, <1>3, <1>4 DEF Serves, Starts, Quiet

\* What a request has read of the index under its lease, others leave alone.
LEMMA HasReadOthers ==
  ASSUME FullInv, NEW c \in Clients, StepOf(c), NEW b \in Clients \ {c}
  PROVE  HasRead(b)'
<1> SUFFICES ASSUME Sole(b)', requests'[b].pc \in {"recheck", "setBucket"},
                    NEW d \in bucket' \ requests'[b].ds
             PROVE  ~Matches(d)' /\ requests'[b].job = "prune"
  BY DEF HasRead
<1>1. requests'[b] = requests[b] /\ lapsed' = lapsed
  BY DEF StepOf, Alone
<1>2. lease = b /\ lease # c /\ ~lapsed
  BY <1>1, ClientsAssumption
  DEF StepOf, Serves, Starts, Acquires, Reads, Rechecks, Checks, TurnedAway,
     Registers, Prunes, Puts, DeletesOne, HasDeleted, Releases, Fails, Quiet, Sole
<1>4. ~Registers(c) /\ ~Prunes(c) /\ ~Puts(c)
  BY <1>2 DEF Registers, Prunes, Puts
<1>5. bucket' = bucket
  BY <1>4
  DEF StepOf, Serves, Starts, Acquires, Reads, Rechecks, Checks, TurnedAway,
     DeletesOne, HasDeleted, Releases, Fails, Quiet, store
<1>6. ~Matches(d) /\ requests[b].job = "prune"
  BY <1>1, <1>2, <1>5 DEF FullInv, IndexInv, HasRead, Sole
<1>7. d.key \in Keys /\ d.nonce # None /\ values \in [Keys -> Nonces \cup {None}]
  BY <1>5 DEF FullInv, IInv, Typed, Descriptors, Nonces, None
<1>8. values'[d.key] \in {values[d.key], None}
  <2>1. CASE DeletesOne(c)
    BY <1>7, <2>1 DEF DeletesOne
  <2>2. CASE ~DeletesOne(c)
    BY <1>4, <2>2
    DEF StepOf, Serves, Starts, Acquires, Reads, Rechecks, Checks, TurnedAway,
       HasDeleted, Releases, Fails, Quiet, store
  <2>3. QED
    BY <2>1, <2>2
<1>9. QED
  BY <1>1, <1>6, <1>7, <1>8 DEF Matches

\* What the owner has read of the index is all of it, except for what it
\* found to be without its value.
LEMMA HasReadStep ==
  ASSUME FullInv, NEW c \in Clients, StepOf(c) PROVE \A b \in Clients : HasRead(b)'
<1>1. HasRead(c)'
  <2>1. SUFFICES ASSUME Sole(c)', requests'[c].pc \in {"recheck", "setBucket"}
        PROVE  \A d \in bucket' \ requests'[c].ds :
                 ~Matches(d)' /\ requests'[c].job = "prune"
    BY DEF HasRead
  <2>2. Reads(c) \/ Rechecks(c) \/ Checks(c)
    BY <2>1
    DEF StepOf, Serves, Starts, Acquires, TurnedAway,
       Registers, Prunes, Puts, DeletesOne, HasDeleted, Releases, Fails, To, Holding
  <2>3. Quiet /\ lapsed' = lapsed /\ requests'[c].job = requests[c].job
    BY <2>2 DEF StepOf, Alone, Reads, Rechecks, Checks, Keeps
  <2>4. Sole(c)
    BY <2>1, <2>3 DEF Sole, Quiet
  <2>5. CASE Reads(c)
    BY <2>3, <2>5 DEF Reads, Quiet, store
  <2>6. CASE Rechecks(c) \/ Checks(c)
    <3>1. requests[c].pc \in {"recheck", "setBucket"}
      BY <2>1, <2>6 DEF Rechecks, Checks, From, To
    <3>2. \A d \in bucket \ requests[c].ds : ~Matches(d) /\ requests[c].job = "prune"
      BY <2>4, <3>1 DEF FullInv, IndexInv, HasRead
    <3>3. \A d \in bucket \ requests'[c].ds : ~Matches(d) /\ requests[c].job = "prune"
      BY <2>6, <3>2 DEF Rechecks, Checks
    <3>4. QED
      BY <2>3, <3>3 DEF Quiet, store, Matches
  <2>7. QED
    BY <2>2, <2>5, <2>6
<1>2. QED
  BY <1>1, HasReadOthers

\* While nothing has failed, who is within a change owns the lease, and has
\* read from the index what it writes back.
LEMMA HoldsStep ==
  ASSUME FullInv, NEW c \in Clients, StepOf(c) PROVE \A b \in Clients : HoldsOf(b)'
<1> SUFFICES ASSUME ~disturbed', NEW b \in Clients PROVE HoldsOf(b)'
  BY DEF HoldsOf
<1>1. ~disturbed /\ ~Fails(c) /\ Alone(c)
  BY DEF StepOf, Serves, Starts, Acquires, Reads, Rechecks, Checks, TurnedAway,
     Registers, Prunes, Puts, DeletesOne, HasDeleted, Releases, Fails, Quiet
<1>2. /\ HoldsOf(b) /\ HoldsOf(c) /\ lease # Stray
      /\ \A a \in Clients : lease = a <=> requests[a].pc \in Holding
  BY <1>1 DEF FullInv, IndexInv, HoldsOf, Settled
<1>3. CASE b # c
  <2>1. requests'[b] = requests[b]
    BY <1>1, <1>3 DEF Alone
  <2>2. CASE lease = b
    <3>1. UNCHANGED <<lease, store>>
      BY <1>3, <2>2, OwnerUndisturbed
    <3>2. QED
      BY <1>1, <1>2, <2>1, <3>1 DEF HoldsOf, Own, store
  <2>3. CASE lease # b
    <3>1. lease' # b
      BY <1>1, <1>3, <2>3, ClientsAssumption
      DEF StepOf, Serves, Starts, Acquires, Reads, Rechecks, Checks, TurnedAway,
         Registers, Prunes, Puts, DeletesOne, HasDeleted, Releases, Quiet
    <3>2. requests'[b].pc \notin Holding
      BY <1>2, <2>1, <2>3
    <3>3. QED
      BY <3>1, <3>2 DEF HoldsOf, Holding
  <2>4. QED
    BY <2>2, <2>3
<1>4. CASE b = c
  <2> DEFINE q == requests[c]
             r == requests'[c]
  <2>1. CASE Serves(c) \/ Starts(c)
    <3>1. lease' = lease /\ q.pc \notin Holding /\ r.pc \notin Holding
      BY <2>1 DEF Serves, Starts, Quiet, To, Holding
    <3>2. QED
      BY <1>2, <1>4, <3>1 DEF HoldsOf, Holding
  <2>2. CASE Acquires(c)
    BY <1>4, <2>2 DEF Acquires, To, HoldsOf, Holding
  <2>3. CASE Releases(c)
    BY <1>2, <1>4, <2>3, ClientsAssumption DEF Releases, From, HoldsOf, Holding
  <2>4. CASE Reads(c) \/ Rechecks(c) \/ Checks(c)
    <3>1. /\ UNCHANGED <<lease, store>> /\ q.pc \in Holding /\ r.pc \in Holding
          /\ Keeps(c)
      BY <2>4 DEF Reads, Rechecks, Checks, Quiet, From, To, Holding
    <3>2. r.pc \in {"recheck", "setBucket"} => r.ds \subseteq bucket'
      BY <1>1, <1>4, <1>2, <2>4, <3>1
      DEF Reads, Rechecks, Checks, HoldsOf, store, From, To
    <3>3. r.pc = "setValue" => q.pc = "setValue" /\ r.keys = q.keys
      BY <2>4 DEF Reads, Rechecks, Checks, To
    <3>4. r.pc = "setValue" => Own(r) \in bucket' \/ r.key \in r.keys
      BY <1>1, <1>2, <1>4, <3>1, <3>3 DEF HoldsOf, Keeps, Own, store
    <3>5. QED
      BY <1>2, <1>4, <3>1, <3>2, <3>4 DEF HoldsOf
  <2>5. CASE Registers(c)
    <3>1. /\ lease' = lease /\ q.pc \in Holding /\ r.pc = "setValue" /\ Keeps(c)
          /\ bucket' = Newest(Retained(q)) /\ r.keys = Evicted(q)
      BY <2>5 DEF Registers, From, To, Holding
    <3>2. Own(r) = Own(q) /\ Own(q) \in Retained(q) /\ Own(q).key = q.key
      BY <3>1 DEF Own, Keeps, Retained
    <3>3. q.key \in KeysOf(Retained(q))
      BY <3>2 DEF KeysOf
    <3>4. ASSUME q.key \in KeysOf(Newest(Retained(q))) PROVE Own(q) \in bucket'
      <4>1. PICK d \in Newest(Retained(q)) : d.key = q.key
        BY <3>4 DEF KeysOf
      <4>2. d \in Retained(q)
        BY <4>1, NewestRetained
      <4>3. d = Own(q)
        BY <3>2, <4>1, <4>2 DEF Retained
      <4>4. QED
        BY <3>1, <4>1, <4>3
    <3>5. Own(r) \in bucket' \/ r.key \in r.keys
      BY <3>1, <3>2, <3>3, <3>4 DEF Evicted, Keeps
    <3>6. QED
      BY <1>2, <1>4, <3>1, <3>5 DEF HoldsOf, Holding
  <2>6. CASE Prunes(c) \/ Puts(c) \/ DeletesOne(c) \/ HasDeleted(c)
    <3>1. /\ lease' = lease /\ q.pc \in Holding
          /\ r.pc \in {"release", "delete"}
      BY <2>6 DEF Prunes, Puts, DeletesOne, HasDeleted, From, To, Holding, Quiet
    <3>2. QED
      BY <1>2, <1>4, <3>1 DEF HoldsOf, Holding
  <2>7. ~TurnedAway(c)
    BY <1>2 DEF TurnedAway, Holding
  <2>8. QED
    BY <1>1, <2>1, <2>2, <2>3, <2>4, <2>5, <2>6, <2>7 DEF StepOf
<1>5. QED
  BY <1>3, <1>4

\* While nothing has failed, what is not in the index is the owner's to index
\* or to delete, and the owner is within its change.
LEMMA IndexStep ==
  ASSUME FullInv, NEW c \in Clients, StepOf(c) PROVE Settled'
<1> SUFFICES ASSUME ~disturbed' PROVE lease' # Stray /\ \A k \in Keys : Seen(k)'
  BY DEF Settled
<1> DEFINE q == requests[c]
           r == requests'[c]
<1>1. ~disturbed /\ ~Fails(c) /\ Alone(c)
  BY DEF StepOf, Serves, Starts, Acquires, Reads, Rechecks, Checks, TurnedAway,
     Registers, Prunes, Puts, DeletesOne, HasDeleted, Releases, Fails, Quiet
<1>2. /\ \A a \in Clients : lease = a <=> requests[a].pc \in Holding
      /\ lease # Stray /\ \A k \in Keys : Seen(k)
  BY <1>1 DEF FullInv, IndexInv, HoldsOf, Settled
<1>3. lease' # Stray
  BY <1>1, <1>2, ClientsAssumption
  DEF StepOf, Serves, Starts, Acquires, Reads, Rechecks, Checks, TurnedAway,
     Registers, Prunes, Puts, DeletesOne, HasDeleted, Releases, Quiet, Free, Stray
<1>4. SUFFICES ASSUME NEW k \in Keys PROVE Seen(k)'
  BY <1>3
<1>5. values \in [Keys -> Nonces \cup {None}] /\ q \in Requests
  BY DEF FullInv, IInv, Typed
<1>6. ASSUME UNCHANGED store, Indexed(k) PROVE Seen(k)'
  BY <1>6 DEF Seen, Indexed, store
<1>7. CASE UNCHANGED <<lease, store>> /\ ~Indexed(k) /\ lease # c
  <2>1. PICK a \in Clients : Owes(a, k)
    BY <1>2, <1>7 DEF Seen
  <2>2. a # c /\ requests'[a] = requests[a]
    BY <1>1, <1>7, <2>1 DEF Owes, Alone
  <2>3. QED
    BY <1>7, <2>1, <2>2 DEF Seen, Owes
<1>8. ASSUME ~Indexed(k), lease = c PROVE Owes(c, k)
  BY <1>2, <1>8 DEF Seen, Owes
<1>9. CASE Serves(c) \/ Starts(c)
  <2>1. UNCHANGED <<lease, store>> /\ lease # c
    BY <1>2, <1>9 DEF Serves, Starts, Quiet
  <2>2. QED
    BY <1>6, <1>7, <2>1
<1>10. CASE Acquires(c)
  <2>1. UNCHANGED store /\ Indexed(k)
    BY <1>2, <1>10, ClientsAssumption DEF Acquires, Seen, Owes
  <2>2. QED
    BY <1>6, <2>1
<1>11. CASE Reads(c) \/ Rechecks(c) \/ Checks(c)
  <2>1. /\ UNCHANGED <<lease, store>> /\ lease = c /\ Keeps(c)
    BY <1>2, <1>11 DEF Reads, Rechecks, Checks, Quiet, From, Holding
  <2>2. CASE ~Indexed(k)
    <3>1. Owes(c, k)
      BY <1>8, <2>1, <2>2
    <3>2. q.pc \in {"setValue", "delete"}
      BY <3>1 DEF Owes
    <3>3. Checks(c) /\ r.keys = q.keys /\ r.pc = q.pc
      BY <1>11, <3>2 DEF Reads, Rechecks, Checks, From, To
    <3>4. QED
      BY <2>1, <3>1, <3>3 DEF Seen, Owes, Keeps
  <2>3. QED
    BY <1>6, <2>1, <2>2
<1>12. CASE Registers(c)
  <2>1. /\ lease = c /\ lease' = lease /\ values' = values /\ q.pc = "setBucket"
        /\ r.pc = "setValue" /\ Keeps(c) /\ q.job = "store"
        /\ bucket' = Newest(Retained(q)) /\ r.keys = Evicted(q)
    BY <1>2, <1>12 DEF Registers, From, To, Holding
  <2>2. Indexed(k)
    BY <1>8, <2>1 DEF Owes
  <2>3. CASE k = q.key
    BY <2>1, <2>3 DEF Seen, Owes, Keeps
  <2>4. CASE values[k] = None
    BY <2>1, <2>4 DEF Seen, Indexed
  <2>5. CASE k # q.key /\ values[k] # None
    <3> DEFINE d == [key |-> k, nonce |-> values[k]]
    <3>1. d \in bucket
      BY <2>2, <2>5 DEF Indexed
    <3>2. Matches(d) /\ d.key = k
      BY DEF Matches
    <3> HIDE DEF d
    <3>3. HasRead(c) /\ Sole(c)
      BY <1>1, <2>1 DEF FullInv, IndexInv, IInv, Typed, Sole
    <3>4. d \in q.ds
      BY <2>1, <3>1, <3>2, <3>3 DEF HasRead
    <3>5. d \in Retained(q) /\ k \in KeysOf(Retained(q))
      BY <2>5, <3>2, <3>4 DEF Retained, KeysOf
    <3>6. CASE k \in KeysOf(Newest(Retained(q)))
      <4>1. PICK e \in Newest(Retained(q)) : e.key = k
        BY <3>6 DEF KeysOf
      <4>2. e = d
        BY <2>1, <3>2, <3>5, <4>1, NewestRetained, RetainedFacts DEF From
      <4>3. QED
        BY <2>1, <4>1, <4>2 DEF Seen, Indexed, d
    <3>7. CASE k \notin KeysOf(Newest(Retained(q)))
      <4>1. k \in r.keys
        BY <2>1, <3>5, <3>7 DEF Evicted
      <4>2. QED
        BY <2>1, <4>1 DEF Seen, Owes
    <3>8. QED
      BY <3>6, <3>7
  <2>6. QED
    BY <2>3, <2>4, <2>5
<1>13. CASE Prunes(c)
  <2>1. /\ lease = c /\ lease' = lease /\ values' = values /\ q.pc = "setBucket"
        /\ bucket' = q.ds
    BY <1>2, <1>13 DEF Prunes, From, Holding
  <2>2. Indexed(k)
    BY <1>8, <2>1 DEF Owes
  <2>3. CASE values[k] # None
    <3> DEFINE d == [key |-> k, nonce |-> values[k]]
    <3>1. d \in bucket /\ Matches(d)
      BY <2>2, <2>3 DEF Indexed, Matches
    <3>2. HasRead(c) /\ Sole(c)
      BY <1>1, <2>1 DEF FullInv, IndexInv, IInv, Typed, Sole
    <3>3. d \in q.ds
      BY <2>1, <3>1, <3>2 DEF HasRead
    <3>4. QED
      BY <2>1, <3>3 DEF Seen, Indexed
  <2>4. QED
    BY <2>1, <2>3 DEF Seen, Indexed
<1>14. CASE Puts(c)
  <2>1. /\ lease = c /\ lease' = lease /\ bucket' = bucket /\ q.pc = "setValue"
        /\ r.pc = "delete" /\ r.keys = q.keys
        /\ values' = [values EXCEPT ![q.key] = q.nonce]
    BY <1>2, <1>14 DEF Puts, From, To, Holding
  <2>2. CASE k = q.key
    <3>1. Own(q) \in bucket \/ q.key \in q.keys
      BY <1>1, <2>1 DEF FullInv, IndexInv, HoldsOf
    <3>2. values'[k] = q.nonce
      BY <1>5, <2>1, <2>2
    <3>3. QED
      BY <2>1, <2>2, <3>1, <3>2 DEF Seen, Indexed, Owes, Own
  <2>3. CASE k # q.key
    <3>1. values'[k] = values[k]
      BY <1>5, <2>1, <2>3
    <3>2. CASE ~Indexed(k)
      <4>1. k \in q.keys
        BY <1>8, <2>1, <2>3, <3>2 DEF Owes
      <4>2. QED
        BY <2>1, <4>1 DEF Seen, Owes
    <3>3. QED
      BY <2>1, <3>1, <3>2 DEF Seen, Indexed
  <2>4. QED
    BY <2>2, <2>3
<1>15. CASE DeletesOne(c)
  <2>1. PICK j \in q.keys : /\ values' = [values EXCEPT ![j] = None]
                            /\ r.keys = q.keys \ {j}
    BY <1>15 DEF DeletesOne
  <2>2. /\ lease = c /\ lease' = lease /\ bucket' = bucket /\ q.pc = "delete"
        /\ r.pc = "delete"
    BY <1>2, <1>15 DEF DeletesOne, From, To, Holding
  <2>3. CASE k = j
    BY <1>5, <2>1, <2>3 DEF Seen, Indexed
  <2>4. CASE k # j
    <3>1. values'[k] = values[k]
      BY <1>5, <2>1, <2>4
    <3>2. CASE ~Indexed(k)
      <4>1. k \in r.keys
        BY <1>8, <2>1, <2>2, <2>4, <3>2 DEF Owes
      <4>2. QED
        BY <2>2, <4>1 DEF Seen, Owes
    <3>3. QED
      BY <2>2, <3>1, <3>2 DEF Seen, Indexed
  <2>5. QED
    BY <2>3, <2>4
<1>16. CASE HasDeleted(c) \/ Releases(c)
  <2>1. /\ UNCHANGED store /\ lease = c
        /\ q.pc = "release" \/ (q.pc = "delete" /\ q.keys = {})
    BY <1>2, <1>16 DEF HasDeleted, Releases, Quiet, From, Holding
  <2>2. Indexed(k)
    BY <1>8, <2>1 DEF Owes
  <2>3. QED
    BY <1>6, <2>1, <2>2
<1>17. ~TurnedAway(c)
  BY <1>2 DEF TurnedAway, Holding
<1>18. QED
  BY <1>1, <1>9, <1>10, <1>11, <1>12, <1>13, <1>14, <1>15, <1>16, <1>17 DEF StepOf

\* What the lease, or the cache, loses by itself was disturbed before it was
\* relied on.
LEMMA LossStep ==
  ASSUME FullInv, Expire \/ DropBucket \/ \E k \in Keys : DropValue(k) PROVE IndexInv'
<1>1. /\ (lapsed' = lapsed \/ lapsed') /\ lease' \in {lease, Free} /\ bucket' \in {bucket, {}}
      /\ requests' = requests /\ last' = last /\ disturbed'
  BY DEF Expire, DropBucket, DropValue, store, FullInv, IInv, Typed
<1>2. \A k \in Keys : values'[k] \in {values[k], None}
  BY DEF Expire, DropBucket, DropValue, store, FullInv, IInv, Typed
<1>3. OneEach'
  <2>1. \A d : InUse(d)' => InUse(d)
    BY <1>1 DEF InUse, Storing, Own
  <2>2. QED
    BY <1>1, <2>1 DEF FullInv, IndexInv, OneEach
<1>4. Indices'
  <2>1. bucket \in SUBSET Descriptors /\ Index(bucket)
    BY DEF FullInv, IInv, Typed, IndexInv, Indices
  <2>2. Index(bucket')
    BY <1>1, <2>1, IndexPart
  <2>3. \A c \in Clients : Index(requests'[c].ds)
    BY <1>1 DEF FullInv, IndexInv, Indices
  <2>4. QED
    BY <2>2, <2>3 DEF Indices, Index
<1>5. ASSUME NEW c \in Clients PROVE HasRead(c)' /\ HoldsOf(c)'
  <2>1. HoldsOf(c)'
    BY <1>1 DEF HoldsOf
  <2>2. SUFFICES ASSUME Sole(c)', requests[c].pc \in {"recheck", "setBucket"},
                        NEW d \in bucket' \ requests[c].ds
                 PROVE  ~Matches(d)' /\ requests[c].job = "prune"
    BY <1>1, <2>1 DEF HasRead
  <2>3. Sole(c) /\ d \in bucket
    BY <1>1, <2>2, ClientsAssumption DEF Sole
  <2>4. ~Matches(d) /\ requests[c].job = "prune"
    BY <2>2, <2>3 DEF FullInv, IndexInv, HasRead
  <2>5. d.key \in Keys /\ d.nonce # None
    BY <2>3 DEF FullInv, IInv, Typed, Descriptors, Nonces, None
  <2>6. QED
    BY <1>2, <2>4, <2>5 DEF Matches
<1>6. Settled'
  BY <1>1 DEF Settled
<1>7. QED
  BY <1>3, <1>4, <1>5, <1>6 DEF IndexInv

\* Whatever a client does is one of these steps.
LEMMA ClientStep ==
  ASSUME FullInv, NEW c \in Clients,
         \/ Ask(c) \/ Serving(c) \/ Mutating(c)
         \/ CommandFails(c) \/ LeaseFails(c) \/ Crash(c)
  PROVE  StepOf(c)
BY ServingStep, MutatingStep, FaultStep DEF FullInv, IInv, Knows

\* FullInv is inductive, ...
LEMMA FullStep == FullInv /\ [Next]_vars => FullInv'
<1> SUFFICES ASSUME FullInv, [Next]_vars PROVE FullInv'
  OBVIOUS
<1>1. IInv'
  BY IInvStep DEF FullInv
<1>2. ASSUME NEW c \in Clients, StepOf(c) PROVE IndexInv'
  BY <1>2, OneEachStep, IndicesStep, HasReadStep, HoldsStep, IndexStep DEF IndexInv
<1>3. CASE UNCHANGED vars
  <2>1. \A d : InUse(d)' <=> InUse(d)
    BY <1>3 DEF vars, store, InUse, Storing, Own
  <2>2. OneEach' /\ Indices'
    BY <1>3, <2>1 DEF vars, store, FullInv, IndexInv, OneEach, Indices, Index
  <2>3. \A c \in Clients : HasRead(c)' /\ HoldsOf(c)'
    BY <1>3 DEF vars, store, FullInv, IndexInv, HasRead, HoldsOf, Sole, Matches, Own
  <2>4. Settled'
    BY <1>3 DEF vars, store, FullInv, IndexInv, Settled, Seen, Indexed, Owes
  <2>5. QED
    BY <1>1, <2>2, <2>3, <2>4 DEF FullInv, IndexInv
<1>4. CASE Expire \/ DropBucket \/ \E k \in Keys : DropValue(k)
  BY <1>1, <1>4, LossStep DEF FullInv
<1>5. QED
  BY <1>1, <1>2, <1>3, <1>4, ClientStep DEF FullInv, Next

\* ... and true of an empty cache.
LEMMA FullInit == Init => FullInv
<1> SUFFICES ASSUME Init PROVE FullInv
  OBVIOUS
<1>1. /\ IInv /\ bucket = {} /\ values = [k \in Keys |-> None]
      /\ lease = Free /\ ~disturbed
      /\ \A c \in Clients : requests[c] = Blank
  BY InitIInv DEF Init
<1>2. \A d : ~InUse(d)
  BY <1>1, BlankFields DEF InUse, Storing
<1>3. Cardinality({}) <= Capacity
  BY FS_EmptySet, CacheAssumption DEF CacheAssumption
<1>4. Indices
  BY <1>1, <1>3, BlankFields DEF Indices, Index
<1>5. \A c \in Clients : HasRead(c) /\ HoldsOf(c)
  BY <1>1, BlankFields, ClientsAssumption DEF HasRead, HoldsOf, Holding
<1>6. Settled
  BY <1>1 DEF Settled, Seen, Indexed, Free, Stray
<1>7. QED
  BY <1>1, <1>2, <1>4, <1>5, <1>6 DEF FullInv, IndexInv, OneEach

----------------------------------------------------------------------------
\* For any capacity the bucket never holds more descriptors than that, and
\* every request, lease and value stays of its type.
THEOREM TypeCorrect == Spec => []TypeOK
<1>1. FullInv => TypeOK
  BY DEF FullInv, IInv, Typed, IndexInv, Indices, Index, TypeOK
<1>2. QED
  BY <1>1, FullInit, FullStep, PTL DEF Spec

\* Whatever is evicted from the index is deleted from the values as well: a
\* stored result that nobody finds again remains only where something failed.
THEOREM NothingIsOrphaned == Spec => []NoOrphans
<1>1. FullInv => NoOrphans
  <2>1. SUFFICES ASSUME FullInv, ~disturbed, lease = Free,
                        NEW k \in Keys, values[k] # None
                 PROVE  k \in KeysOf(bucket)
    BY DEF NoOrphans
  <2>2. Indexed(k)
    BY <2>1, ClientsAssumption DEF FullInv, IndexInv, Settled, Seen, Owes
  <2>3. QED
    BY <2>1, <2>2 DEF Indexed, KeysOf
<1>2. QED
  BY <1>1, FullInit, FullStep, PTL DEF Spec

----------------------------------------------------------------------------
(***************************************************************************)
(* What the index lists.  While nothing has failed every descriptor serves *)
(* its value, or the owner is about to store that; and no value that the   *)
(* owner is about to delete is listed.                                     *)
(***************************************************************************)
Pending(c, d) == lease = c /\ From(c, "setValue") /\ d = Own(requests[c])

ServesInv ==
  ~disturbed =>
    /\ \A d \in bucket : Matches(d) \/ \E c \in Clients : Pending(c, d)
    /\ \A c \in Clients : requests[c].pc \in {"setValue", "delete"} =>
         requests[c].keys \cap KeysOf(bucket) = {}

\* The owner's changes of bucket and values.
LEMMA OwnerServes ==
  ASSUME FullInv, ServesInv, ~disturbed, ~disturbed', NEW c \in Clients, StepOf(c),
         lease = c, NEW d \in bucket'
  PROVE  Matches(d)' \/ Pending(c, d)'
<1> DEFINE q == requests[c]
           r == requests'[c]
<1>1. /\ Alone(c) /\ ~Fails(c) /\ q.pc \in Holding
      /\ values \in [Keys -> Nonces \cup {None}] /\ q \in Requests
      /\ bucket \subseteq Descriptors
  BY DEF StepOf, Fails, FullInv, IInv, Typed, IndexInv, HoldsOf
<1>2. ASSUME NEW e \in bucket, ~From(c, "setValue") PROVE Matches(e)
  BY <1>2 DEF ServesInv, Pending
<1>3. CASE Registers(c)
  <2>1. /\ lease' = c /\ values' = values /\ From(c, "setBucket") /\ To(c, "setValue")
        /\ Keeps(c) /\ bucket' = Newest(Retained(q))
    BY <1>3 DEF Registers
  <2>2. CASE d = Own(q)
    BY <2>1, <2>2 DEF Pending, Own, Keeps, From, To
  <2>3. CASE d # Own(q)
    <3>1. d \in bucket
      BY <2>1, <2>3 DEF Newest, Retained, From, FullInv, IndexInv, HoldsOf
    <3>2. QED
      BY <1>2, <2>1, <3>1 DEF From, Matches
  <2>4. QED
    BY <2>2, <2>3
<1>4. CASE Prunes(c)
  <2>1. values' = values /\ From(c, "setBucket") /\ bucket' = q.ds
    BY <1>4 DEF Prunes
  <2>2. d \in bucket
    BY <2>1 DEF From, FullInv, IndexInv, HoldsOf
  <2>3. QED
    BY <1>2, <2>1, <2>2 DEF From, Matches
<1>5. CASE Puts(c)
  <2>1. /\ q.pc = "setValue" /\ d \in bucket
        /\ values' = [values EXCEPT ![q.key] = q.nonce]
    BY <1>5 DEF Puts, From
  <2>2. d.key \in Keys /\ q.key \in Keys
    BY <1>1, <2>1 DEF Descriptors, Requests
  <2>3. CASE d = Own(q)
    BY <1>1, <2>1, <2>2, <2>3 DEF Own, Matches
  <2>4. CASE d # Own(q)
    <3>1. d.key # q.key
      <4>1. CASE Own(q) \in bucket
        BY <2>1, <2>4, <4>1 DEF FullInv, IndexInv, Indices, Index, Own
      <4>2. CASE q.key \in q.keys
        BY <2>1, <4>2 DEF ServesInv, KeysOf
      <4>3. QED
        BY <2>1, <4>1, <4>2 DEF FullInv, IndexInv, HoldsOf
    <3>2. Matches(d)
      <4>1. \A b \in Clients : Pending(b, d) => b = c
        BY DEF Pending
      <4>2. QED
        BY <2>1, <2>4, <4>1 DEF ServesInv, Pending
    <3>3. QED
      BY <1>1, <2>1, <2>2, <3>1, <3>2 DEF Matches
  <2>5. QED
    BY <2>3, <2>4
<1>6. CASE DeletesOne(c)
  <2>1. PICK k \in q.keys : values' = [values EXCEPT ![k] = None]
    BY <1>6 DEF DeletesOne
  <2>2. q.pc = "delete" /\ d \in bucket
    BY <1>6 DEF DeletesOne, From
  <2>3. d.key # k /\ d.key \in Keys
    BY <1>1, <2>2 DEF ServesInv, KeysOf, Descriptors
  <2>4. QED
    BY <1>1, <1>2, <2>1, <2>2, <2>3 DEF From, Matches
<1>7. CASE Reads(c) \/ Rechecks(c) \/ HasDeleted(c) \/ Releases(c)
  <2>1. bucket' = bucket /\ values' = values /\ q.pc # "setValue"
    BY <1>7 DEF Reads, Rechecks, HasDeleted, Releases, Quiet, store, From
  <2>2. QED
    BY <1>2, <2>1 DEF From, Matches
<1>8. CASE Checks(c)
  <2>1. /\ UNCHANGED <<bucket, values, lease>> /\ Keeps(c)
        /\ requests'[c].pc = requests[c].pc
    BY <1>8 DEF Checks, Quiet, store, To
  <2>2. Own(q) = Own(r)
    BY <2>1 DEF Keeps, Own
  <2>3. CASE Pending(c, d)
    BY <2>1, <2>2, <2>3 DEF Pending, From, Own
  <2>4. CASE Matches(d)
    BY <2>1, <2>4 DEF Matches
  <2>5. QED
    BY <2>1, <2>3, <2>4 DEF ServesInv, Pending
<1>9. QED
  BY <1>1, <1>3, <1>4, <1>5, <1>6, <1>7, <1>8, ClientsAssumption
  DEF StepOf, Serves, Starts, Acquires, TurnedAway, From, Holding

\* What the owner is about to delete is not listed.
LEMMA OwnerSpares ==
  ASSUME FullInv, ServesInv, ~disturbed, ~disturbed', NEW c \in Clients, StepOf(c),
         requests'[c].pc \in {"setValue", "delete"}
  PROVE  requests'[c].keys \cap KeysOf(bucket') = {}
<1> DEFINE q == requests[c]
<1>1. CASE Registers(c)
  BY <1>1 DEF Registers, Evicted
<1>2. CASE Checks(c) \/ Puts(c)
  BY <1>2 DEF Checks, Puts, Quiet, store, From, To, ServesInv, KeysOf
<1>3. CASE DeletesOne(c)
  BY <1>3 DEF DeletesOne, From, ServesInv, KeysOf
<1>4. QED
  BY <1>1, <1>2, <1>3
  DEF StepOf, Serves, Starts, Acquires, Reads, Rechecks, TurnedAway, Prunes,
     HasDeleted, Releases, Fails, To, Holding

\* ServesInv is inductive, ...
LEMMA ServesStep ==
  ASSUME FullInv, ServesInv, NEW c \in Clients, StepOf(c) PROVE ServesInv'
<1> SUFFICES ASSUME ~disturbed' PROVE ServesInv'
  BY DEF ServesInv
<1>1. ~disturbed /\ Alone(c)
  BY DEF StepOf, Serves, Starts, Acquires, Reads, Rechecks, Checks, TurnedAway,
     Registers, Prunes, Puts, DeletesOne, HasDeleted, Releases, Fails, Quiet
<1>2. \A a \in Clients : lease = a <=> requests[a].pc \in Holding
  BY <1>1 DEF FullInv, IndexInv, HoldsOf
<1>3. CASE lease # c
  <2>1. bucket' = bucket /\ values' = values /\ requests[c].pc \notin Holding
    BY <1>2, <1>3
    DEF StepOf, Serves, Starts, Acquires, Reads, Rechecks, Checks, TurnedAway, Registers,
       Prunes, Puts, DeletesOne, HasDeleted, Releases, Fails, Quiet, store, From, Holding
  <2>2. ASSUME NEW d \in bucket'
        PROVE  Matches(d)' \/ \E b \in Clients : Pending(b, d)'
    <3>1. CASE Matches(d)
      BY <2>1, <3>1 DEF Matches
    <3>2. ASSUME NEW b \in Clients, Pending(b, d) PROVE Pending(b, d)'
      <4>1. b # c /\ lease = b
        BY <1>3, <3>2 DEF Pending
      <4>2. lease' = lease /\ requests'[b] = requests[b]
        BY <1>1, <4>1, OwnerUndisturbed DEF Alone
      <4>3. QED
        BY <3>2, <4>2 DEF Pending, From, Own
    <3>3. QED
      BY <1>1, <2>1, <2>2, <3>1, <3>2 DEF ServesInv
  <2>3. ASSUME NEW b \in Clients, requests'[b].pc \in {"setValue", "delete"}
        PROVE  requests'[b].keys \cap KeysOf(bucket') = {}
    <3>1. CASE b = c
      BY <1>1, <2>3, <3>1, OwnerSpares
    <3>2. CASE b # c
      BY <1>1, <2>1, <2>3, <3>2 DEF Alone, ServesInv
    <3>3. QED
      BY <3>1, <3>2
  <2>4. QED
    BY <2>2, <2>3 DEF ServesInv
<1>4. CASE lease = c
  <2>1. \A d \in bucket' : Matches(d)' \/ \E b \in Clients : Pending(b, d)'
    BY <1>1, <1>4, OwnerServes
  <2>2. ASSUME NEW b \in Clients, requests'[b].pc \in {"setValue", "delete"}
        PROVE  requests'[b].keys \cap KeysOf(bucket') = {}
    <3>1. b = c
      BY <1>1, <1>2, <1>4, <2>2 DEF Alone, Holding
    <3>2. QED
      BY <1>1, <2>2, <3>1, OwnerSpares
  <2>3. QED
    BY <2>1, <2>2 DEF ServesInv
<1>5. QED
  BY <1>3, <1>4

\* ... so that an undisturbed index lists only what is there: whatever order
\* results are registered in, and however few there is room for, the descriptor
\* of a value that was replaced or deleted goes with it.
THEOREM NothingDangles == Spec => []NoDangling
<1>1. Init => ServesInv
  BY BlankFields DEF Init, ServesInv
<1>2. FullInv /\ ServesInv /\ [Next]_vars => ServesInv'
  <2> SUFFICES ASSUME FullInv, ServesInv, [Next]_vars PROVE ServesInv'
    OBVIOUS
  <2>1. CASE UNCHANGED vars
    BY <2>1 DEF vars, ServesInv, Pending, From, Matches, Own, KeysOf
  <2>2. CASE Expire \/ DropBucket \/ \E k \in Keys : DropValue(k)
    BY <2>2 DEF Expire, DropBucket, DropValue, ServesInv
  <2>3. QED
    BY <2>1, <2>2, ClientStep, ServesStep DEF Next
<1>3. FullInv /\ ServesInv => NoDangling
  BY ClientsAssumption DEF ServesInv, Pending, NoDangling
<1>4. QED
  BY <1>1, <1>2, <1>3, FullInit, FullStep, PTL DEF Spec

\* A descriptor that a write of the bucket drops, and that still served its
\* value, was replaced by another of its key or is older than a full bucket.
LEMMA DroppedForRoom ==
  ASSUME FullInv, NEW c \in Clients, StepOf(c), ~lapsed, At(c, "setBucket"),
         NEW d \in bucket \ bucket', Matches(d)
  PROVE  /\ requests[c].job = "store"
         /\ \/ d.key = requests[c].key
            \/ /\ Cardinality(bucket') = Capacity
               /\ \A e \in bucket' : e.nonce > d.nonce
<1> DEFINE q == requests[c]
<1>1. Registers(c) \/ Prunes(c)
  BY DEF StepOf, Serves, Starts, Acquires, Reads, Rechecks, Checks, TurnedAway,
     Puts, DeletesOne, HasDeleted, Releases, Fails, Quiet, store
<1>2. lease = c /\ q.pc = "setBucket"
  BY <1>1 DEF Registers, Prunes, At
<1>3. d \in q.ds
  BY <1>2 DEF FullInv, IndexInv, HasRead, Sole
<1>4. ~Prunes(c)
  BY <1>3 DEF Prunes
<1>5. q.job = "store" /\ bucket' = Newest(Retained(q))
  BY <1>1, <1>4 DEF Registers
<1>6. CASE d.key # q.key
  <2>1. d \in Retained(q) \ Newest(Retained(q))
    BY <1>3, <1>5, <1>6 DEF Retained
  <2>2. Retained(q) \in SUBSET Descriptors
    BY <1>2, <1>5, RetainedFacts DEF From
  <2>3. Cardinality(bucket') >= Capacity /\ \A e \in bucket' : e.nonce > d.nonce
    BY <1>5, <2>1, <2>2, NewestFills
  <2>4. Cardinality(bucket') <= Capacity
    <3>1. Indices'
      BY IndicesStep
    <3>2. QED
      BY <3>1 DEF Indices, Index
  <2>5. Cardinality(bucket') \in Nat /\ Capacity \in Nat
    <3>1. bucket' \in SUBSET Descriptors
      BY <1>5, <2>2, NewestRetained
    <3>2. QED
      BY <3>1, DescriptorsFinite, FS_CardinalityType, CacheAssumption
      DEF CacheAssumption
  <2>6. QED
    BY <1>5, <2>3, <2>4, <2>5
<1>7. QED
  BY <1>5, <1>6

\* No write of the bucket loses a servable descriptor except to make room or
\* for another of its key, although leases expire under their owners: each
\* writer has renewed its lease, and none takes longer than that to write.
THEOREM ServableStays == Spec => ServableIsKept
<1>1. ASSUME FullInv, Next, ~lapsed, NEW c \in Clients, NEW d \in bucket \ bucket',
             requests[c] # requests'[c], At(c, "setBucket"), Matches(d)
      PROVE  /\ requests[c].job = "store"
             /\ \/ d.key = requests[c].key
                \/ /\ Cardinality(bucket') = Capacity
                   /\ \A e \in bucket' : e.nonce > d.nonce
  <2>1. requests' # requests
    BY <1>1
  <2>2. PICK b \in Clients : StepOf(b)
    BY <1>1, <2>1, ClientStep DEF Next, Expire, DropBucket, DropValue
  <2>3. b = c
    BY <1>1, <2>2 DEF StepOf, Alone
  <2>4. QED
    BY <1>1, <2>2, <2>3, DroppedForRoom
<1>2. FullInv /\ [Next]_vars =>
        [~lapsed => \A c \in Clients : \A d \in bucket \ bucket' :
           requests[c] # requests'[c] /\ At(c, "setBucket") /\ Matches(d) =>
             /\ requests[c].job = "store"
             /\ \/ d.key = requests[c].key
                \/ /\ Cardinality(bucket') = Capacity
                   /\ \A e \in bucket' : e.nonce > d.nonce]_vars
  BY <1>1
<1>3. QED
  BY <1>2, FullInit, FullStep, PTL DEF Spec, ServableIsKept
=============================================================================
