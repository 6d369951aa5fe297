------------------------ MODULE RedisClients_proofs -------------------------
(***************************************************************************)
(* The safety properties of RedisProxy, FeatureFlags and ResponseCache for *)
(* any faults, any length of the wire and any number of commands.          *)
(***************************************************************************)
EXTENDS RedisClients, TLAPS, SequenceTheorems

IsList(s) == Len(s) \in Nat /\ s = [i \in 1..Len(s) |-> s[i]]

\* A list of anything is a sequence over a set that holds its elements and more.
LEMMA ListIsSeq ==
  ASSUME NEW s, IsList(s), NEW e
  PROVE  s \in Seq({s[i] : i \in 1..Len(s)} \cup {e})
<1> DEFINE S == {s[i] : i \in 1..Len(s)} \cup {e}
<1>1. \A i \in 1..Len(s) : s[i] \in S
  OBVIOUS
<1>2. s \in [1..Len(s) -> S]
  BY <1>1 DEF IsList
<1> QED
  BY <1>2 DEF IsList

LEMMA SeqIsList ==
  ASSUME NEW S, NEW s \in Seq(S)
  PROVE  IsList(s)
<1>1. Len(s) \in Nat /\ s \in [1..Len(s) -> S]
  BY LenProperties
<1> QED
  BY <1>1 DEF IsList

LEMMA AppendList ==
  ASSUME NEW s, IsList(s), NEW e
  PROVE  /\ IsList(Append(s, e)) /\ Len(Append(s, e)) = Len(s) + 1
         /\ \A i \in 1..Len(s) : Append(s, e)[i] = s[i]
         /\ Append(s, e)[Len(s) + 1] = e
<1> DEFINE S == {s[i] : i \in 1..Len(s)} \cup {e}
<1>1. s \in Seq(S) /\ e \in S
  BY ListIsSeq
<1>2. Append(s, e) \in Seq(S)
  BY <1>1
<1> HIDE DEF S
<1>3. IsList(Append(s, e))
  BY <1>2, SeqIsList
<1> QED
  BY <1>1, <1>3

LEMMA TailList ==
  ASSUME NEW s, IsList(s), Len(s) > 0
  PROVE  /\ IsList(Tail(s)) /\ Len(Tail(s)) = Len(s) - 1
         /\ \A i \in 1..(Len(s) - 1) : Tail(s)[i] = s[i + 1]
         /\ Head(s) = s[1]
<1> DEFINE S == {s[i] : i \in 1..Len(s)} \cup {s}
<1>1. s \in Seq(S)
  BY ListIsSeq
<1> HIDE DEF S
<1>2. s # <<>>
  BY <1>1, EmptySeq
<1>3. Tail(s) \in Seq(S) /\ Len(Tail(s)) = Len(s) - 1
      /\ \A i \in 1..Len(Tail(s)) : Tail(s)[i] = s[i + 1]
  BY <1>1, <1>2, HeadTailProperties
<1>4. IsList(Tail(s))
  BY <1>3, SeqIsList
<1> QED
  BY <1>1, <1>2, <1>3, <1>4

\* Redis writes what it answers to the next command beside it, and nothing else.
LEMMA ExceptList ==
  ASSUME NEW s, IsList(s), NEW k \in 1..Len(s), NEW e
  PROVE  /\ IsList([s EXCEPT ![k] = e]) /\ Len([s EXCEPT ![k] = e]) = Len(s)
         /\ [s EXCEPT ![k] = e][k] = e
         /\ \A i \in 1..Len(s) : i # k => [s EXCEPT ![k] = e][i] = s[i]
<1> DEFINE t == [s EXCEPT ![k] = e]
           S == {s[i] : i \in 1..Len(s)} \cup {e}
<1>1. s \in Seq(S) /\ e \in S
  BY ListIsSeq
<1> HIDE DEF S
<1>2. /\ t \in Seq(S) /\ Len(t) = Len(s)
      /\ \A j \in 1..Len(s) : t[j] = IF j = k THEN e ELSE s[j]
  BY <1>1, ExceptSeq
<1> HIDE DEF t
<1>3. IsList(t)
  BY <1>2, SeqIsList
<1> QED
  BY <1>2, <1>3 DEF t

-----------------------------------------------------------------------------
(* The proxy, whoever calls it *)

\* The command a call puts on the wire, behind all others.
Sends(c, op, key, val) ==
    /\ sent' = sent + 1 /\ IsList(wire') /\ Len(wire') = Len(wire) + 1
    /\ \A i \in 1..Len(wire) : wire'[i] = wire[i]
    /\ wire'[Len(wire) + 1] = [n |-> sent + 1, by |-> c, op |-> op, key |-> key, val |-> val,
                               refused |-> FALSE, result |-> null]
    /\ call'[c] = [at |-> "waiting", n |-> sent + 1, v |-> null, failed |-> FALSE]

\* What a call does: it sends its command, or an open breaker answers it null.
Fires(c, op, key, val) ==
    /\ DOMAIN call' = Client /\ \A d \in Client \ {c} : call'[d] = call[d]
    /\ \/ Sends(c, op, key, val)
       \/ /\ UNCHANGED <<wire, sent>>
          /\ call'[c] = [at |-> "answered", n |-> 0, v |-> null, failed |-> TRUE]
    /\ breaker' \in {"closed", "open", "halfOpen", "probing"}

LEMMA FireFires ==
  ASSUME ProxyInv, NEW c \in Client, NEW op \in NonCritical, NEW key, NEW val, Fire(c, op, key, val)
  PROVE  Fires(c, op, key, val)
<1>1. DOMAIN call = Client /\ IsList(wire) /\ breaker \in {"closed", "open", "halfOpen", "probing"}
  BY DEF ProxyInv, TypeOK, IsList
<1>2. CASE Rejects
  <2>1. /\ call' = [call EXCEPT ![c] = Failed(0, op)] /\ UNCHANGED <<wire, breaker, sent>>
    BY <1>2 DEF Fire
  <2>2. Failed(0, op) = [at |-> "answered", n |-> 0, v |-> null, failed |-> TRUE]
    BY DEF Failed, Answer
  <2> QED
    BY <1>1, <2>1, <2>2 DEF Fires
<1>3. CASE ~Rejects
  <2>1. /\ sent' = sent + 1
        /\ wire' = Append(wire, [n |-> sent', by |-> c, op |-> op, key |-> key, val |-> val,
                                 refused |-> FALSE, result |-> null])
        /\ call' = [call EXCEPT ![c] = Waiting(sent')]
        /\ breaker' = IF breaker = "halfOpen" THEN "probing" ELSE breaker
    BY <1>3 DEF Fire
  <2>2. Waiting(sent') = [at |-> "waiting", n |-> sent + 1, v |-> null, failed |-> FALSE]
    BY <2>1 DEF Waiting
  <2> DEFINE cmd == [n |-> sent + 1, by |-> c, op |-> op, key |-> key, val |-> val,
                     refused |-> FALSE, result |-> null]
  <2>3. wire' = Append(wire, cmd)
    BY <2>1
  <2> HIDE DEF cmd
  <2>4. /\ IsList(wire') /\ Len(wire') = Len(wire) + 1
        /\ \A i \in 1..Len(wire) : wire'[i] = wire[i]
        /\ wire'[Len(wire) + 1] = cmd
    BY <1>1, <2>3, AppendList
  <2>5. /\ DOMAIN call' = Client /\ \A d \in Client \ {c} : call'[d] = call[d]
        /\ call'[c] = [at |-> "waiting", n |-> sent + 1, v |-> null, failed |-> FALSE]
    BY <1>1, <2>1, <2>2
  <2> QED
    BY <1>1, <2>1, <2>4, <2>5 DEF Fires, Sends, cmd
<1> QED
  BY <1>2, <1>3

\* A step that changes one call keeps the types of all.
LEMMA OneCall ==
  ASSUME TypeOK, NEW c \in Client, sent' \in Nat, sent <= sent',
         DOMAIN call' = Client, \A d \in Client \ {c} : call'[d] = call[d],
         NEW a \in {"idle", "waiting", "answered"}, NEW n \in 0..sent', NEW v, NEW f \in BOOLEAN,
         call'[c] = [at |-> a, n |-> n, v |-> v, failed |-> f]
  PROVE  \A d \in Client :
           /\ DOMAIN call'[d] = {"at", "n", "v", "failed"} /\ call'[d].failed \in BOOLEAN
           /\ call'[d].at \in {"idle", "waiting", "answered"} /\ call'[d].n \in 0..sent'
<1> SUFFICES ASSUME NEW d \in Client
             PROVE  /\ DOMAIN call'[d] = {"at", "n", "v", "failed"} /\ call'[d].failed \in BOOLEAN
                    /\ call'[d].at \in {"idle", "waiting", "answered"} /\ call'[d].n \in 0..sent'
  OBVIOUS
<1>1. CASE d = c
  <2>1. DOMAIN call'[d] = {"at", "n", "v", "failed"}
    BY <1>1
  <2>2. call'[d].at = a /\ call'[d].n = n /\ call'[d].failed = f
    BY <1>1
  <2> QED
    BY <2>1, <2>2
<1>2. CASE d # c
  <2>1. call'[d] = call[d]
    BY <1>2
  <2>2. /\ DOMAIN call[d] = {"at", "n", "v", "failed"} /\ call[d].failed \in BOOLEAN
        /\ call[d].at \in {"idle", "waiting", "answered"} /\ call[d].n \in 0..sent /\ sent \in Nat
    BY DEF TypeOK
  <2> QED
    BY <2>1, <2>2
<1> QED
  BY <1>1, <1>2

\* A failure may be answered at any time: the caller expects nothing of the wire then.
LEMMA FailureKeeps ==
  ASSUME ProxyInv, NEW c \in Client, NEW n \in 0..sent, UNCHANGED <<store, wire, done, up, sent>>,
         DOMAIN call' = Client, \A d \in Client \ {c} : call'[d] = call[d],
         call'[c] = [at |-> "answered", n |-> n, v |-> null, failed |-> TRUE],
         breaker' \in {"closed", "open", "halfOpen", "probing"}
  PROVE  ProxyInv'
<1> USE DEF ProxyInv
<1>1. TypeOK'
  <2>1. sent' \in Nat /\ sent <= sent' /\ n \in 0..sent'
    BY DEF TypeOK
  <2>2. \A d \in Client :
          /\ DOMAIN call'[d] = {"at", "n", "v", "failed"} /\ call'[d].failed \in BOOLEAN
          /\ call'[d].at \in {"idle", "waiting", "answered"} /\ call'[d].n \in 0..sent'
    BY <2>1, OneCall
  <2> QED
    BY <2>2 DEF TypeOK
<1>2. InOrder' /\ Degrades'
  BY DEF InOrder, Degrades
<1>3. OwnAnswer'
  BY DEF OwnAnswer, Mine, Idle
<1> QED
  BY <1>1, <1>2, <1>3

\* A call keeps the invariant: its command has a number nobody waits for.
LEMMA FiresKeeps ==
  ASSUME ProxyInv, NEW c \in Client, NEW op \in NonCritical, NEW key, NEW val,
         Fires(c, op, key, val), UNCHANGED <<store, done, up>>
  PROVE  ProxyInv'
<1> USE DEF ProxyInv
<1>1. CASE Sends(c, op, key, val)
  <2> DEFINE new == Len(wire) + 1
  <2>1. /\ sent \in Nat /\ Len(wire) \in Nat /\ sent' = sent + 1 /\ Len(wire') = new
        /\ \A i \in 1..Len(wire') : i = new \/ (i \in 1..Len(wire) /\ wire'[i] = wire[i])
        /\ DOMAIN wire'[new] = Fields /\ wire'[new].refused = FALSE
        /\ wire'[new].n = sent + 1 /\ wire'[new].by = c /\ wire'[new].op = op
    BY <1>1 DEF Sends, TypeOK, Fields
  <2>2. /\ \A d \in Client \ {c} : call'[d] = call[d]
        /\ call'[c] = [at |-> "waiting", n |-> sent + 1, v |-> null, failed |-> FALSE]
        /\ DOMAIN call' = Client
    BY <1>1 DEF Fires, Sends
  <2> HIDE DEF new
  <2>3. TypeOK'
    <3>1. IsList(wire') /\ done' \in 0..Len(wire') /\ sent' \in Nat
      BY <1>1, <2>1 DEF Sends, TypeOK, new
    <3>2. ASSUME NEW i \in 1..Len(wire')
          PROVE  /\ DOMAIN wire'[i] = Fields /\ wire'[i].refused \in BOOLEAN
                 /\ wire'[i].n \in 1..sent' /\ wire'[i].by \in Client
      <4>1. CASE i = new
        <5>1. sent + 1 \in 1..sent'
          BY <2>1
        <5>2. wire'[i].n \in 1..sent'
          BY <2>1, <4>1, <5>1
        <5>3. DOMAIN wire'[i] = Fields /\ wire'[i].by \in Client
          BY <2>1, <4>1
        <5>4. wire'[i].refused \in BOOLEAN
          BY <2>1, <4>1
        <5> QED
          BY <5>2, <5>3, <5>4
      <4>2. CASE i # new
        <5>1. i \in 1..Len(wire) /\ wire'[i] = wire[i]
          BY <2>1, <4>2
        <5>2. /\ DOMAIN wire[i] = Fields /\ wire[i].refused \in BOOLEAN
              /\ wire[i].n \in 1..sent /\ wire[i].by \in Client
          BY <5>1 DEF TypeOK
        <5> QED
          BY <2>1, <5>1, <5>2
      <4> QED
        BY <4>1, <4>2
    <3>3. \A d \in Client :
            /\ DOMAIN call'[d] = {"at", "n", "v", "failed"} /\ call'[d].failed \in BOOLEAN
            /\ call'[d].at \in {"idle", "waiting", "answered"} /\ call'[d].n \in 0..sent'
      <4>1. sent + 1 \in 0..sent' /\ sent' \in Nat /\ sent <= sent'
        BY <2>1
      <4> QED
        BY <2>2, <4>1, OneCall
    <3> QED
      BY <2>2, <3>1, <3>2, <3>3 DEF TypeOK, Fires, IsList
  <2>4. InOrder'
    <3> SUFFICES ASSUME NEW i \in 1..Len(wire'), NEW j \in 1..Len(wire'), i < j
                 PROVE  wire'[i].n < wire'[j].n
      BY DEF InOrder
    <3>1. i \in 1..Len(wire) /\ wire'[i] = wire[i] /\ wire[i].n \in 1..sent
      BY <2>1 DEF TypeOK, new
    <3>2. CASE j = new
      BY <2>1, <3>1, <3>2
    <3>3. CASE j # new
      BY <2>1, <3>1, <3>3 DEF InOrder
    <3> QED
      BY <3>2, <3>3
  <2>5. OwnAnswer'
    <3> SUFFICES ASSUME NEW d \in Client
                 PROVE  CASE call'[d].at = "waiting" -> \E i \in 1..Len(wire') : Mine(d)' = {i}
                          [] call'[d].at = "answered" -> ~call'[d].failed => Mine(d)' = {}
                          [] OTHER -> call'[d] = Idle
      BY DEF OwnAnswer, Idle
    <3>1. CASE d = c
      <4>1. Mine(c)' = {new}
        BY <2>1, <2>2 DEF Mine, TypeOK, new
      <4> QED
        BY <2>1, <2>2, <3>1, <4>1 DEF new
    <3>2. CASE d # c
      <4>1. Mine(d)' = Mine(d)
        <5>1. call'[d] = call[d]
          BY <2>2, <3>2
        <5>2. wire'[new].by # d /\ 1..Len(wire') = 1..Len(wire) \cup {new}
          BY <2>1, <3>2 DEF new
        <5>3. \A i \in 1..Len(wire) : wire'[i] = wire[i]
          BY <1>1 DEF Sends
        <5> QED
          BY <5>1, <5>2, <5>3 DEF Mine
      <4>2. 1..Len(wire) \subseteq 1..Len(wire')
        BY <2>1 DEF new
      <4> QED
        BY <2>2, <3>2, <4>1, <4>2 DEF OwnAnswer
    <3> QED
      BY <3>1, <3>2
  <2>6. Degrades'
    BY <2>1, <2>2 DEF Degrades
  <2> QED
    BY <2>3, <2>4, <2>5, <2>6
<1>2. CASE /\ UNCHANGED <<wire, sent>>
           /\ call'[c] = [at |-> "answered", n |-> 0, v |-> null, failed |-> TRUE]
  <2>1. 0 \in 0..sent
    BY DEF TypeOK
  <2> QED
    BY <1>2, <2>1, FailureKeeps DEF Fires
<1> QED
  BY <1>1, <1>2 DEF Fires

\* So does the return of a call.
LEMMA ReturnKeeps ==
  ASSUME ProxyInv, NEW c \in Client, Return(c), UNCHANGED <<store, wire, done, up, breaker, sent>>
  PROVE  ProxyInv'
<1> USE DEF ProxyInv
<1>1. /\ DOMAIN call' = Client /\ call'[c] = Idle /\ \A d \in Client \ {c} : call'[d] = call[d]
  BY DEF Return, TypeOK
<1>2. TypeOK'
  <2>1. \A d \in Client :
          /\ DOMAIN call'[d] = {"at", "n", "v", "failed"} /\ call'[d].failed \in BOOLEAN
          /\ call'[d].at \in {"idle", "waiting", "answered"} /\ call'[d].n \in 0..sent'
    <3>1. 0 \in 0..sent' /\ sent' \in Nat /\ sent <= sent'
      BY DEF TypeOK
    <3>2. call'[c] = [at |-> "idle", n |-> 0, v |-> null, failed |-> FALSE]
      BY <1>1 DEF Idle
    <3> QED
      BY <1>1, <3>1, <3>2, OneCall
  <2> QED
    BY <1>1, <2>1 DEF TypeOK
<1>3. InOrder' /\ Degrades'
  BY <1>1 DEF InOrder, Degrades, Idle
<1>4. OwnAnswer'
  BY <1>1 DEF OwnAnswer, Mine, Idle
<1> QED
  BY <1>2, <1>3, <1>4

\* The commands on the wire stay what they are: only what Redis answered changes.
Kept ==
    /\ IsList(wire') /\ Len(wire') = Len(wire)
    /\ \A i \in 1..Len(wire) :
         /\ DOMAIN wire'[i] = Fields /\ wire'[i].refused \in BOOLEAN
         /\ wire'[i].n = wire[i].n /\ wire'[i].by = wire[i].by /\ wire'[i].op = wire[i].op
         /\ wire'[i].key = wire[i].key /\ wire'[i].val = wire[i].val

LEMMA KeptKeeps ==
  ASSUME ProxyInv, Kept, done' \in 0..Len(wire), UNCHANGED <<call, sent, breaker>>,
         up' \in BOOLEAN, DOMAIN store' = Key
  PROVE  ProxyInv'
<1> USE DEF ProxyInv
<1>1. TypeOK'
  <2>1. \A i \in 1..Len(wire') :
          /\ DOMAIN wire'[i] = Fields /\ wire'[i].refused \in BOOLEAN
          /\ wire'[i].n \in 1..sent' /\ wire'[i].by \in Client
    BY DEF Kept, TypeOK
  <2> QED
    BY <2>1 DEF Kept, TypeOK, IsList
<1>2. InOrder' /\ Degrades'
  BY DEF InOrder, Degrades, Kept
<1>3. OwnAnswer'
  <2>1. \A c \in Client : Mine(c)' = Mine(c)
    BY DEF Mine, Kept
  <2> SUFFICES ASSUME NEW c \in Client
               PROVE  CASE call'[c].at = "waiting" -> \E i \in 1..Len(wire') : Mine(c)' = {i}
                        [] call'[c].at = "answered" -> ~call'[c].failed => Mine(c)' = {}
                        [] OTHER -> call'[c] = Idle
    BY DEF OwnAnswer, Idle
  <2>2. call' = call /\ Len(wire') = Len(wire) /\ Mine(c)' = Mine(c)
    BY <2>1 DEF Kept
  <2> QED
    BY <2>2 DEF OwnAnswer
<1> QED
  BY <1>1, <1>2, <1>3

\* Redis takes the next command: the keys change as it says, and what it gives is kept
\* if its caller still waits; or Redis answers with an error.
Executes ==
    LET cmd == wire[done + 1]
        answer == wire'[done + 1] IN
    /\ done < Len(wire) /\ done' = done + 1
    /\ \A i \in 1..Len(wire) : i # done + 1 => wire'[i] = wire[i]
    /\ \/ /\ store' = Effect(cmd) /\ ~answer.refused
          /\ Waits(cmd.by, cmd) => answer.result = Result(cmd)
       \/ /\ UNCHANGED store /\ (Waits(cmd.by, cmd) => answer.refused)
          /\ answer.result = null
    /\ UNCHANGED <<up, breaker, call, sent>>

LEMMA ExecuteIs ==
  ASSUME ProxyInv, Execute
  PROVE  Kept /\ Executes /\ done + 1 \in 1..Len(wire)
<1> DEFINE k == done + 1
           cmd == wire[k]
<1>1. done \in Nat /\ Len(wire) \in Nat /\ done < Len(wire) /\ k \in 1..Len(wire) /\ done' = k
  BY DEF Execute, ProxyInv, TypeOK
<1>2. IsList(wire) /\ DOMAIN cmd = Fields
  BY <1>1 DEF ProxyInv, TypeOK, IsList
<1>3. ASSUME NEW refused \in BOOLEAN, NEW result, Put(refused, result)
      PROVE  /\ Kept /\ \A i \in 1..Len(wire) : i # k => wire'[i] = wire[i]
             /\ wire'[k].refused = refused /\ wire'[k].result = result
  <2> DEFINE e == [cmd EXCEPT !.refused = refused, !.result = result]
  <2>1. wire' = [wire EXCEPT ![k] = e]
    BY <1>3 DEF Put
  <2>2. /\ DOMAIN e = Fields /\ e.refused = refused /\ e.result = result
        /\ e.n = cmd.n /\ e.by = cmd.by /\ e.op = cmd.op /\ e.key = cmd.key /\ e.val = cmd.val
    BY <1>2 DEF Fields
  <2> HIDE DEF e, k
  <2>3. /\ IsList(wire') /\ Len(wire') = Len(wire) /\ wire'[k] = e
        /\ \A i \in 1..Len(wire) : i # k => wire'[i] = wire[i]
    <3>1. IsList(wire) /\ k \in 1..Len(wire)
      BY <1>1, <1>2
    <3>2. /\ IsList([wire EXCEPT ![k] = e]) /\ Len([wire EXCEPT ![k] = e]) = Len(wire)
          /\ [wire EXCEPT ![k] = e][k] = e
          /\ \A i \in 1..Len(wire) : i # k => [wire EXCEPT ![k] = e][i] = wire[i]
      BY <3>1, ExceptList
    <3> QED
      BY <2>1, <3>2
  <2>4. ASSUME NEW i \in 1..Len(wire)
        PROVE  /\ DOMAIN wire'[i] = Fields /\ wire'[i].refused \in BOOLEAN
               /\ wire'[i].n = wire[i].n /\ wire'[i].by = wire[i].by /\ wire'[i].op = wire[i].op
               /\ wire'[i].key = wire[i].key /\ wire'[i].val = wire[i].val
    BY <2>2, <2>3 DEF ProxyInv, TypeOK
  <2> QED
    BY <2>2, <2>3, <2>4 DEF Kept
<1>4. Waits(cmd.by, cmd) \in BOOLEAN
  BY DEF Waits
<1>5. CASE store' = Effect(cmd) /\ Put(FALSE, IF Waits(cmd.by, cmd) THEN Result(cmd) ELSE null)
  <2>1. /\ Kept /\ \A i \in 1..Len(wire) : i # k => wire'[i] = wire[i]
        /\ wire'[k].refused = FALSE
        /\ wire'[k].result = IF Waits(cmd.by, cmd) THEN Result(cmd) ELSE null
    BY <1>3, <1>5
  <2> QED
    BY <1>1, <1>5, <2>1 DEF Executes, Execute
<1>6. CASE UNCHANGED store /\ Put(Waits(cmd.by, cmd), null)
  <2>1. /\ Kept /\ \A i \in 1..Len(wire) : i # k => wire'[i] = wire[i]
        /\ wire'[k].refused = Waits(cmd.by, cmd) /\ wire'[k].result = null
    BY <1>3, <1>4, <1>6
  <2> QED
    BY <1>1, <1>6, <2>1 DEF Executes, Execute
<1> QED
  BY <1>5, <1>6 DEF Execute

LEMMA ExecuteKeeps ==
  ASSUME ProxyInv, Execute
  PROVE  ProxyInv'
<1>1. Kept /\ Executes /\ done + 1 \in 1..Len(wire)
  BY ExecuteIs
<1>2. DOMAIN store' = Key
  BY <1>1 DEF Executes, Effect, ProxyInv, TypeOK
<1> QED
  BY <1>1, <1>2, KeptKeeps DEF Executes, ProxyInv, TypeOK

\* After a break nothing has been answered yet.
LEMMA BreaksIs ==
  ASSUME ProxyInv, Breaks
  PROVE  Kept /\ done' = 0 /\ UNCHANGED <<store, breaker, call, sent>> /\ up' = FALSE
<1>1. IsList(wire) /\ DOMAIN wire = 1..Len(wire)
  BY DEF ProxyInv, TypeOK, IsList
<1>2. wire' = [i \in 1..Len(wire) |-> [wire[i] EXCEPT !.refused = FALSE, !.result = null]]
  BY <1>1 DEF Breaks, Resend, Unanswered
<1>3. ASSUME NEW i \in 1..Len(wire)
      PROVE  /\ DOMAIN wire'[i] = Fields /\ wire'[i].refused \in BOOLEAN
             /\ wire'[i].n = wire[i].n /\ wire'[i].by = wire[i].by /\ wire'[i].op = wire[i].op
             /\ wire'[i].key = wire[i].key /\ wire'[i].val = wire[i].val
  <2>1. wire'[i] = [wire[i] EXCEPT !.refused = FALSE, !.result = null] /\ DOMAIN wire[i] = Fields
    BY <1>2 DEF ProxyInv, TypeOK
  <2> QED
    BY <2>1 DEF Fields
<1>4. IsList(wire') /\ Len(wire') = Len(wire)
  <2> DEFINE S == {wire'[i] : i \in 1..Len(wire)}
  <2>1. wire' \in [1..Len(wire) -> S] /\ Len(wire) \in Nat
    BY <1>1, <1>2 DEF IsList
  <2> HIDE DEF S
  <2>2. wire' \in Seq(S)
    BY <2>1
  <2>3. Len(wire') = Len(wire)
    BY <2>1, <2>2
  <2> QED
    BY <2>2, <2>3, SeqIsList
<1> QED
  BY <1>3, <1>4 DEF Kept, Breaks

LEMMA LinkKeeps ==
  ASSUME ProxyInv, Breaks \/ Reconnects
  PROVE  ProxyInv'
<1>1. CASE Breaks
  <2>1. Kept /\ done' = 0 /\ UNCHANGED <<store, breaker, call, sent>> /\ up' = FALSE
    BY <1>1, BreaksIs
  <2>2. done' \in 0..Len(wire)
    BY <2>1 DEF ProxyInv, TypeOK
  <2>3. up' \in BOOLEAN /\ DOMAIN store' = Key
    BY <2>1 DEF ProxyInv, TypeOK
  <2> QED
    BY <2>1, <2>2, <2>3, KeptKeeps
<1>2. CASE Reconnects
  <2>1. up' = TRUE /\ UNCHANGED <<store, wire, done, breaker, call, sent>>
    BY <1>2 DEF Reconnects
  <2>2. TypeOK'
    BY <2>1 DEF ProxyInv, TypeOK
  <2>3. InOrder' /\ Degrades'
    BY <2>1 DEF ProxyInv, InOrder, Degrades
  <2>4. OwnAnswer'
    BY <2>1 DEF ProxyInv, OwnAnswer, Mine, Idle
  <2> QED
    BY <2>2, <2>3, <2>4 DEF ProxyInv
<1> QED
  BY <1>1, <1>2

\* The call that timed out is answered null.
TimedOut(c) ==
    /\ call[c].at = "waiting"
    /\ DOMAIN call' = Client /\ \A d \in Client \ {c} : call'[d] = call[d]
    /\ call'[c] = [at |-> "answered", n |-> call[c].n, v |-> null, failed |-> TRUE]
    /\ UNCHANGED <<store, wire, done, up, sent>>

LEMMA TimesOutIs ==
  ASSUME ProxyInv, NEW c \in Client, TimesOut(c)
  PROVE  TimedOut(c) /\ breaker' \in {"closed", "open"}
<1>1. DOMAIN wire = 1..Len(wire) /\ DOMAIN call = Client
  BY DEF ProxyInv, TypeOK
<1>2. PICK i \in 1..Len(wire) :
        wire[i].n = call[c].n /\ call' = [call EXCEPT ![c] = Failed(wire[i].n, wire[i].op)]
  BY <1>1 DEF TimesOut
<1>3. Failed(wire[i].n, wire[i].op)
        = [at |-> "answered", n |-> call[c].n, v |-> null, failed |-> TRUE]
  BY <1>2 DEF Failed, Answer, ProxyInv, Degrades
<1> QED
  BY <1>1, <1>2, <1>3 DEF TimesOut, TimedOut, AfterFailure

LEMMA TimesOutKeeps ==
  ASSUME ProxyInv, NEW c \in Client, TimesOut(c)
  PROVE  ProxyInv'
<1>1. TimedOut(c) /\ breaker' \in {"closed", "open"} /\ call[c].n \in 0..sent
  BY TimesOutIs DEF ProxyInv, TypeOK
<1> QED
  BY <1>1, FailureKeeps DEF TimedOut

\* The oldest command leaves the wire, and answers the call that waits for it.
Replies ==
    LET cmd == wire[1] IN
    /\ done > 0 /\ Len(wire) > 0 /\ done' = done - 1
    /\ IsList(wire') /\ Len(wire') = Len(wire) - 1
    /\ \A i \in 1..(Len(wire) - 1) : wire'[i] = wire[i + 1]
    /\ DOMAIN call' = Client /\ cmd.by \in Client
    /\ \A d \in Client : d # cmd.by \/ ~Waits(d, cmd) => call'[d] = call[d]
    /\ Waits(cmd.by, cmd) =>
         \/ cmd.refused /\ call'[cmd.by] = [at |-> "answered", n |-> cmd.n, v |-> null, failed |-> TRUE]
         \/ ~cmd.refused /\ call'[cmd.by] = [at |-> "answered", n |-> cmd.n, v |-> cmd.result, failed |-> FALSE]
    /\ UNCHANGED <<store, up, sent>>

LEMMA ReplyIs ==
  ASSUME ProxyInv, Reply
  PROVE  Replies /\ breaker' \in {"closed", "open", "halfOpen", "probing"}
<1> DEFINE cmd == wire[1]
<1>1. /\ done \in Nat /\ Len(wire) \in Nat /\ done > 0 /\ Len(wire) > 0 /\ IsList(wire)
      /\ 1 \in 1..Len(wire) /\ DOMAIN call = Client
  BY DEF Reply, ProxyInv, TypeOK, IsList
<1>2. /\ IsList(Tail(wire)) /\ Len(Tail(wire)) = Len(wire) - 1 /\ Head(wire) = cmd
      /\ \A i \in 1..(Len(wire) - 1) : Tail(wire)[i] = wire[i + 1]
  BY <1>1, TailList
<1>3. cmd.by \in Client /\ cmd.op \in NonCritical /\ cmd.refused \in BOOLEAN
  BY <1>1 DEF ProxyInv, TypeOK, Degrades
<1>4. /\ wire' = Tail(wire) /\ done' = done - 1 /\ UNCHANGED <<store, up, sent>>
  BY DEF Reply
<1>5. CASE ~Waits(cmd.by, cmd)
  <2>1. UNCHANGED <<call, breaker>>
    BY <1>2, <1>5 DEF Reply
  <2> QED
    BY <1>1, <1>2, <1>3, <1>4, <1>5, <2>1 DEF Replies, ProxyInv, TypeOK
<1>6. CASE Waits(cmd.by, cmd) /\ cmd.refused
  <2>1. call' = [call EXCEPT ![cmd.by] = Failed(cmd.n, cmd.op)] /\ breaker' \in AfterFailure
    BY <1>2, <1>6 DEF Reply
  <2>2. Failed(cmd.n, cmd.op) = [at |-> "answered", n |-> cmd.n, v |-> null, failed |-> TRUE]
    BY <1>3 DEF Failed, Answer
  <2> QED
    BY <1>1, <1>2, <1>3, <1>4, <1>6, <2>1, <2>2 DEF Replies, AfterFailure
<1>7. CASE Waits(cmd.by, cmd) /\ ~cmd.refused
  <2>1. /\ call' = [call EXCEPT ![cmd.by] = Answer(call[cmd.by].n, cmd.result, FALSE)]
        /\ breaker' = AfterSuccess
    BY <1>2, <1>7 DEF Reply
  <2>2. Answer(call[cmd.by].n, cmd.result, FALSE)
          = [at |-> "answered", n |-> cmd.n, v |-> cmd.result, failed |-> FALSE]
    BY <1>7 DEF Answer, Waits
  <2>3. breaker' \in {"closed", "open", "halfOpen", "probing"}
    BY <2>1 DEF AfterSuccess, ProxyInv, TypeOK
  <2> QED
    BY <1>1, <1>2, <1>3, <1>4, <1>7, <2>1, <2>2, <2>3 DEF Replies
<1> QED
  BY <1>3, <1>5, <1>6, <1>7

LEMMA ReplyKeeps ==
  ASSUME ProxyInv, Reply
  PROVE  ProxyInv'
<1> DEFINE cmd == wire[1]
           c == cmd.by
<1>1. Replies /\ breaker' \in {"closed", "open", "halfOpen", "probing"}
  BY ReplyIs
<1>2. /\ done \in 0..Len(wire) /\ done > 0 /\ Len(wire) \in Nat /\ Len(wire) > 0 /\ done' = done - 1
      /\ Len(wire') = Len(wire) - 1 /\ 1 \in 1..Len(wire) /\ IsList(wire')
      /\ \A i \in 1..Len(wire') : i + 1 \in 1..Len(wire) /\ wire'[i] = wire[i + 1]
  BY <1>1 DEF Replies, ProxyInv, TypeOK
<1>3. c \in Client /\ cmd.n \in 1..sent /\ sent \in Nat /\ sent' = sent
  BY <1>1, <1>2 DEF Replies, ProxyInv, TypeOK
<1>4. TypeOK'
  <2>1. \A i \in 1..Len(wire') :
          /\ DOMAIN wire'[i] = Fields /\ wire'[i].refused \in BOOLEAN
          /\ wire'[i].n \in 1..sent' /\ wire'[i].by \in Client
    BY <1>2, <1>3 DEF ProxyInv, TypeOK
  <2>2. \A d \in Client :
          /\ DOMAIN call'[d] = {"at", "n", "v", "failed"} /\ call'[d].failed \in BOOLEAN
          /\ call'[d].at \in {"idle", "waiting", "answered"} /\ call'[d].n \in 0..sent'
    <3>1. CASE Waits(c, cmd)
      <4>1. /\ \A d \in Client \ {c} : call'[d] = call[d]
            /\ DOMAIN call' = Client /\ cmd.n \in 0..sent' /\ sent' \in Nat /\ sent <= sent'
        BY <1>1, <1>3 DEF Replies
      <4>2. \/ call'[c] = [at |-> "answered", n |-> cmd.n, v |-> null, failed |-> TRUE]
            \/ call'[c] = [at |-> "answered", n |-> cmd.n, v |-> cmd.result, failed |-> FALSE]
        BY <1>1, <3>1 DEF Replies
      <4> HIDE DEF c, cmd
      <4> QED
        BY <1>3, <4>1, <4>2, OneCall DEF ProxyInv
    <3>2. CASE ~Waits(c, cmd)
      BY <1>1, <1>3, <3>2 DEF Replies, ProxyInv, TypeOK
    <3> QED
      BY <3>1, <3>2
  <2>3. done' \in 0..Len(wire')
    BY <1>2
  <2> QED
    BY <1>1, <1>2, <1>3, <2>1, <2>2, <2>3 DEF Replies, ProxyInv, TypeOK, IsList
<1>5. InOrder'
  BY <1>2 DEF ProxyInv, InOrder
<1>6. Degrades'
  <2>1. \A i \in 1..Len(wire') : wire'[i].op \in NonCritical
    BY <1>2 DEF ProxyInv, Degrades
  <2>2. ASSUME NEW d \in Client PROVE call'[d].failed => call'[d].v = null
    <3>1. CASE d = c /\ Waits(c, cmd)
      BY <1>1, <3>1 DEF Replies
    <3>2. CASE ~(d = c /\ Waits(c, cmd))
      <4>1. call'[d] = call[d]
        BY <1>1, <3>2 DEF Replies
      <4> QED
        BY <4>1 DEF ProxyInv, Degrades
    <3> QED
      BY <3>1, <3>2
  <2> QED
    BY <2>1, <2>2 DEF Degrades
<1>7. OwnAnswer'
  <2> SUFFICES ASSUME NEW d \in Client
               PROVE  CASE call'[d].at = "waiting" -> \E i \in 1..Len(wire') : Mine(d)' = {i}
                        [] call'[d].at = "answered" -> ~call'[d].failed => Mine(d)' = {}
                        [] OTHER -> call'[d] = Idle
    BY DEF OwnAnswer, Idle
  <2>1. CASE d = c /\ Waits(c, cmd)
    <3>1. call'[d].at = "answered" /\ call'[d].n = cmd.n
      BY <1>1, <2>1 DEF Replies
    <3>2. \A i \in 1..Len(wire') : wire'[i].n # cmd.n
      <4> SUFFICES ASSUME NEW i \in 1..Len(wire') PROVE wire'[i].n # cmd.n
        OBVIOUS
      <4>1. wire'[i] = wire[i + 1] /\ i + 1 \in 1..Len(wire) /\ 1 < i + 1
        BY <1>2
      <4>2. cmd.n < wire[i + 1].n
        BY <1>2, <4>1 DEF ProxyInv, InOrder
      <4>3. wire[i + 1].n \in Nat /\ cmd.n \in Nat
        BY <1>3, <4>1 DEF ProxyInv, TypeOK
      <4> QED
        BY <4>1, <4>2, <4>3
    <3>3. Mine(d)' = {}
      BY <3>1, <3>2 DEF Mine
    <3> QED
      BY <3>1, <3>3
  <2>2. CASE ~(d = c /\ Waits(c, cmd))
    <3>1. call'[d] = call[d]
      BY <1>1, <2>2 DEF Replies
    <3>2. Mine(d)' = {i \in 1..Len(wire') : wire[i + 1].by = d /\ wire[i + 1].n = call[d].n}
      BY <1>2, <3>1 DEF Mine
    <3>3. CASE call[d].at = "waiting"
      <4>1. PICK i \in 1..Len(wire) : Mine(d) = {i}
        BY <3>3 DEF ProxyInv, OwnAnswer
      <4>2. i # 1
        <5>1. i = 1 => cmd.by = d /\ cmd.n = call[d].n
          BY <4>1 DEF Mine
        <5> QED
          BY <2>2, <3>3, <5>1 DEF Waits
      <4>3. i - 1 \in 1..Len(wire')
        BY <1>2, <4>2
      <4>4. Mine(d)' = {i - 1}
        <5>1. \A j \in 1..Len(wire) : wire[j].by = d /\ wire[j].n = call[d].n <=> j = i
          BY <4>1 DEF Mine
        <5>2. \A j \in 1..Len(wire') : wire[j + 1].by = d /\ wire[j + 1].n = call[d].n <=> j = i - 1
          BY <1>2, <5>1
        <5> QED
          BY <3>2, <4>3, <5>2
      <4> QED
        BY <3>1, <3>3, <4>3, <4>4
    <3>4. CASE call[d].at = "answered"
      <4>1. ~call[d].failed => Mine(d) = {}
        BY <3>4 DEF ProxyInv, OwnAnswer
      <4>2. Mine(d) = {} => Mine(d)' = {}
        BY <1>2, <3>2 DEF Mine
      <4> QED
        BY <3>1, <3>4, <4>1, <4>2
    <3>5. CASE call[d].at \notin {"waiting", "answered"}
      BY <3>1, <3>5 DEF ProxyInv, OwnAnswer
    <3> QED
      BY <3>3, <3>4, <3>5
  <2> QED
    BY <2>1, <2>2
<1> QED
  BY <1>4, <1>5, <1>6, <1>7 DEF ProxyInv

LEMMA ProxyKeeps ==
  ASSUME ProxyInv, ProxyNext
  PROVE  ProxyInv'
<1>1. CASE Reset
  <2>1. UNCHANGED <<store, wire, done, up, call, sent>> /\ breaker' = "halfOpen"
    BY <1>1 DEF Reset
  <2>2. TypeOK'
    BY <2>1 DEF ProxyInv, TypeOK
  <2>3. InOrder' /\ Degrades' /\ OwnAnswer'
    BY <2>1 DEF ProxyInv, InOrder, Degrades, OwnAnswer, Mine, Idle
  <2> QED
    BY <2>2, <2>3 DEF ProxyInv
<1> QED
  BY <1>1, TimesOutKeeps, ExecuteKeeps, ReplyKeeps, LinkKeeps DEF ProxyNext

\* A key that expires is no command.
LEMMA ExpireKeeps ==
  ASSUME ProxyInv, Expire
  PROVE  ProxyInv'
<1>1. DOMAIN store' = Key /\ UNCHANGED <<wire, done, up, breaker, call, sent>>
  BY DEF Expire, ProxyInv, TypeOK
<1>2. TypeOK'
  BY <1>1 DEF ProxyInv, TypeOK
<1>3. InOrder' /\ Degrades' /\ OwnAnswer'
  BY <1>1 DEF ProxyInv, InOrder, Degrades, OwnAnswer, Mine, Idle
<1> QED
  BY <1>2, <1>3 DEF ProxyInv

LEMMA ProxyUntouched ==
  ASSUME ProxyInv, UNCHANGED proxy
  PROVE  ProxyInv'
<1>1. UNCHANGED <<store, wire, done, up, breaker, call, sent>>
  BY DEF proxy
<1>2. TypeOK'
  BY <1>1 DEF ProxyInv, TypeOK
<1>3. InOrder' /\ Degrades' /\ OwnAnswer'
  BY <1>1 DEF ProxyInv, InOrder, Degrades, OwnAnswer, Mine, Idle
<1> QED
  BY <1>2, <1>3 DEF ProxyInv

LEMMA InitProxy == ProxyInit => ProxyInv
<1> SUFFICES ASSUME ProxyInit PROVE ProxyInv
  OBVIOUS
<1>1. /\ store = [k \in Key |-> null] /\ wire = <<>> /\ done = 0 /\ up = TRUE /\ breaker = "closed"
      /\ call = [c \in Client |-> Idle] /\ sent = 0
  BY DEF ProxyInit
<1>2. Len(wire) = 0 /\ IsList(wire) /\ 1..Len(wire) = {}
  <2>1. <<>> \in Seq({}) /\ Len(<<>>) = 0
    BY EmptySeq
  <2>2. IsList(<<>>)
    BY <2>1, SeqIsList
  <2>3. 1..0 = {}
    OBVIOUS
  <2>4. wire = <<>>
    BY <1>1
  <2> QED
    BY <2>1, <2>2, <2>3, <2>4
<1>3. \A c \in Client : /\ DOMAIN call[c] = {"at", "n", "v", "failed"} /\ call[c].failed = FALSE
                        /\ call[c].at = "idle" /\ call[c].n = 0 /\ call[c] = Idle
  BY <1>1 DEF Idle
<1>4. TypeOK
  <2>1. DOMAIN store = Key /\ DOMAIN call = Client /\ done \in 0..Len(wire) /\ sent \in Nat
    BY <1>1, <1>2
  <2>2. \A c \in Client :
          /\ DOMAIN call[c] = {"at", "n", "v", "failed"} /\ call[c].failed \in BOOLEAN
          /\ call[c].at \in {"idle", "waiting", "answered"} /\ call[c].n \in 0..sent
    <3>1. sent = 0
      BY <1>1
    <3>2. 0 \in 0..sent /\ FALSE \in BOOLEAN
      BY <3>1
    <3> SUFFICES ASSUME NEW c \in Client
                 PROVE  /\ DOMAIN call[c] = {"at", "n", "v", "failed"} /\ call[c].failed \in BOOLEAN
                        /\ call[c].at \in {"idle", "waiting", "answered"} /\ call[c].n \in 0..sent
      OBVIOUS
    <3>3. DOMAIN call[c] = {"at", "n", "v", "failed"} /\ call[c].at = "idle"
      BY <1>3
    <3>4. call[c].n \in 0..sent /\ call[c].failed \in BOOLEAN
      BY <1>3, <3>2
    <3> QED
      BY <3>3, <3>4
  <2> QED
    BY <1>1, <1>2, <2>1, <2>2 DEF TypeOK, IsList
<1>5. InOrder /\ Degrades /\ OwnAnswer
  BY <1>2, <1>3 DEF InOrder, Degrades, OwnAnswer
<1> QED
  BY <1>4, <1>5 DEF ProxyInv

\* The clients do with the proxy no more than call it and take its answers.
LEMMA ClientsKeep ==
  ASSUME ProxyInv, [Next]_vars
  PROVE  ProxyInv'
<1>1. {"check", "admin", "get", "fill", "inv"} \subseteq Client
      /\ {"get", "set", "setex", "del", "keys"} \subseteq NonCritical
  BY ClientsAssumption DEF NonCritical
<1>2. ASSUME NEW c \in {"check", "admin", "get", "fill", "inv"},
             NEW op \in {"get", "set", "setex", "del", "keys"}, NEW key, NEW val,
             Fire(c, op, key, val), UNCHANGED <<store, done, up>>
      PROVE  ProxyInv'
  BY <1>1, <1>2, FireFires, FiresKeeps
<1>3. ASSUME NEW c \in {"check", "admin", "get", "fill", "inv"}, Return(c),
             UNCHANGED <<store, wire, done, up, breaker, sent>>
      PROVE  ProxyInv'
  BY <1>1, <1>3, ReturnKeeps
<1>4. CASE FlagNext
  <2> USE DEF reads, Ask, Ends
  <2>1. CASE IsEnabled
    BY <1>2, <2>1 DEF IsEnabled
  <2>2. CASE GetAllFlags
    BY <1>2, <2>2 DEF GetAllFlags
  <2>3. CASE GlobalRead
    BY <1>2, <1>3, <2>3 DEF GlobalRead
  <2>4. CASE UserRead
    BY <1>2, <1>3, <2>4 DEF UserRead
  <2>5. CASE RolloutRead \/ ValueRead
    BY <1>3, <2>5 DEF RolloutRead, ValueRead
  <2>6. CASE FlagsListed
    BY <1>2, <1>3, <2>6 DEF FlagsListed
  <2>7. CASE \E key, val : Change(key, val)
    BY <1>2, <2>7 DEF Change
  <2>8. CASE Changed
    BY <1>3, <2>8 DEF Changed
  <2> QED
    BY <1>4, <2>1, <2>2, <2>3, <2>4, <2>5, <2>6, <2>7, <2>8
    DEF FlagNext, Enable, Disable, EnableForUser, SetRolloutPercentage
<1>5. CASE CacheNext
  <2>1. CASE Request
    BY <1>2, <2>1 DEF Request
  <2>2. CASE Lookup \/ Filled \/ Deleted
    BY <1>3, <2>2 DEF Lookup, Filled, Deleted
  <2>3. CASE Handle
    BY <2>3, ProxyUntouched DEF Handle
  <2>4. CASE Json
    <3>1. CASE Fire("fill", "setex", "page", body)
      BY <1>2, <2>4, <3>1 DEF Json
    <3>2. CASE UNCHANGED <<wire, breaker, call, sent>>
      BY <2>4, <3>2, ProxyUntouched DEF Json, proxy
    <3> QED
      BY <2>4, <3>1, <3>2 DEF Json
  <2>5. CASE Update
    BY <1>2, <2>5 DEF Update
  <2>6. CASE Matched
    BY <1>2, <1>3, <2>6 DEF Matched
  <2> QED
    BY <1>5, <2>1, <2>2, <2>3, <2>4, <2>5, <2>6, ExpireKeeps DEF CacheNext
<1>6. CASE UNCHANGED vars
  BY <1>6, ProxyUntouched DEF vars
<1> QED
  BY <1>4, <1>5, <1>6, ProxyKeeps DEF Next

\* ProxyInv: a caller gets its own answer, in its time or not at all, however late the
\* replies are, however often the link breaks and the breaker opens
\* (createRedisCircuitBreaker).
THEOREM ProxyInvariant == Spec => []ProxyInv
<1>1. Init => ProxyInv
  BY InitProxy DEF Init
<1> QED
  BY <1>1, ClientsKeep, PTL DEF Spec

\* Nothing but a reply answers a waiting call without a failure.
LEMMA CallsKeepOrder ==
  ASSUME ProxyInv, NEW c \in Client, NEW op \in NonCritical, NEW key, NEW val,
         Fire(c, op, key, val), UNCHANGED <<store, done, up>>
  PROVE  KeepsOrder
<1>1. Fires(c, op, key, val)
  BY FireFires
<1>2. done' # done + 1
  BY DEF ProxyInv, TypeOK
<1>3. \A d \in Client : call[d].at = "waiting" /\ Answered(d)' => call'[d].failed
  BY <1>1 DEF Fires, Sends, Answered
<1> QED
  BY <1>2, <1>3 DEF KeepsOrder

LEMMA ReturnsKeepOrder ==
  ASSUME ProxyInv, UNCHANGED done, NEW c \in Client, Return(c) \/ UNCHANGED call
  PROVE  KeepsOrder
<1>1. done' # done + 1
  BY DEF ProxyInv, TypeOK
<1>2. \A d \in Client : call[d].at = "waiting" => ~Answered(d)'
  <2>1. DOMAIN call = Client
    BY DEF ProxyInv, TypeOK
  <2>2. CASE call' = [call EXCEPT ![c] = Idle]
    <3>1. call'[c].at = "idle" /\ \A d \in Client \ {c} : call'[d] = call[d]
      BY <2>1, <2>2 DEF Idle
    <3> QED
      BY <3>1 DEF Answered
  <2>3. CASE call' = call
    BY <2>3 DEF Answered
  <2> QED
    BY <2>2, <2>3 DEF Return
<1> QED
  BY <1>1, <1>2 DEF KeepsOrder

LEMMA ProxyKeepsOrder ==
  ASSUME ProxyInv, ProxyNext
  PROVE  KeepsOrder
<1>1. done \in Nat /\ DOMAIN call = Client
  BY DEF ProxyInv, TypeOK
<1>2. ASSUME NEW c \in Client, TimesOut(c) PROVE KeepsOrder
  <2>1. TimedOut(c)
    BY <1>2, TimesOutIs
  <2> QED
    BY <1>1, <2>1 DEF TimedOut, KeepsOrder, Answered
<1>3. CASE Execute
  <2>1. Executes /\ done + 1 \in 1..Len(wire)
    BY <1>3, ExecuteIs
  <2>2. \A i \in 1..Len(wire) : wire[i].n < wire[done + 1].n => i <= done
    <3> SUFFICES ASSUME NEW i \in 1..Len(wire), ~(i <= done) PROVE ~(wire[i].n < wire[done + 1].n)
      OBVIOUS
    <3>1. i = done + 1 \/ done + 1 < i
      BY <1>1
    <3>2. wire[i].n \in Nat /\ wire[done + 1].n \in Nat
      BY <2>1 DEF ProxyInv, TypeOK
    <3> QED
      BY <2>1, <3>1, <3>2 DEF ProxyInv, InOrder
  <2>3. \A d \in Client : call[d].at = "waiting" => ~Answered(d)'
    BY <2>1 DEF Executes, Answered
  <2> QED
    BY <2>2, <2>3 DEF KeepsOrder
<1>4. CASE Reply
  <2>1. Replies
    BY <1>4, ReplyIs
  <2>2. done' # done + 1
    BY <1>1, <2>1 DEF Replies
  <2>3. ASSUME NEW c \in Client, call[c].at = "waiting", Answered(c)',
               NEW i \in 1..Len(wire')
        PROVE  wire'[i].n > call[c].n
    <3>1. call'[c] # call[c]
      BY <2>3 DEF Answered
    <3>2. Waits(c, wire[1])
      BY <2>1, <3>1 DEF Replies
    <3>3. Len(wire) \in Nat /\ Len(wire) > 0 /\ Len(wire') = Len(wire) - 1
      BY <2>1 DEF Replies, ProxyInv, TypeOK
    <3>4. /\ 1 \in 1..Len(wire) /\ i + 1 \in 1..Len(wire) /\ 1 < i + 1 /\ wire'[i] = wire[i + 1]
      BY <2>1, <2>3, <3>3 DEF Replies
    <3>5. wire[1].n < wire[i + 1].n /\ wire[1].n \in Nat /\ wire[i + 1].n \in Nat
      BY <3>4 DEF ProxyInv, TypeOK, InOrder
    <3> QED
      BY <3>2, <3>4, <3>5 DEF Waits
  <2> QED
    BY <2>2, <2>3 DEF KeepsOrder
<1>5. CASE Breaks
  BY <1>1, <1>5, BreaksIs DEF KeepsOrder, Answered
<1>6. CASE Reset \/ Reconnects
  BY <1>1, <1>6 DEF Reset, Reconnects, KeepsOrder, Answered
<1> QED
  BY <1>2, <1>3, <1>4, <1>5, <1>6 DEF ProxyNext

LEMMA ClientsKeepOrder ==
  ASSUME ProxyInv, Next
  PROVE  KeepsOrder
<1>1. {"check", "admin", "get", "fill", "inv"} \subseteq Client
      /\ {"get", "set", "setex", "del", "keys"} \subseteq NonCritical
  BY ClientsAssumption DEF NonCritical
<1>2. ASSUME NEW c \in {"check", "admin", "get", "fill", "inv"},
             NEW op \in {"get", "set", "setex", "del", "keys"}, NEW key, NEW val,
             Fire(c, op, key, val), UNCHANGED <<store, done, up>>
      PROVE  KeepsOrder
  BY <1>1, <1>2, CallsKeepOrder
<1>3. ASSUME NEW c \in {"check", "admin", "get", "fill", "inv"}, Return(c) \/ UNCHANGED call,
             UNCHANGED done
      PROVE  KeepsOrder
  BY <1>1, <1>3, ReturnsKeepOrder
<1>4. CASE FlagNext
  <2> USE DEF reads, Ask, Ends
  <2>1. CASE IsEnabled \/ GetAllFlags
    BY <1>2, <2>1 DEF IsEnabled, GetAllFlags
  <2>2. CASE GlobalRead \/ UserRead
    BY <1>2, <1>3, <2>2 DEF GlobalRead, UserRead
  <2>3. CASE RolloutRead \/ ValueRead \/ Changed
    BY <1>3, <2>3 DEF RolloutRead, ValueRead, Changed
  <2>4. CASE FlagsListed
    BY <1>2, <1>3, <2>4 DEF FlagsListed
  <2>5. CASE \E key, val : Change(key, val)
    BY <1>2, <2>5 DEF Change
  <2> QED
    BY <1>4, <2>1, <2>2, <2>3, <2>4, <2>5
    DEF FlagNext, Enable, Disable, EnableForUser, SetRolloutPercentage
<1>5. CASE CacheNext
  <2>1. CASE Request \/ Update
    BY <1>2, <2>1 DEF Request, Update
  <2>2. CASE Lookup \/ Filled \/ Deleted \/ Handle \/ Expire
    BY <1>3, <2>2 DEF Lookup, Filled, Deleted, Handle, Expire, proxy
  <2>3. CASE Json \/ Matched
    BY <1>2, <1>3, <2>3 DEF Json, Matched
  <2> QED
    BY <1>5, <2>1, <2>2, <2>3 DEF CacheNext
<1> QED
  BY <1>4, <1>5, ProxyKeepsOrder DEF Next

\* CommandsInOrder: no command overtakes another on its way to Redis, the first time or
\* again, and whoever has a reply knows that all earlier commands are over.
THEOREM CommandsStayInOrder == Spec => CommandsInOrder
<1>1. ProxyInv /\ [Next]_vars => [KeepsOrder]_proxy
  BY ClientsKeepOrder DEF vars
<1> QED
  BY ProxyInvariant, <1>1, PTL DEF Spec, CommandsInOrder

-----------------------------------------------------------------------------
(* What is common to the clients *)

\* The command with the number a call waits for is its own.
LEMMA WaitsForOwn ==
  ASSUME ProxyInv, NEW c \in Client, call[c].at = "waiting",
         NEW i \in 1..Len(wire), wire[i].n = call[c].n
  PROVE  wire[i].by = c /\ Waits(c, wire[i])
<1>1. PICK j \in 1..Len(wire) : wire[j].by = c /\ wire[j].n = call[c].n
  <2>1. PICK j \in 1..Len(wire) : Mine(c) = {j}
    BY DEF ProxyInv, OwnAnswer
  <2> QED
    BY <2>1 DEF Mine
<1>2. i = j
  <2>1. i \in Int /\ j \in Int /\ wire[i].n \in Int /\ wire[j].n \in Int
    BY DEF ProxyInv, TypeOK
  <2>2. ~(wire[i].n < wire[j].n) /\ ~(wire[j].n < wire[i].n)
    BY <1>1, <2>1
  <2> QED
    BY <2>1, <2>2 DEF ProxyInv, InOrder
<1> QED
  BY <1>1, <1>2 DEF Waits

\* A command that is sent now is the last, has not been executed, and nobody else waits for it.
LEMMA SentIsNew ==
  ASSUME ProxyInv, NEW c \in Client, NEW op, NEW key, NEW val, Sends(c, op, key, val), UNCHANGED done
  PROVE  /\ \A i \in 1..Len(wire') :
              \/ i \in 1..Len(wire) /\ wire'[i] = wire[i] /\ wire'[i].n < sent + 1
              \/ /\ i = Len(wire) + 1 /\ ~(i <= done') /\ wire'[i].n = sent + 1 /\ wire'[i].by = c
                 /\ wire'[i].op = op /\ wire'[i].key = key /\ wire'[i].val = val
         /\ \A d \in Client : call[d].n < sent + 1
         /\ call'[c].at = "waiting" /\ call'[c].n = sent + 1
<1>1. /\ Len(wire) \in Nat /\ sent \in Nat /\ done \in 0..Len(wire) /\ Len(wire') = Len(wire) + 1
      /\ \A i \in 1..Len(wire) : wire[i].n \in 1..sent
      /\ \A d \in Client : call[d].n \in 0..sent
  BY DEF ProxyInv, TypeOK, Sends
<1>2. \A i \in 1..Len(wire') : i \in 1..Len(wire) \/ i = Len(wire) + 1
  BY <1>1
<1>3. \A i \in 1..Len(wire) : wire'[i] = wire[i] /\ wire'[i].n < sent + 1
  BY <1>1 DEF Sends
<1>4. \A d \in Client : call[d].n < sent + 1
  BY <1>1
<1>5. ~(Len(wire) + 1 <= done')
  BY <1>1
<1> QED
  BY <1>2, <1>3, <1>4, <1>5 DEF Sends

\* What is left on the wire was there before, one place behind.
LEMMA RepliesShift ==
  ASSUME ProxyInv, Replies
  PROVE  /\ done \in Nat /\ Len(wire) \in Nat /\ 1 \in 1..Len(wire) /\ 1 <= done
         /\ \A i \in 1..Len(wire') :
              /\ i + 1 \in 1..Len(wire) /\ wire'[i] = wire[i + 1] /\ wire[1].n < wire'[i].n
              /\ (i <= done' <=> i + 1 <= done)
<1>1. /\ done \in Nat /\ Len(wire) \in Nat /\ Len(wire) > 0 /\ done > 0 /\ done' = done - 1
      /\ Len(wire') = Len(wire) - 1
  BY DEF ProxyInv, TypeOK, Replies
<1>2. \A i \in 1..Len(wire') : i + 1 \in 1..Len(wire) /\ 1 < i + 1 /\ wire'[i] = wire[i + 1]
  BY <1>1 DEF Replies
<1>3. \A i \in 1..Len(wire') : wire[1].n < wire[i + 1].n
  BY <1>1, <1>2 DEF ProxyInv, InOrder
<1>4. \A i \in 1..Len(wire') : i <= done' <=> i + 1 <= done
  BY <1>1
<1> QED
  BY <1>1, <1>2, <1>3, <1>4

-----------------------------------------------------------------------------
(* The feature flags *)

\* A call that writes no global value, of anybody but the administrator.
LEMMA OthersLeaveOff ==
  ASSUME ProxyInv, KillSwitch, NEW c \in Client, c # "admin", NEW op, NEW key, NEW val,
         Fires(c, op, key, val), key = "global" => op \in {"get", "keys"},
         UNCHANGED <<store, done, turnsOff>>
  PROVE  GlobalWriters' /\ TurningOff' /\ (IsOff => IsOff')
<1>1. call'["admin"] = call["admin"] /\ "admin" \in Client
  BY ClientsAssumption DEF Fires
<1>2. CASE Sends(c, op, key, val)
  <2>1. /\ \A i \in 1..Len(wire') :
              \/ i \in 1..Len(wire) /\ wire'[i] = wire[i] /\ wire'[i].n < sent + 1
              \/ /\ i = Len(wire) + 1 /\ ~(i <= done') /\ wire'[i].n = sent + 1 /\ wire'[i].by = c
                 /\ wire'[i].op = op /\ wire'[i].key = key /\ wire'[i].val = val
         /\ \A d \in Client : call[d].n < sent + 1
    BY <1>2, SentIsNew
  <2>2. call["admin"].n \in Nat /\ sent \in Nat
    BY <1>1 DEF ProxyInv, TypeOK
  <2>3. GlobalWriters' /\ (IsOff => IsOff')
    BY <2>1 DEF KillSwitch, GlobalWriters, IsOff
  <2>4. TurningOff'
    <3>1. CASE call["admin"].at = "waiting"
      BY <1>1, <2>1, <2>2, <3>1 DEF KillSwitch, TurningOff
    <3>2. CASE call["admin"].at # "waiting"
      BY <1>1, <2>3, <3>2 DEF KillSwitch, TurningOff
    <3> QED
      BY <3>1, <3>2
  <2> QED
    BY <2>3, <2>4
<1>3. CASE UNCHANGED wire
  BY <1>1, <1>3 DEF KillSwitch, GlobalWriters, TurningOff, IsOff
<1> QED
  BY <1>2, <1>3 DEF Fires

\* A call of anybody but the evaluation.
LEMMA OthersLeaveReads ==
  ASSUME ProxyInv, KillSwitch, NEW c \in Client, c # "check", NEW op, NEW key, NEW val,
         Fires(c, op, key, val), UNCHANGED <<store, done, flag>>, offSince' => offSince
  PROVE  ReadsOff'
<1>1. call'["check"] = call["check"] /\ "check" \in Client
  BY ClientsAssumption DEF Fires
<1>2. CASE Sends(c, op, key, val)
  <2>1. /\ \A i \in 1..Len(wire') :
              \/ i \in 1..Len(wire) /\ wire'[i] = wire[i]
              \/ wire'[i].n = sent + 1
        /\ call["check"].n < sent + 1
    BY <1>1, <1>2, SentIsNew
  <2>2. call["check"].n \in Nat /\ sent \in Nat
    BY <1>1 DEF ProxyInv, TypeOK
  <2> QED
    BY <1>1, <2>1, <2>2 DEF KillSwitch, ReadsOff
<1>3. CASE UNCHANGED wire
  BY <1>1, <1>3 DEF KillSwitch, ReadsOff
<1> QED
  BY <1>2, <1>3 DEF Fires

\* The evaluation asks for the global value.
LEMMA AsksGlobal ==
  ASSUME ProxyInv, NEW val, Fires("check", "get", "global", val), UNCHANGED <<store, done>>
  PROVE  ReadsOff'
<1>1. "check" \in Client
  BY ClientsAssumption
<1>2. CASE Sends("check", "get", "global", val)
  <2>1. /\ \A i \in 1..Len(wire') :
              \/ i \in 1..Len(wire) /\ wire'[i].n < sent + 1
              \/ ~(i <= done') /\ wire'[i].op = "get" /\ wire'[i].key = "global"
        /\ call'["check"].at = "waiting" /\ call'["check"].n = sent + 1
    BY <1>1, <1>2, SentIsNew
  <2>2. \A i \in 1..Len(wire') : wire'[i].n < sent + 1 => wire'[i].n # sent + 1
    <3>1. sent \in Nat /\ \A i \in 1..Len(wire) : wire[i].n \in Nat /\ wire'[i] = wire[i]
      BY <1>2 DEF ProxyInv, TypeOK, Sends
    <3>2. \A i \in 1..Len(wire') : i \in 1..Len(wire) \/ wire'[i].n = sent + 1
      BY <1>1, <1>2, SentIsNew
    <3> QED
      BY <3>1, <3>2
  <2> QED
    BY <2>1, <2>2 DEF ReadsOff
<1>3. CASE call'["check"] = [at |-> "answered", n |-> 0, v |-> null, failed |-> TRUE]
  BY <1>3 DEF ReadsOff
<1> QED
  BY <1>2, <1>3 DEF Fires

\* The return of a call of anybody but the administrator.
LEMMA ReturnsLeaveOff ==
  ASSUME ProxyInv, KillSwitch, NEW c \in Client, c # "admin", Return(c),
         UNCHANGED <<store, wire, done, turnsOff>>
  PROVE  /\ GlobalWriters' /\ TurningOff' /\ (IsOff => IsOff')
         /\ c # "check" /\ UNCHANGED flag /\ (offSince' => offSince) => ReadsOff'
         /\ flag' \notin {"global", "value"} => ReadsOff'
<1>1. /\ \A d \in Client \ {c} : call'[d] = call[d]
      /\ "admin" \in Client /\ "check" \in Client
  BY ClientsAssumption DEF Return, ProxyInv, TypeOK
<1>2. GlobalWriters' /\ (IsOff => IsOff')
  BY DEF KillSwitch, GlobalWriters, IsOff
<1>3. TurningOff'
  BY <1>1, <1>2 DEF KillSwitch, TurningOff
<1>4. c # "check" /\ UNCHANGED flag /\ (offSince' => offSince) => ReadsOff'
  BY <1>1 DEF KillSwitch, ReadsOff
<1>5. flag' \notin {"global", "value"} => ReadsOff'
  BY DEF ReadsOff
<1> QED
  BY <1>2, <1>3, <1>4, <1>5

\* The evaluation starts: what it reads is what the last disable() left, if that worked.
LEMMA StartKeepsOff ==
  ASSUME ProxyInv, KillSwitch, IsEnabled \/ GetAllFlags
  PROVE  KillSwitch'
<1>1. PICK op \in {"get", "keys"}, key \in {"global", "keys"} :
        /\ Fire("check", op, key, null)
        /\ IF IsEnabled THEN op = "get" /\ key = "global" /\ flag' = "global" ELSE flag' = "keys"
  BY DEF IsEnabled, GetAllFlags, Ask
<1>2. /\ offSince' = off /\ UNCHANGED <<store, done, up, turnsOff, off>>
      /\ flag' \in {"global", "keys"}
  BY DEF IsEnabled, GetAllFlags, Ask, reads
<1>3. "check" \in Client /\ op \in NonCritical
  BY ClientsAssumption DEF NonCritical
<1>4. Fires("check", op, key, null)
  BY <1>1, <1>3, FireFires
<1>5. GlobalWriters' /\ TurningOff' /\ (IsOff => IsOff')
  BY <1>2, <1>3, <1>4, OthersLeaveOff
<1>6. ReadsOff'
  <2>1. CASE flag' = "keys"
    BY <2>1 DEF ReadsOff
  <2>2. CASE op = "get" /\ key = "global"
    BY <1>2, <1>4, <2>2, AsksGlobal
  <2> QED
    BY <1>1, <2>1, <2>2
<1> QED
  BY <1>2, <1>5, <1>6 DEF KillSwitch

\* What the evaluation does with the global value.
LEMMA GlobalReadKeepsOff ==
  ASSUME ProxyInv, KillSwitch, GlobalRead
  PROVE  KillSwitch'
<1>1. /\ flag = "global" /\ call["check"].at = "answered" /\ blind' = call["check"].failed
      /\ UNCHANGED <<store, done, turnsOff, off, offSince>>
  BY DEF GlobalRead, reads, Answered
<1>2. "check" \in Client /\ "get" \in NonCritical
  BY ClientsAssumption DEF NonCritical
<1>3. offSince /\ ~blind' => call["check"].v = "false"
  BY <1>1 DEF KillSwitch, ReadsOff
<1>4. CASE flag' \in {"yes", "no"} /\ Return("check") /\ UNCHANGED wire
  <2>1. flag' = "yes" => call["check"].v # "false"
    BY <1>4 DEF GlobalRead, Ends, Ask, Decided
  <2> QED
    BY <1>1, <1>2, <1>3, <1>4, <2>1, ReturnsLeaveOff DEF KillSwitch
<1>5. CASE flag' = "user" /\ Fire("check", "get", "user", null)
  <2>1. call["check"].v # "false"
    BY <1>5 DEF GlobalRead, Ends, Decided
  <2>2. GlobalWriters' /\ TurningOff' /\ (IsOff => IsOff')
    BY <1>1, <1>2, <1>5, FireFires, OthersLeaveOff
  <2>3. ReadsOff'
    BY <1>5 DEF ReadsOff
  <2> QED
    BY <1>1, <1>3, <2>1, <2>2, <2>3 DEF KillSwitch
<1> QED
  BY <1>4, <1>5 DEF GlobalRead, Ends, Ask

LEMMA LaterReadsKeepOff ==
  ASSUME ProxyInv, KillSwitch, UserRead \/ RolloutRead
  PROVE  KillSwitch'
<1>1. /\ flag \in {"user", "rollout"} /\ flag' \in {"yes", "no", "rollout"}
      /\ UNCHANGED <<store, done, turnsOff, off, offSince, blind>>
      /\ (Return("check") /\ UNCHANGED wire) \/ Fire("check", "get", "rollout", null)
  BY DEF UserRead, RolloutRead, reads, Ends, Ask
<1>2. "check" \in Client /\ "get" \in NonCritical
  BY ClientsAssumption DEF NonCritical
<1>3. GlobalWriters' /\ TurningOff' /\ (IsOff => IsOff')
  BY <1>1, <1>2, FireFires, OthersLeaveOff, ReturnsLeaveOff
<1>4. ReadsOff'
  BY <1>1 DEF ReadsOff
<1> QED
  BY <1>1, <1>3, <1>4 DEF KillSwitch

LEMMA ListReadsKeepOff ==
  ASSUME ProxyInv, KillSwitch, FlagsListed \/ ValueRead
  PROVE  KillSwitch'
<1>1. UNCHANGED <<store, done, turnsOff, off, offSince, blind>>
  BY DEF FlagsListed, ValueRead, reads
<1>2. "check" \in Client /\ "get" \in NonCritical
  BY ClientsAssumption DEF NonCritical
<1>3. CASE flag' \in {"yes", "no"} /\ Return("check") /\ UNCHANGED wire
  <2>1. flag' = "yes" => flag = "value" /\ call["check"].at = "answered" /\ call["check"].v = "true"
    BY <1>3 DEF FlagsListed, ValueRead, Ends, Ask, Answered
  <2>2. flag' = "yes" => ~offSince
    BY <1>2, <2>1, ClientsAssumption DEF KillSwitch, ReadsOff, ProxyInv, Degrades
  <2> QED
    BY <1>1, <1>2, <1>3, <2>2, ReturnsLeaveOff DEF KillSwitch
<1>4. CASE flag' = "value" /\ Fire("check", "get", "global", null)
  <2>1. Fires("check", "get", "global", null)
    BY <1>2, <1>4, FireFires
  <2>2. GlobalWriters' /\ TurningOff' /\ (IsOff => IsOff')
    BY <1>1, <1>2, <2>1, OthersLeaveOff
  <2> QED
    BY <1>1, <1>4, <2>1, <2>2, AsksGlobal DEF KillSwitch
<1> QED
  BY <1>3, <1>4 DEF FlagsListed, ValueRead, Ends, Ask

\* A change by the administrator; only one that keeps the flag off leaves it promised.
LEMMA ChangeKeepsOff ==
  ASSUME ProxyInv, KillSwitch, NEW key, NEW val, Change(key, val)
  PROVE  KillSwitch'
<1>1. /\ "admin" \in Client /\ "check" \in Client /\ "set" \in NonCritical
  BY ClientsAssumption DEF NonCritical
<1>2. /\ off' = (off /\ (key # "global" \/ val = "false"))
      /\ offSince' = (offSince /\ (key # "global" \/ val = "false"))
      /\ turnsOff' = IF key = "global" THEN val = "false" ELSE FALSE
      /\ UNCHANGED <<store, done, up, flag, known, blind>>
  BY DEF Change
<1>3. Fires("admin", "set", key, val)
  BY <1>1, FireFires DEF Change
<1>4. ReadsOff'
  BY <1>1, <1>2, <1>3, OthersLeaveReads
<1>5. GlobalWriters' /\ TurningOff' /\ (off' => IsOff')
  <2>1. CASE Sends("admin", "set", key, val)
    <3>1. /\ \A i \in 1..Len(wire') :
              \/ i \in 1..Len(wire) /\ wire'[i] = wire[i] /\ wire'[i].n < sent + 1
              \/ /\ ~(i <= done') /\ wire'[i].n = sent + 1 /\ wire'[i].by = "admin"
                 /\ wire'[i].op = "set" /\ wire'[i].key = key /\ wire'[i].val = val
          /\ call'["admin"].at = "waiting" /\ call'["admin"].n = sent + 1
      BY <1>1, <1>2, <2>1, SentIsNew
    <3>2. GlobalWriters'
      BY <3>1 DEF KillSwitch, GlobalWriters
    <3>3. off' => IsOff'
      BY <1>2, <3>1 DEF KillSwitch, IsOff
    <3>4. \A i \in 1..Len(wire') : wire'[i].n \in Nat /\ sent \in Nat
      BY <1>1, <1>2, <1>3, FiresKeeps DEF ProxyInv, TypeOK
    <3>5. TurningOff'
      <4> SUFFICES ASSUME turnsOff', NEW i \in 1..Len(wire')
                   PROVE  /\ ~(wire'[i].n > call'["admin"].n)
                          /\ wire'[i].n = call'["admin"].n =>
                               /\ wire'[i].op = "set" /\ wire'[i].key = "global" /\ wire'[i].val = "false"
                               /\ ~(i <= done')
        BY <3>1 DEF TurningOff
      <4>1. key = "global" /\ val = "false"
        BY <1>2
      <4>2. wire'[i].n \in Nat /\ sent \in Nat
        BY <3>4
      <4>3. CASE wire'[i].n < sent + 1
        BY <3>1, <4>2, <4>3
      <4>4. CASE /\ ~(i <= done') /\ wire'[i].n = sent + 1
                 /\ wire'[i].op = "set" /\ wire'[i].key = key /\ wire'[i].val = val
        BY <3>1, <4>1, <4>2, <4>4
      <4> QED
        BY <3>1, <4>3, <4>4
    <3> QED
      BY <3>2, <3>3, <3>5
  <2>2. CASE /\ UNCHANGED <<wire, sent>>
             /\ call'["admin"] = [at |-> "answered", n |-> 0, v |-> null, failed |-> TRUE]
    <3>1. call'["admin"].at = "answered" /\ call'["admin"].failed = TRUE
      BY <2>2
    <3> QED
      BY <1>2, <2>2, <3>1 DEF KillSwitch, GlobalWriters, TurningOff, IsOff
  <2> QED
    BY <1>3, <2>1, <2>2 DEF Fires
<1> QED
  BY <1>2, <1>4, <1>5 DEF KillSwitch

LEMMA ChangedKeepsOff ==
  ASSUME ProxyInv, KillSwitch, Changed
  PROVE  KillSwitch'
<1>1. /\ "admin" \in Client /\ "check" \in Client
      /\ call' = [call EXCEPT !["admin"] = Idle] /\ DOMAIN call = Client
      /\ off' = (off \/ (turnsOff /\ ~call["admin"].failed)) /\ turnsOff' = FALSE
      /\ call["admin"].at = "answered"
      /\ UNCHANGED <<store, wire, done, flag, blind, offSince>>
  BY ClientsAssumption DEF Changed, Return, Answered, ProxyInv, TypeOK
<1>2. off' => IsOff'
  BY <1>1 DEF KillSwitch, TurningOff, IsOff
<1>3. call'["check"] = call["check"]
  BY <1>1
<1>4. ReadsOff' /\ GlobalWriters' /\ TurningOff'
  BY <1>1, <1>3 DEF KillSwitch, ReadsOff, GlobalWriters, TurningOff
<1> QED
  BY <1>1, <1>2, <1>4 DEF KillSwitch

-----------------------------------------------------------------------------
\* What Redis executes leaves a flag off that is.
LEMMA ExecuteKeepsOff ==
  ASSUME ProxyInv, KillSwitch, Execute, UNCHANGED flagVars
  PROVE  KillSwitch'
<1> DEFINE k == done + 1
           cmd == wire[k]
<1>1. Kept /\ Executes /\ k \in 1..Len(wire) /\ done \in Nat /\ Len(wire) \in Nat
  BY ExecuteIs DEF ProxyInv, TypeOK
<1>2. /\ done' = k /\ UNCHANGED <<call, flag, blind, turnsOff, off, offSince>>
      /\ \A i \in 1..Len(wire) : i # k => wire'[i] = wire[i]
      /\ Len(wire') = Len(wire)
      /\ \A i \in 1..Len(wire) :
           /\ wire'[i].n = wire[i].n /\ wire'[i].by = wire[i].by /\ wire'[i].op = wire[i].op
           /\ wire'[i].key = wire[i].key /\ wire'[i].val = wire[i].val
      /\ \A i \in 1..Len(wire) : i <= k <=> i <= done \/ i = k
  BY <1>1 DEF Executes, Kept, flagVars
<1>3. "admin" \in Client /\ "check" \in Client /\ "global" \in Key /\ DOMAIN store = Key
  BY ClientsAssumption DEF ProxyInv, TypeOK
<1>4. \/ store' = Effect(cmd) /\ ~wire'[k].refused
         /\ (Waits(cmd.by, cmd) => wire'[k].result = Result(cmd))
      \/ store' = store /\ (Waits(cmd.by, cmd) => wire'[k].refused)
  BY <1>1 DEF Executes
<1>5. Effect(cmd)["global"] = IF cmd.op = "set" /\ cmd.key = "global" THEN cmd.val ELSE store["global"]
  <2>1. cmd.key = "global" => cmd.op \in {"get", "keys", "set"}
    BY <1>1 DEF KillSwitch, GlobalWriters
  <2> QED
    BY <1>3, <2>1 DEF Effect
<1>6. GlobalWriters'
  BY <1>2 DEF KillSwitch, GlobalWriters
<1>7. IsOff => IsOff'
  <2>1. IsOff => store'["global"] = "false"
    BY <1>1, <1>4, <1>5 DEF IsOff
  <2> QED
    BY <1>2, <2>1 DEF IsOff
<1>8. TurningOff'
  <2>1. CASE turnsOff /\ call["admin"].at = "waiting"
    <3> SUFFICES ASSUME NEW i \in 1..Len(wire), wire[i].n = call["admin"].n,
                        i <= k, ~wire'[i].refused
                 PROVE  store'["global"] = "false"
      BY <1>2, <2>1 DEF KillSwitch, TurningOff
    <3>1. wire[i].op = "set" /\ wire[i].key = "global" /\ wire[i].val = "false"
      BY <2>1 DEF KillSwitch, TurningOff
    <3>2. CASE i = k
      <4>1. Waits(cmd.by, cmd)
        BY <1>3, <2>1, <3>2, WaitsForOwn
      <4> QED
        BY <1>4, <1>5, <3>1, <3>2, <4>1
    <3>3. CASE i # k
      <4>1. i <= done /\ ~wire[i].refused /\ i < k
        BY <1>1, <1>2, <3>3
      <4>2. store["global"] = "false"
        BY <2>1, <4>1 DEF KillSwitch, TurningOff
      <4>3. wire[i].n < cmd.n
        BY <1>1, <4>1 DEF ProxyInv, InOrder
      <4>4. cmd.n > call["admin"].n
        BY <1>1, <4>3 DEF ProxyInv, TypeOK
      <4>5. cmd.by # "admin"
        BY <1>1, <2>1, <4>4 DEF KillSwitch, TurningOff
      <4>6. ~(cmd.op = "set" /\ cmd.key = "global")
        BY <1>1, <4>5 DEF KillSwitch, GlobalWriters
      <4> QED
        BY <1>4, <1>5, <4>2, <4>6
    <3> QED
      BY <3>2, <3>3
  <2>2. CASE ~(turnsOff /\ call["admin"].at = "waiting")
    BY <1>2, <1>7, <2>2 DEF KillSwitch, TurningOff
  <2> QED
    BY <2>1, <2>2
<1>9. ReadsOff'
  <2>1. CASE offSince /\ flag \in {"global", "value"} /\ call["check"].at = "waiting"
    <3> SUFFICES ASSUME NEW i \in 1..Len(wire), wire[i].n = call["check"].n
                 PROVE  /\ wire[i].op = "get" /\ wire[i].key = "global"
                        /\ i <= k /\ ~wire'[i].refused => wire'[i].result = "false"
      BY <1>2, <2>1 DEF ReadsOff
    <3>1. wire[i].op = "get" /\ wire[i].key = "global"
      BY <2>1 DEF KillSwitch, ReadsOff
    <3>2. CASE i = k
      <4>1. Waits(cmd.by, cmd)
        BY <1>3, <2>1, <3>2, WaitsForOwn
      <4>2. Result(cmd) = "false"
        BY <2>1, <3>1, <3>2 DEF Result, KillSwitch, IsOff
      <4> QED
        BY <1>4, <3>1, <3>2, <4>1, <4>2
    <3>3. CASE i # k
      BY <1>2, <2>1, <3>1, <3>3 DEF KillSwitch, ReadsOff
    <3> QED
      BY <3>2, <3>3
  <2>2. CASE ~(offSince /\ flag \in {"global", "value"} /\ call["check"].at = "waiting")
    BY <1>2, <2>2 DEF KillSwitch, ReadsOff
  <2> QED
    BY <2>1, <2>2
<1> QED
  BY <1>2, <1>6, <1>7, <1>8, <1>9 DEF KillSwitch

\* What is replied leaves a flag off that is, and tells of a disable() that it worked only
\* when it is off.
LEMMA ReplyKeepsOff ==
  ASSUME ProxyInv, KillSwitch, Reply, UNCHANGED flagVars
  PROVE  KillSwitch'
<1> DEFINE cmd == wire[1]
<1>1. Replies
  BY ReplyIs
<1>2. /\ done \in Nat /\ Len(wire) \in Nat /\ 1 \in 1..Len(wire) /\ 1 <= done
      /\ \A i \in 1..Len(wire') :
           /\ i + 1 \in 1..Len(wire) /\ wire'[i] = wire[i + 1] /\ cmd.n < wire'[i].n
           /\ (i <= done' <=> i + 1 <= done)
  BY <1>1, RepliesShift
<1>3. UNCHANGED <<store, flag, blind, turnsOff, off, offSince>>
  BY <1>1 DEF Replies, flagVars
<1>4. "admin" \in Client /\ "check" \in Client
  BY ClientsAssumption
<1>5. GlobalWriters' /\ (IsOff => IsOff')
  BY <1>2, <1>3 DEF KillSwitch, GlobalWriters, IsOff
<1>6. TurningOff'
  <2>1. CASE Waits("admin", cmd)
    <3>1. /\ call["admin"].at = "waiting" /\ cmd.n = call["admin"].n
          /\ cmd.by = "admin" /\ cmd.refused \in BOOLEAN
      BY <1>2, <1>4, <2>1, WaitsForOwn DEF Waits, ProxyInv, TypeOK
    <3>2. call'["admin"].at = "answered" /\ (~call'["admin"].failed => ~cmd.refused)
      BY <1>1, <2>1, <3>1 DEF Replies
    <3>3. turnsOff /\ ~cmd.refused => IsOff'
      <4> SUFFICES ASSUME turnsOff, ~cmd.refused PROVE IsOff'
        OBVIOUS
      <4>1. store["global"] = "false"
        BY <1>2, <3>1 DEF KillSwitch, TurningOff
      <4>2. ASSUME NEW i \in 1..Len(wire')
            PROVE  ~(wire'[i].key = "global" /\ wire'[i].op = "set")
        <5>1. wire[i + 1].n \in Nat /\ cmd.n \in Nat
          BY <1>2 DEF ProxyInv, TypeOK
        <5>2. wire[i + 1].n > call["admin"].n
          BY <1>2, <3>1, <5>1
        <5>3. wire[i + 1].by # "admin"
          BY <1>2, <3>1, <5>2 DEF KillSwitch, TurningOff
        <5> QED
          BY <1>2, <5>3 DEF KillSwitch, GlobalWriters
      <4> QED
        BY <1>3, <4>1, <4>2 DEF IsOff
    <3> QED
      BY <1>3, <3>2, <3>3 DEF TurningOff
  <2>2. CASE ~Waits("admin", cmd)
    <3>1. call'["admin"] = call["admin"]
      BY <1>1, <1>4, <2>2 DEF Replies
    <3> QED
      BY <1>2, <1>3, <1>5, <3>1 DEF KillSwitch, TurningOff
  <2> QED
    BY <2>1, <2>2
<1>7. ReadsOff'
  <2>1. CASE Waits("check", cmd)
    <3>1. /\ call["check"].at = "waiting" /\ cmd.n = call["check"].n
          /\ cmd.by = "check" /\ cmd.refused \in BOOLEAN
      BY <1>2, <1>4, <2>1, WaitsForOwn DEF Waits, ProxyInv, TypeOK
    <3>2. /\ call'["check"].at = "answered"
          /\ ~call'["check"].failed => ~cmd.refused /\ call'["check"].v = cmd.result
      BY <1>1, <2>1, <3>1 DEF Replies
    <3>3. offSince /\ flag \in {"global", "value"} /\ ~cmd.refused => cmd.result = "false"
      BY <1>2, <3>1 DEF KillSwitch, ReadsOff
    <3> QED
      BY <1>3, <3>2, <3>3 DEF ReadsOff
  <2>2. CASE ~Waits("check", cmd)
    <3>1. call'["check"] = call["check"]
      BY <1>1, <1>4, <2>2 DEF Replies
    <3> QED
      BY <1>2, <1>3, <3>1 DEF KillSwitch, ReadsOff
  <2> QED
    BY <2>1, <2>2
<1> QED
  BY <1>3, <1>5, <1>6, <1>7 DEF KillSwitch

\* After a break everything is executed again, and a timeout takes nothing back.
LEMMA ProxyKeepsOff ==
  ASSUME ProxyInv, KillSwitch, ProxyNext, UNCHANGED flagVars
  PROVE  KillSwitch'
<1>1. UNCHANGED <<flag, blind, turnsOff, off, offSince>>
  BY DEF flagVars
<1>2. CASE Breaks
  <2>1. Kept /\ done' = 0 /\ UNCHANGED <<store, call>>
    BY <1>2, BreaksIs
  <2>2. GlobalWriters' /\ (IsOff => IsOff')
    BY <2>1 DEF KillSwitch, GlobalWriters, IsOff, Kept
  <2>3. \A i \in 1..Len(wire') : ~(i <= done')
    BY <2>1
  <2>4. TurningOff' /\ ReadsOff'
    BY <1>1, <2>1, <2>2, <2>3 DEF KillSwitch, TurningOff, ReadsOff, Kept
  <2> QED
    BY <1>1, <2>2, <2>4 DEF KillSwitch
<1>3. ASSUME NEW c \in Client, TimesOut(c) PROVE KillSwitch'
  <2>1. /\ \A d \in Client \ {c} : call'[d] = call[d]
        /\ call'[c].at = "answered" /\ call'[c].failed = TRUE
        /\ UNCHANGED <<store, wire, done>>
    <3>1. TimedOut(c)
      BY <1>3, TimesOutIs
    <3>2. call'[c] = [at |-> "answered", n |-> call[c].n, v |-> null, failed |-> TRUE]
      BY <3>1 DEF TimedOut
    <3> QED
      BY <3>1, <3>2 DEF TimedOut
  <2>2. GlobalWriters' /\ (IsOff => IsOff')
    BY <2>1 DEF KillSwitch, GlobalWriters, IsOff
  <2>3. \A d \in Client : call'[d] = call[d] \/ (call'[d].at = "answered" /\ call'[d].failed)
    BY <2>1
  <2>4. TurningOff'
    BY <1>1, <2>1, <2>2, <2>3, ClientsAssumption DEF KillSwitch, TurningOff
  <2>5. ReadsOff'
    BY <1>1, <2>1, <2>3, ClientsAssumption DEF KillSwitch, ReadsOff
  <2> QED
    BY <1>1, <2>2, <2>4, <2>5 DEF KillSwitch
<1>4. CASE Reset \/ Reconnects
  BY <1>1, <1>4
  DEF Reset, Reconnects, KillSwitch, GlobalWriters, IsOff, TurningOff, ReadsOff
<1> QED
  BY <1>2, <1>3, <1>4, ExecuteKeepsOff, ReplyKeepsOff DEF ProxyNext

\* The response cache, and keys that expire, are none of the flags'.
LEMMA CacheKeepsOff ==
  ASSUME ProxyInv, KillSwitch, CacheNext, UNCHANGED flagVars
  PROVE  KillSwitch'
<1>1. UNCHANGED <<flag, blind, turnsOff, off, offSince>>
  BY DEF flagVars
<1>2. {"get", "fill", "inv"} \subseteq Client \ {"check", "admin"}
      /\ {"get", "setex", "del", "keys"} \subseteq NonCritical
  BY ClientsAssumption DEF NonCritical
<1>3. ASSUME NEW c \in {"get", "fill", "inv"}, NEW op \in {"get", "setex", "del", "keys"}, NEW val,
             Fire(c, op, "page", val), UNCHANGED <<store, done, up>>
      PROVE  KillSwitch'
  <2>1. Fires(c, op, "page", val)
    BY <1>2, <1>3, FireFires
  <2>2. GlobalWriters' /\ TurningOff' /\ (IsOff => IsOff')
    BY <1>1, <1>2, <1>3, <2>1, OthersLeaveOff
  <2>3. ReadsOff'
    BY <1>1, <1>2, <1>3, <2>1, OthersLeaveReads
  <2> QED
    BY <1>1, <2>2, <2>3 DEF KillSwitch
<1>4. ASSUME NEW c \in {"get", "fill", "inv"}, Return(c), UNCHANGED <<store, wire, done>>
      PROVE  KillSwitch'
  BY <1>1, <1>2, <1>4, ReturnsLeaveOff DEF KillSwitch
<1>5. ASSUME UNCHANGED <<wire, done, call>>, store'["global"] = store["global"] PROVE KillSwitch'
  BY <1>1, <1>5 DEF KillSwitch, GlobalWriters, IsOff, TurningOff, ReadsOff
<1>6. CASE Request \/ Update
  BY <1>3, <1>6 DEF Request, Update
<1>7. CASE Lookup \/ Filled \/ Deleted
  BY <1>4, <1>7 DEF Lookup, Filled, Deleted
<1>8. CASE Json \/ Handle
  BY <1>3, <1>5, <1>8 DEF Json, Handle, proxy
<1>9. CASE Matched
  BY <1>3, <1>4, <1>9 DEF Matched, Deletes
<1>10. CASE Expire
  <2>1. store'["global"] = store["global"] /\ UNCHANGED <<wire, done, call>>
    BY <1>10, ClientsAssumption DEF Expire, ProxyInv, TypeOK
  <2> QED
    BY <1>5, <2>1
<1> QED
  BY <1>6, <1>7, <1>8, <1>9, <1>10 DEF CacheNext

\* KillSwitch: once disable() worked and until the next change no evaluation answers yes,
\* whatever is in flight, sent again or timed out, and whatever else is stored for the
\* user; unless the read of the global value failed (FeatureFlagService).
THEOREM DisabledIsOff == Spec => []KillSwitch
<1>1. Init => KillSwitch
  <2> SUFFICES ASSUME Init PROVE KillSwitch
    OBVIOUS
  <2>1. flag = "idle" /\ turnsOff = FALSE /\ off = FALSE /\ offSince = FALSE /\ 1..Len(wire) = {}
    <3>1. wire = <<>>
      BY DEF Init, ProxyInit
    <3>2. Len(<<>>) = 0 /\ 1..0 = {}
      BY EmptySeq
    <3> QED
      BY <3>1, <3>2 DEF Init, FlagInit
  <2> QED
    BY <2>1 DEF KillSwitch, GlobalWriters, TurningOff, ReadsOff
<1>2. ProxyInv /\ KillSwitch /\ [Next]_vars => KillSwitch'
  <2> SUFFICES ASSUME ProxyInv, KillSwitch, [Next]_vars PROVE KillSwitch'
    OBVIOUS
  <2>1. CASE UNCHANGED vars
    BY <2>1 DEF vars, proxy, flagVars, KillSwitch, GlobalWriters, IsOff, TurningOff, ReadsOff
  <2>2. CASE FlagNext
    BY <2>2, StartKeepsOff, GlobalReadKeepsOff, LaterReadsKeepOff, ListReadsKeepOff, ChangeKeepsOff,
       ChangedKeepsOff
    DEF FlagNext, Enable, Disable, EnableForUser, SetRolloutPercentage
  <2> QED
    BY <2>1, <2>2, ProxyKeepsOff, CacheKeepsOff DEF Next
<1> QED
  BY ProxyInvariant, <1>1, <1>2, PTL DEF Spec

-----------------------------------------------------------------------------
(* The response cache *)

\* A call that writes no page but the content as it is.
LEMMA SendsLeavePage ==
  ASSUME ProxyInv, FreshHit, NEW c \in Client, NEW op, NEW key, NEW val, Fires(c, op, key, val),
         op = "set" => key # "page", op = "setex" /\ ~raced => val = source,
         UNCHANGED <<done, source, raced>>
  PROVE  /\ PageWriters'
         /\ ~raced => \A i \in 1..Len(wire') : wire'[i].op = "setex" => wire'[i].val = source
<1>1. CASE Sends(c, op, key, val)
  <2>1. \A i \in 1..Len(wire') :
          \/ i \in 1..Len(wire) /\ wire'[i] = wire[i]
          \/ wire'[i].op = op /\ wire'[i].key = key /\ wire'[i].val = val
    BY <1>1, SentIsNew
  <2> QED
    BY <2>1 DEF FreshHit, PageWriters, FillsFresh
<1>2. CASE UNCHANGED wire
  BY <1>2 DEF FreshHit, PageWriters, FillsFresh
<1> QED
  BY <1>1, <1>2 DEF Fires

\* A call of anybody but the invalidation, or but the request.
LEMMA OthersLeaveInvalidation ==
  ASSUME ProxyInv, FreshHit, NEW c \in Client, c # "inv", NEW op, NEW key, NEW val,
         Fires(c, op, key, val), UNCHANGED <<store, done, source, inv, raced>>
  PROVE  Invalidates'
<1>1. call'["inv"] = call["inv"] /\ "inv" \in Client
  BY ClientsAssumption DEF Fires
<1>2. Fresh' = Fresh
  BY DEF Fresh
<1>3. CASE Sends(c, op, key, val)
  <2>1. /\ \A i \in 1..Len(wire') :
              \/ i \in 1..Len(wire) /\ wire'[i] = wire[i]
              \/ wire'[i].n = sent + 1
        /\ call["inv"].n < sent + 1
    BY <1>1, <1>3, SentIsNew
  <2>2. call["inv"].n \in Nat /\ sent \in Nat
    BY <1>1 DEF ProxyInv, TypeOK
  <2> QED
    BY <1>1, <1>2, <2>1, <2>2 DEF FreshHit, Invalidates
<1>4. CASE UNCHANGED wire
  BY <1>1, <1>2, <1>4 DEF FreshHit, Invalidates
<1> QED
  BY <1>3, <1>4 DEF Fires

LEMMA OthersLeaveRequest ==
  ASSUME ProxyInv, FreshHit, NEW c \in Client, c # "get", NEW op, NEW key, NEW val,
         Fires(c, op, key, val), UNCHANGED <<done, source>>,
         get' = "lookup" => get = "lookup", cleanSince' => cleanSince
  PROVE  ReadsFresh'
<1>1. call'["get"] = call["get"] /\ "get" \in Client
  BY ClientsAssumption DEF Fires
<1>2. CASE Sends(c, op, key, val)
  <2>1. /\ \A i \in 1..Len(wire') :
              \/ i \in 1..Len(wire) /\ wire'[i] = wire[i]
              \/ wire'[i].n = sent + 1
        /\ call["get"].n < sent + 1
    BY <1>1, <1>2, SentIsNew
  <2>2. call["get"].n \in Nat /\ sent \in Nat
    BY <1>1 DEF ProxyInv, TypeOK
  <2> QED
    BY <1>1, <2>1, <2>2 DEF FreshHit, ReadsFresh
<1>3. CASE UNCHANGED wire
  BY <1>1, <1>3 DEF FreshHit, ReadsFresh
<1> QED
  BY <1>2, <1>3 DEF Fires

\* A call that is made now has been answered nothing yet, or null.
LEMMA CallIsUnanswered ==
  ASSUME ProxyInv, NEW c \in Client, NEW op, NEW key, NEW val, Fires(c, op, key, val), UNCHANGED done
  PROVE  /\ call'[c].at = "waiting" =>
              \A i \in 1..Len(wire') : wire'[i].n = call'[c].n =>
                wire'[i].op = op /\ wire'[i].key = key /\ ~(i <= done')
         /\ call'[c].at = "answered" => call'[c].v = null /\ call'[c].failed = TRUE
<1>1. CASE Sends(c, op, key, val)
  <2>1. /\ \A i \in 1..Len(wire') :
              \/ i \in 1..Len(wire) /\ wire'[i] = wire[i] /\ wire'[i].n < sent + 1
              \/ wire'[i].op = op /\ wire'[i].key = key /\ ~(i <= done')
        /\ call'[c].at = "waiting" /\ call'[c].n = sent + 1
    BY <1>1, SentIsNew
  <2>2. sent \in Nat /\ \A i \in 1..Len(wire) : wire[i].n \in Nat
    BY DEF ProxyInv, TypeOK
  <2>3. \A i \in 1..Len(wire') :
          i \in 1..Len(wire) /\ wire'[i] = wire[i] /\ wire'[i].n < sent + 1 => wire'[i].n # sent + 1
    BY <2>2
  <2> QED
    BY <2>1, <2>3
<1>2. CASE call'[c] = [at |-> "answered", n |-> 0, v |-> null, failed |-> TRUE]
  <2>1. call'[c].at = "answered" /\ call'[c].v = null /\ call'[c].failed = TRUE
    BY <1>2
  <2> QED
    BY <2>1
<1> QED
  BY <1>1, <1>2 DEF Fires

\* The return of a call.
LEMMA ReturnsLeaveFresh ==
  ASSUME ProxyInv, FreshHit, NEW c \in Client, Return(c),
         UNCHANGED <<store, wire, done, source, raced>>
  PROVE  /\ PageWriters' /\ Fresh' = Fresh
         /\ ~raced => \A i \in 1..Len(wire') : wire'[i].op = "setex" => wire'[i].val = source
         /\ (c # "inv" /\ UNCHANGED inv) \/ inv' \notin {"keys", "del"} => Invalidates'
         /\ (c # "get" /\ UNCHANGED <<get, cleanSince>>) \/ get' # "lookup" => ReadsFresh'
<1>1. /\ \A d \in Client \ {c} : call'[d] = call[d]
      /\ "inv" \in Client /\ "get" \in Client
  BY ClientsAssumption DEF Return, ProxyInv, TypeOK
<1>2. PageWriters' /\ Fresh' = Fresh
  BY DEF FreshHit, PageWriters, Fresh
<1>3. ~raced => \A i \in 1..Len(wire') : wire'[i].op = "setex" => wire'[i].val = source
  BY DEF FreshHit, FillsFresh
<1>4. c # "inv" /\ UNCHANGED inv => Invalidates'
  BY <1>1, <1>2 DEF FreshHit, Invalidates
<1>5. inv' \notin {"keys", "del"} => Invalidates'
  BY DEF Invalidates
<1>6. c # "get" /\ UNCHANGED <<get, cleanSince>> => ReadsFresh'
  BY <1>1 DEF FreshHit, ReadsFresh
<1>7. get' # "lookup" => ReadsFresh'
  BY DEF ReadsFresh
<1> QED
  BY <1>2, <1>3, <1>4, <1>5, <1>6, <1>7

\* A request: what it reads is what the last invalidation left, if that worked.
LEMMA RequestKeepsFresh ==
  ASSUME ProxyInv, FreshHit, Request
  PROVE  FreshHit'
<1>1. /\ get' = "lookup" /\ cleanSince' = clean
      /\ UNCHANGED <<store, done, up, source, body, inv, raced, clean>>
  BY DEF Request
<1>2. "get" \in Client /\ "get" \in NonCritical
  BY ClientsAssumption DEF NonCritical
<1>3. Fires("get", "get", "page", null)
  BY <1>2, FireFires DEF Request
<1>4. PageWriters' /\ (~raced => FillsFresh')
  BY <1>1, <1>2, <1>3, SendsLeavePage DEF FillsFresh
<1>5. Invalidates'
  BY <1>1, <1>2, <1>3, OthersLeaveInvalidation
<1>6. /\ call'["get"].at = "waiting" =>
           \A i \in 1..Len(wire') : wire'[i].n = call'["get"].n =>
             wire'[i].op = "get" /\ wire'[i].key = "page" /\ ~(i <= done')
      /\ call'["get"].at = "answered" => call'["get"].v = null
  BY <1>1, <1>2, <1>3, CallIsUnanswered
<1>7. ReadsFresh' /\ Fresh' = Fresh
  BY <1>1, <1>6 DEF ReadsFresh, Fresh
<1> QED
  BY <1>1, <1>4, <1>5, <1>7 DEF FreshHit

LEMMA LookupKeepsFresh ==
  ASSUME ProxyInv, FreshHit, Lookup
  PROVE  FreshHit'
<1>1. /\ get = "lookup" /\ call["get"].at = "answered" /\ Return("get") /\ get' \in {"handler", "hit"}
      /\ get' = "hit" => call["get"].v # null /\ body' = call["get"].v
      /\ UNCHANGED <<store, wire, done, source, inv, raced, clean, cleanSince>>
  BY DEF Lookup, Answered
<1>2. PageWriters' /\ Fresh' = Fresh /\ Invalidates' /\ ReadsFresh' /\ (~raced => FillsFresh')
  BY <1>1, ReturnsLeaveFresh, ClientsAssumption DEF FillsFresh
<1>3. get' = "hit" /\ cleanSince => body' = source
  BY <1>1 DEF FreshHit, ReadsFresh
<1> QED
  BY <1>1, <1>2, <1>3 DEF FreshHit

\* The handler computes the content as it is, and res.json stores what it computed.
LEMMA HandleKeepsFresh ==
  ASSUME ProxyInv, FreshHit, Handle
  PROVE  FreshHit'
  BY DEF Handle, proxy, FreshHit, FillsFresh, PageWriters, Fresh, Invalidates, ReadsFresh

LEMMA JsonKeepsFresh ==
  ASSUME ProxyInv, FreshHit, Json
  PROVE  FreshHit'
<1>1. /\ get = "computed" /\ get' = "miss"
      /\ UNCHANGED <<store, done, up, source, body, inv, raced, clean, cleanSince>>
  BY DEF Json
<1>2. "fill" \in Client /\ "setex" \in NonCritical /\ Fresh' = Fresh
  BY <1>1, ClientsAssumption DEF NonCritical, Fresh
<1>3. CASE Fire("fill", "setex", "page", body)
  <2>1. Fires("fill", "setex", "page", body)
    BY <1>2, <1>3, FireFires
  <2>2. ~raced => body = source
    BY <1>1 DEF FreshHit, FillsFresh
  <2>3. PageWriters' /\ (~raced => FillsFresh')
    BY <1>1, <1>2, <2>1, <2>2, SendsLeavePage DEF FillsFresh
  <2>4. Invalidates' /\ ReadsFresh'
    BY <1>1, <1>2, <2>1, OthersLeaveInvalidation, OthersLeaveRequest
  <2> QED
    BY <1>1, <1>2, <2>3, <2>4 DEF FreshHit
<1>4. CASE UNCHANGED <<wire, breaker, call, sent>>
  BY <1>1, <1>2, <1>4 DEF FreshHit, FillsFresh, PageWriters, Invalidates, ReadsFresh
<1> QED
  BY <1>3, <1>4 DEF Json

\* A change, after which only an invalidation without a race promises anything.
LEMMA UpdateKeepsFresh ==
  ASSUME ProxyInv, FreshHit, Update
  PROVE  FreshHit'
<1>1. /\ raced' = Filling /\ inv' = "keys" /\ clean' = FALSE /\ cleanSince' = FALSE
      /\ UNCHANGED <<store, done, up, get, body>>
  BY DEF Update
<1>2. "inv" \in Client /\ "keys" \in NonCritical
  BY ClientsAssumption DEF NonCritical
<1>3. Fires("inv", "keys", "page", null)
  BY <1>2, FireFires DEF Update
<1>4. ~raced' => get # "computed" /\ \A i \in 1..Len(wire) : wire[i].op # "setex"
  <2>1. DOMAIN wire = 1..Len(wire)
    BY DEF ProxyInv, TypeOK
  <2> QED
    BY <1>1, <2>1 DEF Filling
<1>5. PageWriters' /\ (~raced' => FillsFresh')
  <2>1. CASE Sends("inv", "keys", "page", null)
    <3>1. \A i \in 1..Len(wire') :
            \/ i \in 1..Len(wire) /\ wire'[i] = wire[i]
            \/ wire'[i].op = "keys"
      BY <1>1, <1>2, <2>1, SentIsNew
    <3> QED
      BY <1>1, <1>4, <3>1 DEF FreshHit, FillsFresh, PageWriters
  <2>2. CASE UNCHANGED wire
    BY <1>1, <1>4, <2>2 DEF FreshHit, FillsFresh, PageWriters
  <2> QED
    BY <1>3, <2>1, <2>2 DEF Fires
<1>6. Invalidates'
  <2>1. /\ call'["inv"].at = "waiting" =>
             \A i \in 1..Len(wire') : wire'[i].n = call'["inv"].n =>
               wire'[i].op = "keys" /\ wire'[i].key = "page" /\ ~(i <= done')
        /\ call'["inv"].at = "answered" => call'["inv"].v = null
    BY <1>1, <1>2, <1>3, CallIsUnanswered
  <2> QED
    BY <1>1, <2>1, ClientsAssumption DEF Invalidates
<1>7. ReadsFresh'
  BY <1>1 DEF ReadsFresh
<1> QED
  BY <1>1, <1>5, <1>6, <1>7 DEF FreshHit

\* The invalidation: no key was there, or they are deleted.
LEMMA MatchedKeepsFresh ==
  ASSUME ProxyInv, FreshHit, Matched
  PROVE  FreshHit'
<1>1. /\ inv = "keys" /\ call["inv"].at = "answered"
      /\ UNCHANGED <<store, done, up, source, get, body, raced, cleanSince>>
  BY DEF Matched, Answered
<1>2. "inv" \in Client /\ "del" \in NonCritical /\ Fresh' = Fresh
  BY <1>1, ClientsAssumption DEF NonCritical, Fresh
<1>3. CASE call["inv"].v \in {null, {}}
  <2>1. /\ inv' \in {"failed", "done"} /\ Return("inv") /\ UNCHANGED wire
        /\ clean' = (call["inv"].v = {} /\ ~raced)
    BY <1>3 DEF Matched
  <2>2. PageWriters' /\ Invalidates' /\ ReadsFresh' /\ (~raced => FillsFresh')
    BY <1>1, <1>2, <2>1, ReturnsLeaveFresh DEF FreshHit, FillsFresh
  <2>3. ~cleanSince /\ (clean' => ~raced /\ Fresh)
    BY <1>1, <2>1 DEF FreshHit, Invalidates
  <2> QED
    BY <1>1, <1>2, <2>1, <2>2, <2>3 DEF FreshHit
<1>4. CASE call["inv"].v \notin {null, {}}
  <2>1. inv' = "del" /\ UNCHANGED clean /\ Fires("inv", "del", "page", null)
    BY <1>2, <1>4, FireFires DEF Matched, Deletes
  <2>2. PageWriters' /\ (~raced => FillsFresh')
    BY <1>1, <1>2, <2>1, SendsLeavePage DEF FreshHit, FillsFresh
  <2>3. Invalidates'
    <3>1. /\ call'["inv"].at = "waiting" =>
               \A i \in 1..Len(wire') : wire'[i].n = call'["inv"].n =>
                 wire'[i].op = "del" /\ wire'[i].key = "page" /\ ~(i <= done')
          /\ call'["inv"].at = "answered" => call'["inv"].failed = TRUE
      BY <1>1, <1>2, <2>1, CallIsUnanswered
    <3> QED
      BY <2>1, <3>1 DEF Invalidates
  <2>4. ReadsFresh'
    BY <1>1, <1>2, <2>1, OthersLeaveRequest
  <2> QED
    BY <1>1, <1>2, <2>1, <2>2, <2>3, <2>4 DEF FreshHit
<1> QED
  BY <1>3, <1>4

LEMMA DeletedKeepsFresh ==
  ASSUME ProxyInv, FreshHit, Deleted
  PROVE  FreshHit'
<1>1. /\ inv = "del" /\ call["inv"].at = "answered" /\ Return("inv") /\ inv' = "done"
      /\ clean' = (~call["inv"].failed /\ ~raced)
      /\ UNCHANGED <<store, wire, done, source, get, body, raced, cleanSince>>
  BY DEF Deleted, Answered
<1>2. PageWriters' /\ Fresh' = Fresh /\ Invalidates' /\ ReadsFresh' /\ (~raced => FillsFresh')
  BY <1>1, ReturnsLeaveFresh, ClientsAssumption DEF FreshHit, FillsFresh
<1>3. ~cleanSince /\ (clean' => ~raced /\ Fresh)
  BY <1>1 DEF FreshHit, Invalidates
<1> QED
  BY <1>1, <1>2, <1>3 DEF FreshHit

\* What Redis executes: only the content as it is reaches the page, if there was no race.
LEMMA ExecuteKeepsFresh ==
  ASSUME ProxyInv, FreshHit, Execute, UNCHANGED cacheVars
  PROVE  FreshHit'
<1> DEFINE k == done + 1
           cmd == wire[k]
<1>1. Kept /\ Executes /\ k \in 1..Len(wire) /\ done \in Nat /\ Len(wire) \in Nat
  BY ExecuteIs DEF ProxyInv, TypeOK
<1>2. /\ done' = k /\ UNCHANGED <<call, source, get, body, inv, raced, clean, cleanSince>>
      /\ \A i \in 1..Len(wire) : i # k => wire'[i] = wire[i]
      /\ Len(wire') = Len(wire)
      /\ \A i \in 1..Len(wire) :
           /\ wire'[i].n = wire[i].n /\ wire'[i].by = wire[i].by /\ wire'[i].op = wire[i].op
           /\ wire'[i].key = wire[i].key /\ wire'[i].val = wire[i].val
      /\ \A i \in 1..Len(wire) : i <= k <=> i <= done \/ i = k
  BY <1>1 DEF Executes, Kept, cacheVars
<1>3. "inv" \in Client /\ "get" \in Client /\ "page" \in Key /\ DOMAIN store = Key /\ null # {}
  BY ClientsAssumption DEF ProxyInv, TypeOK
<1>4. \/ store' = Effect(cmd) /\ ~wire'[k].refused
         /\ (Waits(cmd.by, cmd) => wire'[k].result = Result(cmd))
      \/ /\ store' = store /\ (Waits(cmd.by, cmd) => wire'[k].refused)
         /\ wire'[k].result = null
  BY <1>1 DEF Executes
<1>5. ~raced => /\ Effect(cmd)["page"] \in {store["page"], null, source}
                /\ cmd.op = "del" /\ cmd.key = "page" => Effect(cmd)["page"] = null
                /\ cmd.op \in {"keys", "get"} => Effect(cmd) = store
  <2>1. /\ cmd.op = "set" => cmd.key # "page"
        /\ ~raced /\ cmd.op = "setex" => cmd.val = source
    BY <1>1 DEF FreshHit, PageWriters, FillsFresh
  <2> QED
    BY <1>3, <2>1 DEF Effect
<1>6. PageWriters' /\ (~raced => FillsFresh')
  BY <1>2 DEF FreshHit, PageWriters, FillsFresh
<1>7. ~raced /\ Fresh => Fresh'
  BY <1>2, <1>4, <1>5 DEF Fresh
<1>8. Invalidates'
  <2>1. CASE ~raced /\ call["inv"].at = "waiting"
    <3> SUFFICES ASSUME NEW i \in 1..Len(wire), wire[i].n = call["inv"].n
                 PROVE  /\ inv = "keys" =>
                             /\ wire[i].op = "keys" /\ wire[i].key = "page"
                             /\ i <= k /\ wire'[i].result = {} => Fresh'
                        /\ inv = "del" =>
                             /\ wire[i].op = "del" /\ wire[i].key = "page"
                             /\ i <= k /\ ~wire'[i].refused => Fresh'
      BY <1>2, <2>1 DEF Invalidates
    <3>1. /\ inv = "keys" => wire[i].op = "keys" /\ wire[i].key = "page"
          /\ inv = "del" => wire[i].op = "del" /\ wire[i].key = "page"
      BY <2>1 DEF FreshHit, Invalidates
    <3>2. CASE i = k
      <4>1. Waits(cmd.by, cmd)
        BY <1>3, <2>1, <3>2, WaitsForOwn
      <4>2. inv = "keys" /\ wire'[k].result = {} => Fresh'
        <5>1. CASE inv = "keys" /\ Result(cmd) = {} /\ store' = Effect(cmd)
          <6>1. store["page"] = null
            BY <3>1, <3>2, <5>1 DEF Result
          <6>2. store' = store
            BY <1>5, <2>1, <3>1, <3>2, <5>1
          <6> QED
            BY <6>1, <6>2 DEF Fresh
        <5> QED
          BY <1>3, <1>4, <4>1, <5>1
      <4>3. inv = "del" /\ ~wire'[k].refused => Fresh'
        BY <1>4, <1>5, <2>1, <3>1, <3>2, <4>1 DEF Fresh
      <4> QED
        BY <3>1, <3>2, <4>2, <4>3
    <3>3. CASE i # k
      BY <1>2, <1>7, <2>1, <3>1, <3>3 DEF FreshHit, Invalidates
    <3> QED
      BY <3>2, <3>3
  <2>2. CASE ~(~raced /\ call["inv"].at = "waiting")
    BY <1>2, <1>7, <2>2 DEF FreshHit, Invalidates
  <2> QED
    BY <2>1, <2>2
<1>9. ReadsFresh'
  <2>1. CASE get = "lookup" /\ cleanSince /\ call["get"].at = "waiting"
    <3> SUFFICES ASSUME NEW i \in 1..Len(wire), wire[i].n = call["get"].n
                 PROVE  /\ wire[i].op = "get" /\ wire[i].key = "page"
                        /\ i <= k /\ ~wire'[i].refused => wire'[i].result \in {null, source}
      BY <1>2, <2>1 DEF ReadsFresh
    <3>1. wire[i].op = "get" /\ wire[i].key = "page"
      BY <2>1 DEF FreshHit, ReadsFresh
    <3>2. CASE i = k
      <4>1. Waits(cmd.by, cmd)
        BY <1>3, <2>1, <3>2, WaitsForOwn
      <4>2. Result(cmd) \in {null, source}
        BY <2>1, <3>1, <3>2 DEF Result, FreshHit, Fresh
      <4> QED
        BY <1>4, <3>1, <3>2, <4>1, <4>2
    <3>3. CASE i # k
      BY <1>2, <2>1, <3>1, <3>3 DEF FreshHit, ReadsFresh
    <3> QED
      BY <3>2, <3>3
  <2>2. CASE ~(get = "lookup" /\ cleanSince /\ call["get"].at = "waiting")
    BY <1>2, <2>2 DEF FreshHit, ReadsFresh
  <2> QED
    BY <2>1, <2>2
<1> QED
  BY <1>2, <1>6, <1>7, <1>8, <1>9 DEF FreshHit

\* What is replied tells of an invalidation that it worked only when it did.
LEMMA ReplyKeepsFresh ==
  ASSUME ProxyInv, FreshHit, Reply, UNCHANGED cacheVars
  PROVE  FreshHit'
<1> DEFINE cmd == wire[1]
<1>1. Replies
  BY ReplyIs
<1>2. /\ done \in Nat /\ Len(wire) \in Nat /\ 1 \in 1..Len(wire) /\ 1 <= done
      /\ \A i \in 1..Len(wire') :
           /\ i + 1 \in 1..Len(wire) /\ wire'[i] = wire[i + 1] /\ cmd.n < wire'[i].n
           /\ (i <= done' <=> i + 1 <= done)
  BY <1>1, RepliesShift
<1>3. UNCHANGED <<store, source, get, body, inv, raced, clean, cleanSince>>
  BY <1>1 DEF Replies, cacheVars
<1>4. "inv" \in Client /\ "get" \in Client /\ null # {}
  BY ClientsAssumption
<1>5. PageWriters' /\ (~raced => FillsFresh') /\ Fresh' = Fresh
  BY <1>2, <1>3 DEF FreshHit, PageWriters, FillsFresh, Fresh
<1>6. ASSUME NEW c \in Client, Waits(c, cmd)
      PROVE  /\ call[c].at = "waiting" /\ cmd.n = call[c].n
             /\ call'[c].at = "answered"
             /\ ~call'[c].failed => ~cmd.refused
             /\ call'[c].v = null \/ (~cmd.refused /\ call'[c].v = cmd.result)
  <2>1. /\ call[c].at = "waiting" /\ cmd.n = call[c].n
        /\ cmd.by = c /\ cmd.refused \in BOOLEAN
    BY <1>2, <1>6, WaitsForOwn DEF Waits, ProxyInv, TypeOK
  <2>2. /\ call'[c].at = "answered"
        /\ ~call'[c].failed => ~cmd.refused
        /\ call'[c].v = null \/ (~cmd.refused /\ call'[c].v = cmd.result)
    BY <1>1, <1>6, <2>1 DEF Replies
  <2> QED
    BY <2>1, <2>2
<1>7. Invalidates'
  <2>1. CASE Waits("inv", cmd)
    <3>1. /\ call["inv"].at = "waiting" /\ cmd.n = call["inv"].n
          /\ call'["inv"].at = "answered"
          /\ ~call'["inv"].failed => ~cmd.refused
          /\ call'["inv"].v = null \/ (~cmd.refused /\ call'["inv"].v = cmd.result)
      BY <1>4, <1>6, <2>1
    <3>2. /\ ~raced /\ inv = "keys" /\ cmd.result = {} => Fresh
          /\ ~raced /\ inv = "del" /\ ~cmd.refused => Fresh
      BY <1>2, <3>1 DEF FreshHit, Invalidates
    <3> QED
      BY <1>3, <1>4, <1>5, <3>1, <3>2 DEF Invalidates
  <2>2. CASE ~Waits("inv", cmd)
    <3>1. call'["inv"] = call["inv"]
      BY <1>1, <1>4, <2>2 DEF Replies
    <3> QED
      BY <1>2, <1>3, <1>5, <3>1 DEF FreshHit, Invalidates
  <2> QED
    BY <2>1, <2>2
<1>8. ReadsFresh'
  <2>1. CASE Waits("get", cmd)
    <3>1. /\ call["get"].at = "waiting" /\ cmd.n = call["get"].n
          /\ call'["get"].at = "answered"
          /\ call'["get"].v = null \/ (~cmd.refused /\ call'["get"].v = cmd.result)
      BY <1>4, <1>6, <2>1
    <3>2. get = "lookup" /\ cleanSince /\ ~cmd.refused => cmd.result \in {null, source}
      BY <1>2, <3>1 DEF FreshHit, ReadsFresh
    <3> QED
      BY <1>3, <3>1, <3>2 DEF ReadsFresh
  <2>2. CASE ~Waits("get", cmd)
    <3>1. call'["get"] = call["get"]
      BY <1>1, <1>4, <2>2 DEF Replies
    <3> QED
      BY <1>2, <1>3, <3>1 DEF FreshHit, ReadsFresh
  <2> QED
    BY <2>1, <2>2
<1> QED
  BY <1>3, <1>5, <1>7, <1>8 DEF FreshHit

\* After a break everything is executed again, which is no harm: what is on its way is
\* fresh.
LEMMA ProxyKeepsFresh ==
  ASSUME ProxyInv, FreshHit, ProxyNext, UNCHANGED cacheVars
  PROVE  FreshHit'
<1>1. UNCHANGED <<source, get, body, inv, raced, clean, cleanSince>>
  BY DEF cacheVars
<1>2. CASE Breaks
  <2>1. Kept /\ done' = 0 /\ UNCHANGED <<store, call>>
    BY <1>2, BreaksIs
  <2>2. PageWriters' /\ (~raced => FillsFresh') /\ Fresh' = Fresh
    BY <1>1, <2>1 DEF FreshHit, PageWriters, FillsFresh, Fresh, Kept
  <2>3. \A i \in 1..Len(wire') : ~(i <= done')
    BY <2>1
  <2>4. Invalidates' /\ ReadsFresh'
    BY <1>1, <2>1, <2>2, <2>3 DEF FreshHit, Invalidates, ReadsFresh, Kept
  <2> QED
    BY <1>1, <2>2, <2>4 DEF FreshHit
<1>3. ASSUME NEW c \in Client, TimesOut(c) PROVE FreshHit'
  <2>1. /\ \A d \in Client \ {c} : call'[d] = call[d]
        /\ call'[c].at = "answered" /\ call'[c].failed = TRUE /\ call'[c].v = null
        /\ UNCHANGED <<store, wire, done>>
    <3>1. TimedOut(c)
      BY <1>3, TimesOutIs
    <3>2. call'[c] = [at |-> "answered", n |-> call[c].n, v |-> null, failed |-> TRUE]
      BY <3>1 DEF TimedOut
    <3> QED
      BY <3>1, <3>2 DEF TimedOut
  <2>2. PageWriters' /\ (~raced => FillsFresh') /\ Fresh' = Fresh
    BY <1>1, <2>1 DEF FreshHit, PageWriters, FillsFresh, Fresh
  <2>3. \A d \in Client :
          \/ call'[d] = call[d]
          \/ call'[d].at = "answered" /\ call'[d].failed = TRUE /\ call'[d].v = null
    BY <2>1
  <2>4. Invalidates'
    BY <1>1, <2>1, <2>2, <2>3, ClientsAssumption DEF FreshHit, Invalidates
  <2>5. ReadsFresh'
    BY <1>1, <2>1, <2>3, ClientsAssumption DEF FreshHit, ReadsFresh
  <2> QED
    BY <1>1, <2>2, <2>4, <2>5 DEF FreshHit
<1>4. CASE Reset \/ Reconnects
  BY <1>1, <1>4
  DEF Reset, Reconnects, FreshHit, FillsFresh, PageWriters, Fresh, Invalidates, ReadsFresh
<1> QED
  BY <1>2, <1>3, <1>4, ExecuteKeepsFresh, ReplyKeepsFresh DEF ProxyNext

\* The end of a fill, and of what was stored.
LEMMA FillEndsFresh ==
  ASSUME ProxyInv, FreshHit, Filled \/ Expire
  PROVE  FreshHit'
<1>1. UNCHANGED <<source, get, body, inv, raced, clean, cleanSince>>
  BY DEF Filled, Expire, cacheVars
<1>2. CASE Filled
  <2>1. Return("fill") /\ UNCHANGED <<store, wire, done>>
    BY <1>2 DEF Filled
  <2>2. PageWriters' /\ Fresh' = Fresh /\ Invalidates' /\ ReadsFresh' /\ (~raced => FillsFresh')
    BY <1>1, <2>1, ReturnsLeaveFresh, ClientsAssumption DEF FreshHit, FillsFresh
  <2> QED
    BY <1>1, <2>2 DEF FreshHit
<1>3. CASE Expire
  <2>1. UNCHANGED <<wire, done, call>> /\ Fresh'
    BY <1>3, ClientsAssumption DEF Expire, Fresh, ProxyInv, TypeOK
  <2> QED
    BY <1>1, <2>1 DEF FreshHit, FillsFresh, PageWriters, Invalidates, ReadsFresh
<1> QED
  BY <1>2, <1>3

\* The feature flags are none of the cache's.
LEMMA FlagsKeepFresh ==
  ASSUME ProxyInv, FreshHit, FlagNext, UNCHANGED cacheVars
  PROVE  FreshHit'
<1>1. /\ UNCHANGED <<source, get, body, inv, raced, clean, cleanSince>>
      /\ {"check", "admin"} \subseteq Client \ {"get", "inv"}
      /\ {"get", "keys", "set"} \subseteq NonCritical
  BY ClientsAssumption DEF cacheVars, NonCritical
<1>2. UNCHANGED store /\ UNCHANGED done
  BY DEF FlagNext, IsEnabled, GetAllFlags, GlobalRead, UserRead, RolloutRead, FlagsListed, ValueRead,
         Enable, Disable, EnableForUser, SetRolloutPercentage, Change, Changed, reads
<1>3. ASSUME NEW c \in {"check", "admin"}, NEW op \in {"get", "keys", "set"},
             NEW key \in {"global", "user", "rollout"}, NEW val, Fire(c, op, key, val)
      PROVE  FreshHit'
  <2>1. Fires(c, op, key, val)
    BY <1>1, <1>3, FireFires
  <2>2. PageWriters' /\ (~raced => FillsFresh') /\ Fresh' = Fresh
    BY <1>1, <1>2, <2>1, SendsLeavePage DEF FreshHit, FillsFresh, Fresh
  <2>3. Invalidates' /\ ReadsFresh'
    BY <1>1, <1>2, <2>1, OthersLeaveInvalidation, OthersLeaveRequest
  <2> QED
    BY <1>1, <2>2, <2>3 DEF FreshHit
<1>4. ASSUME NEW c \in {"check", "admin"}, Return(c), UNCHANGED wire
      PROVE  FreshHit'
  <2>1. PageWriters' /\ Fresh' = Fresh /\ Invalidates' /\ ReadsFresh' /\ (~raced => FillsFresh')
    BY <1>1, <1>2, <1>4, ReturnsLeaveFresh DEF FreshHit, FillsFresh
  <2> QED
    BY <1>1, <2>1 DEF FreshHit
<1>5. CASE IsEnabled \/ GetAllFlags
  BY <1>3, <1>5 DEF IsEnabled, GetAllFlags, Ask
<1>6. CASE GlobalRead \/ UserRead \/ RolloutRead \/ FlagsListed \/ ValueRead
  BY <1>3, <1>4, <1>6 DEF GlobalRead, UserRead, RolloutRead, FlagsListed, ValueRead, Ask, Ends
<1>7. CASE Enable \/ Disable \/ EnableForUser \/ SetRolloutPercentage
  BY <1>3, <1>7 DEF Enable, Disable, EnableForUser, SetRolloutPercentage, Change
<1>8. CASE Changed
  BY <1>4, <1>8 DEF Changed
<1> QED
  BY <1>5, <1>6, <1>7, <1>8 DEF FlagNext

\* FreshHit: once a change was invalidated, with no response on its way that was computed
\* before, every hit serves the content as it is, whatever times out, comes late or is
\* sent again (createCacheMiddleware, createCacheInvalidator).
THEOREM HitsAreFresh == Spec => []FreshHit
<1>1. Init => FreshHit
  <2> SUFFICES ASSUME Init PROVE FreshHit
    OBVIOUS
  <2>1. 1..Len(wire) = {}
    <3>1. wire = <<>>
      BY DEF Init, ProxyInit
    <3>2. Len(<<>>) = 0 /\ 1..0 = {}
      BY EmptySeq
    <3> QED
      BY <3>1, <3>2
  <2>2. Fresh
    BY ClientsAssumption DEF Init, ProxyInit, Fresh
  <2>3. get = "idle" /\ inv = "idle" /\ raced = FALSE /\ cleanSince = FALSE
    BY DEF Init, CacheInit
  <2> QED
    BY <2>1, <2>2, <2>3 DEF FreshHit, FillsFresh, PageWriters, Invalidates, ReadsFresh
<1>2. ProxyInv /\ FreshHit /\ [Next]_vars => FreshHit'
  <2> SUFFICES ASSUME ProxyInv, FreshHit, [Next]_vars PROVE FreshHit'
    OBVIOUS
  <2>1. CASE UNCHANGED vars
    BY <2>1
    DEF vars, proxy, cacheVars, FreshHit, FillsFresh, PageWriters, Fresh, Invalidates, ReadsFresh
  <2>2. CASE CacheNext
    BY <2>2, RequestKeepsFresh, LookupKeepsFresh, HandleKeepsFresh, JsonKeepsFresh, FillEndsFresh,
       UpdateKeepsFresh, MatchedKeepsFresh, DeletedKeepsFresh
    DEF CacheNext
  <2> QED
    BY <2>1, <2>2, ProxyKeepsFresh, FlagsKeepFresh DEF Next
<1> QED
  BY ProxyInvariant, <1>1, <1>2, PTL DEF Spec
=============================================================================
