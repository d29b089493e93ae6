----------------------- MODULE ProtectedContentProofs -----------------------
(***************************************************************************)
(* Proofs about ProtectedContent: for any number of domains, keys and      *)
(* overlapping transactions, a domain has one live key, and what was       *)
(* erased is neither read nor made again.  What carries all of it is what  *)
(* each call in progress knows of the key it has in hand, and that a key   *)
(* only ever ages: unused, inserted, live, destroyed.                      *)
(*                                                                         *)
(* Then about Staffing, which runs beside it: on every day the assignments *)
(* of an employee fit into it or one of them was created past the capacity *)
(* check, and an assignment is governed by the card it names.  What        *)
(* carries the first is that the assignments that were not overridden fit  *)
(* by themselves; the sums of their percents are sizes of sets of          *)
(* portions, so that what is known of finite sets speaks of them.          *)
(***************************************************************************)
EXTENDS MCProtectedContent, Integers, Sequences, FiniteSetTheorems, TLAPS

USE ProtectedContentAssumption

-----------------------------------------------------------------------------
(* The inductive invariant *)

\* What a call knows of the keys, whose states are st and whose domains are dom.
Sound(x, st, dom) ==
  /\ x \in CallStates
  /\ x.own =>
       /\ x.op = "write" /\ x.step \in {"fragment", "store", "commit"}
       /\ x.key \in Keys /\ st[x.key] = "inserted" /\ dom[x.key] = x.domain
  /\ \A k \in x.gone : st[k] = "destroyed"
  /\ x.step \in {"open", "load", "release"} => x.key \in Keys
  /\ x.step = "open" => x.op \in {"read", "write"}
  /\ x.step \in {"open", "release"} => x.key \notin x.gone
  /\ x.op = "write" /\ (x.step \in {"kek", "key"} \/ x.own) => \A k \in x.gone : dom[k] # x.domain
  /\ x.op = "erase" /\ x.step \in {"destroy", "commit"} =>
       x.key \in Keys /\ dom[x.key] = x.domain /\ st[x.key] \in {"live", "destroyed"}

Busy(c) == call[c] # NoCall

CallsSound == \A c \in Calls : Busy(c) => Sound(call[c], state, domainOf)

\* No two transactions inserted the same key.
OneOwner ==
  \A b, c \in Calls :
    Busy(b) /\ Busy(c) /\ call[b].own /\ call[c].own /\ call[b].key = call[c].key => b = c

\* A domain has one key that is or may become live.
OneKey ==
  \A k, l \in Keys :
    state[k] \in {"inserted", "live"} /\ state[l] \in {"inserted", "live"}
      /\ domainOf[k] = domainOf[l] => k = l

\* Calls that overlap are known to.
OverlapsKnown == \A b, c \in Calls : b # c /\ Busy(b) /\ Busy(c) => b \in crossed

\* Only an overlapping call brings back the key an erasure evicted.
EvictedUnlessCrossed ==
  \A c \in Calls : At(c, "erase", "commit") /\ call[c].key \in cache => c \in crossed

IInv ==
  TypeOK /\ CallsSound /\ OneOwner /\ OneKey /\ OverlapsKnown /\ EvictedUnlessCrossed

-----------------------------------------------------------------------------
(* Calls *)

LEMMA CallFields ==
  ASSUME NEW x \in CallStates
  PROVE  /\ x.op \in Operations /\ x.step \in Steps /\ x.domain \in Domains
         /\ x.key \in Keys \cup {NoKey} /\ x.own \in BOOLEAN /\ x.ownKek \in BOOLEAN
         /\ x.found \in BOOLEAN /\ x.gone \subseteq Keys
  BY DEF CallStates

LEMMA NotIdle == \A x \in CallStates : x # NoCall
  BY DEF CallStates, NoCall, Steps

\* Moving on changes where a call is and nothing else of it.
LEMMA StepKept ==
  ASSUME NEW x \in CallStates, NEW step \in Steps
  PROVE  LET y == [x EXCEPT !.step = step]
         IN  /\ y \in CallStates /\ y.step = step /\ y.op = x.op /\ y.domain = x.domain
             /\ y.key = x.key /\ y.own = x.own /\ y.gone = x.gone
  BY DEF CallStates

\* A call that is at a step is sound.
LEMMA Known ==
  ASSUME IInv, NEW c \in Calls, Busy(c)
  PROVE  Sound(call[c], state, domainOf) /\ call[c] \in CallStates
  BY DEF IInv, CallsSound, Sound

\* Keys only age, and a key keeps its domain once it is live.
Ages(st, dom, st2, dom2) ==
  \A k \in Keys :
    /\ st[k] = "destroyed" => st2[k] = "destroyed" /\ dom2[k] = dom[k]
    /\ st[k] = "live" => st2[k] \in {"live", "destroyed"} /\ dom2[k] = dom[k]

LEMMA SoundAsKeysAge ==
  ASSUME NEW x, NEW st, NEW dom, NEW st2, NEW dom2,
         Sound(x, st, dom), Ages(st, dom, st2, dom2),
         x.own => st2[x.key] = st[x.key] /\ dom2[x.key] = dom[x.key]
  PROVE  Sound(x, st2, dom2)
<1>1. x.gone \subseteq Keys
  BY CallFields DEF Sound
<1> QED
  BY <1>1 DEF Sound, Ages

\* One call takes a step; the others see the keys age, but not those they inserted.
LEMMA OneCallSteps ==
  ASSUME TypeOK, CallsSound, NEW c \in Calls, NEW new,
         call' = [call EXCEPT ![c] = new],
         new = NoCall \/ Sound(new, state', domainOf'),
         Ages(state, domainOf, state', domainOf'),
         \A b \in Calls \ {c} : Busy(b) /\ call[b].own =>
           state'[call[b].key] = state[call[b].key] /\ domainOf'[call[b].key] = domainOf[call[b].key]
  PROVE  CallsSound' /\ call' \in [Calls -> CallStates \cup {NoCall}]
<1>1. call'[c] = new /\ \A b \in Calls \ {c} : call'[b] = call[b]
  BY DEF TypeOK
<1>2. new \in CallStates \cup {NoCall}
  BY DEF Sound
<1>3. ASSUME NEW b \in Calls \ {c}, Busy(b)
      PROVE  Sound(call[b], state', domainOf')
  BY <1>3, SoundAsKeysAge DEF CallsSound
<1>4. CallsSound'
  BY <1>1, <1>3 DEF CallsSound, Busy, NoCall
<1> QED
  BY <1>2, <1>4 DEF TypeOK

\* The call that steps brings no evicted key back itself.
LEMMA CrossingsKnown ==
  ASSUME TypeOK, OverlapsKnown, EvictedUnlessCrossed, NEW c \in Calls, NEW new, Busy(c),
         call' = [call EXCEPT ![c] = new], crossed' = crossed,
         \/ new = NoCall
         \/ new.op = "erase" /\ new.step = "commit" => new.key \notin cache'
  PROVE  OverlapsKnown' /\ EvictedUnlessCrossed'
<1>1. call'[c] = new /\ \A b \in Calls \ {c} : call'[b] = call[b]
  BY DEF TypeOK
<1>2. \A b \in Calls : Busy(b)' => Busy(b)
  BY <1>1 DEF Busy
<1>3. \A b \in Calls \ {c} : At(b, "erase", "commit")' => b \in crossed
  BY <1>1, <1>2 DEF At, OverlapsKnown, Busy
<1>4. At(c, "erase", "commit")' => call'[c].key \notin cache'
  BY <1>1 DEF At
<1> QED
  BY <1>2, <1>3, <1>4 DEF OverlapsKnown, EvictedUnlessCrossed

\* A call that changes no key, and keeps the one it inserted.
LEMMA KeysUntouched ==
  ASSUME IInv, NEW c \in Calls, Busy(c), NEW new, call' = [call EXCEPT ![c] = new],
         state' = state, domainOf' = domainOf, crossed' = crossed, made' = made,
         kek' \in BOOLEAN, fragment' \in [Domains -> Keys \cup {NoKey}], cache' \subseteq Keys,
         \/ new = NoCall /\ ~call[c].own
         \/ /\ Sound(new, state, domainOf) /\ new # NoCall
            /\ new.own = call[c].own
            /\ new.own => new.key = call[c].key
            /\ new.op = "erase" /\ new.step = "commit" => new.key \notin cache'
  PROVE  IInv'
<1>1. call'[c] = new /\ \A b \in Calls \ {c} : call'[b] = call[b]
  BY DEF IInv, TypeOK
<1>2. CallsSound' /\ call' \in [Calls -> CallStates \cup {NoCall}]
  BY OneCallSteps DEF IInv, Ages
<1>3. OverlapsKnown' /\ EvictedUnlessCrossed'
  BY CrossingsKnown DEF IInv
<1>4. \A b \in Calls : Busy(b)' /\ call'[b].own =>
        Busy(b) /\ call[b].own /\ call'[b].key = call[b].key
  <2>1. new # NoCall /\ new.own => call[c].own /\ new.key = call[c].key
    OBVIOUS
  <2> QED
    BY <1>1, <2>1 DEF Busy
<1>5. \A b \in Calls : Busy(b) /\ call[b].own =>
        Busy(b)' /\ call'[b].own /\ call'[b].key = call[b].key
  <2>1. call[c].own => new # NoCall /\ new.own /\ new.key = call[c].key
    OBVIOUS
  <2> QED
    BY <1>1, <2>1 DEF Busy
<1>6. OneOwner' /\ OneKey'
  BY <1>4 DEF IInv, OneOwner, OneKey
<1>7. TypeOK'
  BY <1>2, <1>5 DEF IInv, TypeOK, Busy
<1> QED
  BY <1>2, <1>3, <1>6, <1>7 DEF IInv
-----------------------------------------------------------------------------
(* Every action keeps it *)

LEMMA InitIInv == Init => IInv
<1> SUFFICES ASSUME Init PROVE IInv
  OBVIOUS
<1>1. TypeOK
  <2>1. \A k \in Keys : state[k] = "unused" /\ domainOf[k] = NoDomain
    BY DEF Init
  <2>2. /\ domainOf \in [Keys -> Domains \cup {NoDomain}]
        /\ state \in [Keys -> {"unused", "inserted", "live", "destroyed"}]
        /\ fragment \in [Domains -> Keys \cup {NoKey}]
    BY DEF Init
  <2>3. call \in [Calls -> CallStates \cup {NoCall}]
    BY DEF Init
  <2>4. kek = FALSE /\ cache = {} /\ made = 0 /\ crossed = {}
    BY Zenon DEF Init
  <2>5. kek \in BOOLEAN /\ cache \subseteq Keys /\ crossed \subseteq Calls
    BY <2>4, Zenon
  <2>6. made \in 0..MaxCalls
    BY <2>4
  <2> QED
    BY <2>1, <2>2, <2>3, <2>5, <2>6 DEF TypeOK
<1>2. \A c \in Calls : ~Busy(c)
  BY DEF Init, Busy
<1>3. CallsSound /\ OneOwner /\ OverlapsKnown
  BY <1>2 DEF CallsSound, OneOwner, OverlapsKnown
<1>4. EvictedUnlessCrossed
  BY <1>2 DEF EvictedUnlessCrossed, At, Busy
<1>5. OneKey
  <2>1. \A k \in Keys : state[k] = "unused"
    BY DEF Init
  <2> QED
    BY <2>1 DEF OneKey
<1> QED
  BY <1>1, <1>3, <1>4, <1>5 DEF IInv

LEMMA RequestIInv ==
  ASSUME IInv, NEW c \in Calls, NEW op \in Operations, NEW d \in Domains, Request(c, op, d)
  PROVE  IInv'
<1> DEFINE destroyed == {k \in Keys : state[k] = "destroyed"}
           new == [op |-> op, step |-> "begin", domain |-> d, key |-> NoKey, own |-> FALSE,
                   ownKek |-> FALSE, found |-> FALSE, gone |-> destroyed]
           busy == {b \in Calls : call[b] # NoCall}
<1>1. /\ call[c] = NoCall /\ made < MaxCalls /\ made' = made + 1
      /\ call' = [call EXCEPT ![c] = new]
      /\ crossed' = IF busy = {} THEN {} ELSE busy \cup {c}
      /\ kek' = kek /\ domainOf' = domainOf /\ state' = state /\ fragment' = fragment
      /\ cache' = cache
  BY Zenon DEF Request, KeepsKeys
<1>2. new \in CallStates
  BY DEF CallStates, Steps
<1>3. /\ new.op = op /\ new.step = "begin" /\ new.key = NoKey /\ new.own = FALSE
      /\ new.gone = destroyed /\ new.domain = d
  OBVIOUS
<1> HIDE DEF new
<1>4. Sound(new, state, domainOf)
  BY <1>2, <1>3 DEF Sound
<1>5. CallsSound' /\ call' \in [Calls -> CallStates \cup {NoCall}]
  BY <1>1, <1>4, OneCallSteps DEF IInv, Ages
<1>6. call'[c] = new /\ \A b \in Calls \ {c} : call'[b] = call[b]
  BY <1>1 DEF IInv, TypeOK
<1>7. \A b \in Calls : Busy(b)' /\ call'[b].own => b # c /\ Busy(b) /\ call'[b] = call[b]
  BY <1>3, <1>6 DEF Busy
<1>8. \A b \in Calls : Busy(b) => b # c /\ Busy(b)' /\ call'[b] = call[b]
  BY <1>1, <1>6 DEF Busy
<1>9. OneOwner' /\ OneKey'
  BY <1>1, <1>7 DEF IInv, OneOwner, OneKey
<1>10. OverlapsKnown'
  BY <1>1, <1>6 DEF OverlapsKnown, Busy
<1>11. EvictedUnlessCrossed'
  <2> SUFFICES ASSUME NEW b \in Calls, At(b, "erase", "commit")', call'[b].key \in cache'
               PROVE  b \in crossed'
    BY DEF EvictedUnlessCrossed
  <2>1. b # c /\ call[b] # NoCall
    BY <1>3, <1>6 DEF At
  <2> QED
    BY <1>1, <2>1
<1>12. made' \in 0..MaxCalls /\ crossed' \subseteq Calls
  BY <1>1 DEF IInv, TypeOK
<1>13. TypeOK'
  BY <1>1, <1>5, <1>8, <1>12 DEF IInv, TypeOK, Busy
<1> QED
  BY <1>5, <1>9, <1>10, <1>11, <1>13 DEF IInv

LEMMA FindKeyIInv ==
  ASSUME IInv, NEW c \in Calls, FindKey(c)
  PROVE  IInv'
<1>1. /\ Busy(c) /\ call[c].op = "write" /\ call[c].step = "begin"
      /\ state' = state /\ domainOf' = domainOf /\ kek' = kek /\ fragment' = fragment
      /\ made' = made /\ crossed' = crossed /\ cache' = cache
  BY DEF FindKey, At, Busy, KeepsKeys
<1>2. call[c] \in CallStates /\ Sound(call[c], state, domainOf) /\ ~call[c].own
  BY <1>1, Known DEF Sound
<1>3. ASSUME NEW k \in Stored(Domain(c), {"live"}),
             call' = [call EXCEPT ![c] = [call[c] EXCEPT !.step = "open", !.key = k]]
      PROVE  IInv'
  <2> DEFINE new == [call[c] EXCEPT !.step = "open", !.key = k]
  <2>0. k \in Keys /\ state[k] = "live"
    BY DEF Stored
  <2>1. /\ new \in CallStates /\ new.step = "open" /\ new.op = "write" /\ new.key = k
        /\ new.own = call[c].own /\ new.gone = call[c].gone
    BY <2>0, <1>1, <1>2 DEF CallStates, Steps
  <2>2. call' = [call EXCEPT ![c] = new]
    BY <1>3
  <2> HIDE DEF new
  <2>3. Sound(new, state, domainOf)
    BY <1>2, <2>0, <2>1 DEF Sound
  <2> QED
    BY <1>1, <1>2, <2>1, <2>2, <2>3, NotIdle, KeysUntouched DEF IInv, TypeOK
<1>4. CASE NotErased(Domain(c)) /\ Moves(c, "kek")
  <2> DEFINE new == [call[c] EXCEPT !.step = "kek"]
  <2>1. /\ new \in CallStates /\ new.step = "kek" /\ new.op = "write"
        /\ new.own = call[c].own /\ new.gone = call[c].gone /\ new.domain = Domain(c)
    BY <1>1, <1>2, StepKept DEF Steps, Domain
  <2>2. call' = [call EXCEPT ![c] = new]
    BY <1>4 DEF Moves
  <2> HIDE DEF new
  <2>3. \A k \in call[c].gone : domainOf[k] # Domain(c)
    BY <1>2, <1>4, CallFields DEF Sound, NotErased, Stored
  <2>4. Sound(new, state, domainOf)
    BY <1>2, <2>1, <2>3 DEF Sound
  <2> QED
    BY <1>1, <1>2, <2>1, <2>2, <2>4, NotIdle, KeysUntouched DEF IInv, TypeOK
<1>5. CASE Returns(c)
  BY <1>1, <1>2, <1>5, KeysUntouched DEF IInv, TypeOK, Returns
<1> QED
  BY <1>3, <1>4, <1>5 DEF FindKey

\* Whatever is opened was live when its row was selected, after the call began.
LEMMA OpenKeyIInv ==
  ASSUME IInv, NEW c \in Calls, OpenKey(c)
  PROVE  IInv'
<1> DEFINE step == IF call[c].op = "write" THEN "fragment" ELSE "release"
           new == [call[c] EXCEPT !.step = step]
<1>1. /\ Busy(c) /\ call[c].step = "open" /\ call' = [call EXCEPT ![c] = new]
      /\ state' = state /\ domainOf' = domainOf /\ kek' = kek /\ fragment' = fragment
      /\ made' = made /\ crossed' = crossed /\ cache' = cache \cup {call[c].key}
  BY DEF OpenKey, Busy, KeepsKeys, Moves
<1>2. call[c] \in CallStates /\ Sound(call[c], state, domainOf) /\ ~call[c].own
      /\ call[c].key \in Keys /\ call[c].key \notin call[c].gone /\ call[c].op \in {"read", "write"}
  BY <1>1, Known DEF Sound
<1>3. step \in Steps /\ (step = "fragment" \/ step = "release")
  BY DEF Steps
<1> HIDE DEF step
<1>4. /\ new \in CallStates /\ new.step = step /\ new.op = call[c].op
      /\ new.own = call[c].own /\ new.gone = call[c].gone /\ new.key = call[c].key
  BY <1>2, <1>3, StepKept
<1> HIDE DEF new
<1>5. Sound(new, state, domainOf)
  BY <1>2, <1>3, <1>4 DEF Sound
<1>6. cache' \subseteq Keys
  BY <1>1, <1>2 DEF IInv, TypeOK
<1> QED
  BY <1>1, <1>2, <1>3, <1>4, <1>5, <1>6, NotIdle, KeysUntouched DEF IInv, TypeOK

LEMMA FindKekIInv ==
  ASSUME IInv, NEW c \in Calls, FindKek(c)
  PROVE  IInv'
<1>1. /\ Busy(c) /\ call[c].op = "write" /\ call[c].step = "kek"
      /\ state' = state /\ domainOf' = domainOf /\ kek' = kek /\ fragment' = fragment
      /\ made' = made /\ crossed' = crossed /\ cache' = cache
  BY DEF FindKek, At, Busy, KeepsKeys
<1>2. call[c] \in CallStates /\ Sound(call[c], state, domainOf)
  BY <1>1, Known
<1>3. ASSUME NEW new, call' = [call EXCEPT ![c] = new],
             \/ new = [call[c] EXCEPT !.step = "key"]
             \/ new = [call[c] EXCEPT !.step = "key", !.ownKek = TRUE]
      PROVE  IInv'
  <2>1. /\ new \in CallStates /\ new.step = "key" /\ new.op = "write"
        /\ new.own = call[c].own /\ new.gone = call[c].gone /\ new.domain = call[c].domain
        /\ new.key = call[c].key
    BY <1>1, <1>2, <1>3 DEF CallStates, Steps
  <2>2. Sound(new, state, domainOf)
    BY <1>1, <1>2, <2>1 DEF Sound
  <2> QED
    BY <1>1, <1>2, <1>3, <2>1, <2>2, NotIdle, KeysUntouched DEF IInv, TypeOK
<1> QED
  BY <1>3 DEF FindKek, Moves

LEMMA FindFragmentIInv ==
  ASSUME IInv, NEW c \in Calls, FindFragment(c)
  PROVE  IInv'
<1> DEFINE new == [call[c] EXCEPT !.step = "store", !.found = fragment[Domain(c)] # NoKey]
<1>1. /\ Busy(c) /\ call[c].op = "write" /\ call[c].step = "fragment"
      /\ call' = [call EXCEPT ![c] = new]
      /\ state' = state /\ domainOf' = domainOf /\ kek' = kek /\ fragment' = fragment
      /\ made' = made /\ crossed' = crossed /\ cache' = cache
  BY DEF FindFragment, At, Busy, KeepsKeys
<1>2. call[c] \in CallStates /\ Sound(call[c], state, domainOf)
  BY <1>1, Known
<1>3. /\ new \in CallStates /\ new.step = "store" /\ new.op = "write"
      /\ new.own = call[c].own /\ new.gone = call[c].gone /\ new.domain = call[c].domain
      /\ new.key = call[c].key
  BY <1>1, <1>2 DEF CallStates, Steps
<1> HIDE DEF new
<1>4. Sound(new, state, domainOf)
  BY <1>1, <1>2, <1>3 DEF Sound
<1> QED
  BY <1>1, <1>2, <1>3, <1>4, NotIdle, KeysUntouched DEF IInv, TypeOK

LEMMA ReadFragmentIInv ==
  ASSUME IInv, NEW c \in Calls, ReadFragment(c)
  PROVE  IInv'
<1>1. /\ Busy(c) /\ call[c].op = "read" /\ call[c].step = "begin"
      /\ state' = state /\ domainOf' = domainOf /\ kek' = kek /\ fragment' = fragment
      /\ made' = made /\ crossed' = crossed /\ cache' = cache
  BY DEF ReadFragment, At, Busy, KeepsKeys
<1>2. call[c] \in CallStates /\ Sound(call[c], state, domainOf) /\ ~call[c].own
  BY <1>1, Known DEF Sound
<1>3. CASE Returns(c)
  BY <1>1, <1>2, <1>3, KeysUntouched DEF IInv, TypeOK, Returns
<1>4. ASSUME NEW k, k = fragment[Domain(c)], k # NoKey,
             call' = [call EXCEPT ![c] = [call[c] EXCEPT !.step = "load", !.key = k]]
      PROVE  IInv'
  <2> DEFINE new == [call[c] EXCEPT !.step = "load", !.key = k]
  <2>1. Domain(c) \in Domains
    BY <1>2, CallFields DEF Domain
  <2>2. k \in Keys
    BY <1>4, <2>1 DEF IInv, TypeOK
  <2>3. /\ new \in CallStates /\ new.step = "load" /\ new.op = "read" /\ new.key = k
        /\ new.own = call[c].own /\ new.gone = call[c].gone /\ new.domain = call[c].domain
    BY <1>1, <1>2, <2>2 DEF CallStates, Steps
  <2>4. call' = [call EXCEPT ![c] = new]
    BY <1>4
  <2> HIDE DEF new
  <2>5. Sound(new, state, domainOf)
    BY <1>2, <2>2, <2>3 DEF Sound
  <2> QED
    BY <1>1, <1>2, <2>3, <2>4, <2>5, NotIdle, KeysUntouched DEF IInv, TypeOK
<1> QED
  BY <1>3, <1>4 DEF ReadFragment

\* A key that can be opened is live: it was not destroyed before the read began.
LEMMA LoadKeyIInv ==
  ASSUME IInv, NEW c \in Calls, LoadKey(c)
  PROVE  IInv'
<1>1. /\ Busy(c) /\ call[c].op = "read" /\ call[c].step = "load"
      /\ state' = state /\ domainOf' = domainOf /\ kek' = kek /\ fragment' = fragment
      /\ made' = made /\ crossed' = crossed /\ cache' = cache
  BY DEF LoadKey, At, Busy, KeepsKeys
<1>2. call[c] \in CallStates /\ Sound(call[c], state, domainOf) /\ ~call[c].own
      /\ call[c].key \in Keys
  BY <1>1, Known DEF Sound
<1>3. CASE Returns(c)
  BY <1>1, <1>2, <1>3, KeysUntouched DEF IInv, TypeOK, Returns
<1>4. CASE Openable(call[c].key) /\ Moves(c, "open")
  <2> DEFINE new == [call[c] EXCEPT !.step = "open"]
  <2>1. /\ new \in CallStates /\ new.step = "open" /\ new.op = "read"
        /\ new.own = call[c].own /\ new.gone = call[c].gone /\ new.key = call[c].key
    BY <1>1, <1>2, StepKept DEF Steps
  <2>2. call' = [call EXCEPT ![c] = new]
    BY <1>4 DEF Moves
  <2> HIDE DEF new
  <2>3. call[c].key \notin call[c].gone
    BY <1>2, <1>4 DEF Sound, Openable
  <2>4. Sound(new, state, domainOf)
    BY <1>2, <2>1, <2>3 DEF Sound
  <2> QED
    BY <1>1, <1>2, <2>1, <2>2, <2>4, NotIdle, KeysUntouched DEF IInv, TypeOK
<1> QED
  BY <1>3, <1>4 DEF LoadKey

LEMMA ReleaseIInv ==
  ASSUME IInv, NEW c \in Calls, Release(c)
  PROVE  IInv'
<1>1. /\ Busy(c) /\ call[c].op = "read" /\ Returns(c)
      /\ state' = state /\ domainOf' = domainOf /\ kek' = kek /\ fragment' = fragment
      /\ made' = made /\ crossed' = crossed /\ cache' = cache
  BY DEF Release, At, Busy, KeepsKeys
<1>2. ~call[c].own
  BY <1>1, Known DEF Sound
<1> QED
  BY <1>1, <1>2, KeysUntouched DEF IInv, TypeOK, Returns

LEMMA SelectKeysIInv ==
  ASSUME IInv, NEW c \in Calls, SelectKeys(c)
  PROVE  IInv'
<1>1. /\ Busy(c) /\ call[c].op = "erase" /\ call[c].step = "begin"
      /\ state' = state /\ domainOf' = domainOf /\ kek' = kek /\ fragment' = fragment
      /\ made' = made /\ crossed' = crossed /\ cache' = cache
  BY DEF SelectKeys, At, Busy, KeepsKeys
<1>2. call[c] \in CallStates /\ Sound(call[c], state, domainOf) /\ ~call[c].own
  BY <1>1, Known DEF Sound
<1>3. CASE Returns(c)
  BY <1>1, <1>2, <1>3, KeysUntouched DEF IInv, TypeOK, Returns
<1>4. ASSUME NEW k \in LiveKeys(Domain(c)),
             call' = [call EXCEPT ![c] = [call[c] EXCEPT !.step = "destroy", !.key = k]]
      PROVE  IInv'
  <2> DEFINE new == [call[c] EXCEPT !.step = "destroy", !.key = k]
  <2>1. k \in Keys /\ domainOf[k] = call[c].domain /\ state[k] = "live"
    BY DEF LiveKeys, Stored, Domain
  <2>2. /\ new \in CallStates /\ new.step = "destroy" /\ new.op = "erase" /\ new.key = k
        /\ new.own = call[c].own /\ new.gone = call[c].gone /\ new.domain = call[c].domain
    BY <1>1, <1>2, <2>1 DEF CallStates, Steps
  <2>3. call' = [call EXCEPT ![c] = new]
    BY <1>4
  <2> HIDE DEF new
  <2>4. Sound(new, state, domainOf)
    BY <1>2, <2>1, <2>2 DEF Sound
  <2> QED
    BY <1>1, <1>2, <2>2, <2>3, <2>4, NotIdle, KeysUntouched DEF IInv, TypeOK
<1> QED
  BY <1>3, <1>4 DEF SelectKeys

\* The key that is about to be destroyed is evicted.
LEMMA DestroyKeyIInv ==
  ASSUME IInv, NEW c \in Calls, DestroyKey(c)
  PROVE  IInv'
<1> DEFINE new == [call[c] EXCEPT !.step = "commit"]
<1>1. /\ Busy(c) /\ call[c].op = "erase" /\ call[c].step = "destroy"
      /\ call' = [call EXCEPT ![c] = new]
      /\ state' = state /\ domainOf' = domainOf /\ kek' = kek /\ fragment' = fragment
      /\ made' = made /\ crossed' = crossed /\ cache' = cache \ {call[c].key}
  BY DEF DestroyKey, At, Busy, KeepsKeys, Moves, EvictKey
<1>2. call[c] \in CallStates /\ Sound(call[c], state, domainOf)
  BY <1>1, Known
<1>3. /\ new \in CallStates /\ new.step = "commit" /\ new.op = "erase"
      /\ new.own = call[c].own /\ new.gone = call[c].gone /\ new.domain = call[c].domain
      /\ new.key = call[c].key
  BY <1>1, <1>2, StepKept DEF Steps
<1> HIDE DEF new
<1>4. Sound(new, state, domainOf)
  BY <1>1, <1>2, <1>3 DEF Sound
<1>5. cache' \subseteq Keys /\ new.key \notin cache'
  BY <1>1, <1>3 DEF IInv, TypeOK
<1> QED
  BY <1>1, <1>2, <1>3, <1>4, <1>5, NotIdle, KeysUntouched DEF IInv, TypeOK

\* A key is inserted for a domain that has none, by a call that found none before.
LEMMA InsertKeyIInv ==
  ASSUME IInv, NEW c \in Calls, InsertKey(c)
  PROVE  IInv'
<1>1. /\ Busy(c) /\ call[c].op = "write" /\ call[c].step = "key"
      /\ kek' = kek /\ fragment' = fragment /\ made' = made /\ crossed' = crossed
      /\ FreeOfLiveKeys(Domain(c)) => Stored(Domain(c), {"inserted"}) = {}
  BY DEF InsertKey, At, Busy
<1>2. call[c] \in CallStates /\ Sound(call[c], state, domainOf) /\ ~call[c].own
  BY <1>1, Known DEF Sound
<1>3. CASE Returns(c) /\ state' = state /\ domainOf' = domainOf /\ cache' = cache
  BY <1>1, <1>2, <1>3, KeysUntouched DEF IInv, TypeOK, Returns
<1>4. ASSUME FreeOfLiveKeys(Domain(c)), NEW k \in Keys, state[k] = "unused",
             state' = [state EXCEPT ![k] = "inserted"],
             domainOf' = [domainOf EXCEPT ![k] = Domain(c)], cache' = cache \cup {k},
             call' = [call EXCEPT ![c] =
               [call[c] EXCEPT !.step = "fragment", !.key = k, !.own = TRUE]]
      PROVE  IInv'
  <2> DEFINE new == [call[c] EXCEPT !.step = "fragment", !.key = k, !.own = TRUE]
  <2>1. /\ new \in CallStates /\ new.step = "fragment" /\ new.op = "write" /\ new.key = k
        /\ new.own = TRUE /\ new.gone = call[c].gone /\ new.domain = call[c].domain
    BY <1>1, <1>2, <1>4 DEF CallStates, Steps
  <2>2. call' = [call EXCEPT ![c] = new]
    BY <1>4
  <2> HIDE DEF new
  <2>3. Domain(c) \in Domains /\ Domain(c) = call[c].domain
    BY <1>2, CallFields DEF Domain
  <2>4. /\ state'[k] = "inserted" /\ domainOf'[k] = Domain(c)
        /\ \A l \in Keys \ {k} : state'[l] = state[l] /\ domainOf'[l] = domainOf[l]
    BY <1>4 DEF IInv, TypeOK
  <2>5. call'[c] = new /\ \A b \in Calls \ {c} : call'[b] = call[b]
    BY <2>2 DEF IInv, TypeOK
  <2>6. \A g \in call[c].gone : g \in Keys /\ g # k
    BY <1>2, <1>4, CallFields DEF Sound
  <2>7. Sound(new, state', domainOf')
    BY <1>1, <1>2, <1>4, <2>1, <2>3, <2>4, <2>6 DEF Sound
  <2>8. Ages(state, domainOf, state', domainOf')
    BY <1>4, <2>4 DEF Ages
  <2>9. \A b \in Calls \ {c} : Busy(b) /\ call[b].own =>
          call[b].key \in Keys /\ state[call[b].key] = "inserted" /\ call[b].key # k
    BY <1>4, Known DEF Sound
  <2>10. CallsSound' /\ call' \in [Calls -> CallStates \cup {NoCall}]
    BY <2>2, <2>4, <2>7, <2>8, <2>9, OneCallSteps DEF IInv
  <2>11. OverlapsKnown' /\ EvictedUnlessCrossed'
    BY <1>1, <2>1, <2>2, CrossingsKnown DEF IInv
  <2>12. OneOwner'
    BY <2>1, <2>5, <2>9 DEF IInv, OneOwner, Busy
  <2>13. \A l \in Keys : domainOf[l] = Domain(c) => state[l] \notin {"inserted", "live"}
    BY <1>1, <1>4 DEF FreeOfLiveKeys, Stored
  <2>14. OneKey'
    BY <2>4, <2>13 DEF IInv, OneKey
  <2>15. Domain(c) # NoDomain
    BY <2>3
  <2>16. /\ domainOf' \in [Keys -> Domains \cup {NoDomain}]
         /\ state' \in [Keys -> {"unused", "inserted", "live", "destroyed"}]
         /\ cache' \subseteq Keys
    BY <1>4, <2>3 DEF IInv, TypeOK
  <2>17. \A l \in Keys : state'[l] = "unused" <=> domainOf'[l] = NoDomain
    BY <2>4, <2>15 DEF IInv, TypeOK
  <2>18. ASSUME NEW l \in Keys, state'[l] = "inserted"
         PROVE  \E b \in Calls : call'[b] # NoCall /\ call'[b].own /\ call'[b].key = l
    <3>1. CASE l = k
      <4>1. new # NoCall
        BY <2>1, NotIdle
      <4> QED
        BY <2>1, <2>5, <3>1, <4>1
    <3>2. CASE l # k
      <4>1. PICK b \in Calls : call[b] # NoCall /\ call[b].own /\ call[b].key = l
        BY <2>4, <2>18, <3>2 DEF IInv, TypeOK
      <4> QED
        BY <1>2, <2>5, <4>1
    <3> QED
      BY <3>1, <3>2
  <2>19. TypeOK'
    BY <1>1, <2>10, <2>16, <2>17, <2>18 DEF IInv, TypeOK
  <2> QED
    BY <2>10, <2>11, <2>12, <2>14, <2>19 DEF IInv
<1> QED
  BY <1>3, <1>4 DEF InsertKey

\* A transaction that ends makes the key it inserted live, or takes it back.
LEMMA OwnKeySettles ==
  ASSUME IInv, NEW c \in Calls, Busy(c), call[c].own, NEW outcome \in {"unused", "live"},
         Returns(c), state' = KeyAfter(c, outcome),
         domainOf' = [k \in Keys |-> IF outcome = "unused" /\ k = call[c].key THEN NoDomain
                                     ELSE domainOf[k]],
         kek' \in BOOLEAN, fragment' \in [Domains -> Keys \cup {NoKey}],
         cache' = cache, made' = made, crossed' = crossed
  PROVE  IInv'
<1> DEFINE k == call[c].key
<1>1. Sound(call[c], state, domainOf) /\ k \in Keys /\ state[k] = "inserted"
  BY Known DEF Sound
<1>2. /\ state'[k] = outcome
      /\ \A l \in Keys \ {k} : state'[l] = state[l] /\ domainOf'[l] = domainOf[l]
      /\ domainOf'[k] = IF outcome = "unused" THEN NoDomain ELSE domainOf[k]
  BY <1>1 DEF KeyAfter
<1>3. /\ domainOf' \in [Keys -> Domains \cup {NoDomain}]
      /\ state' \in [Keys -> {"unused", "inserted", "live", "destroyed"}]
  BY DEF IInv, TypeOK, KeyAfter
<1>4. call'[c] = NoCall /\ \A b \in Calls \ {c} : call'[b] = call[b]
  BY DEF IInv, TypeOK, Returns
<1> HIDE DEF k
<1>5. Ages(state, domainOf, state', domainOf')
  BY <1>1, <1>2 DEF Ages
<1>6. \A b \in Calls \ {c} : Busy(b) /\ call[b].own => call[b].key \in Keys /\ call[b].key # k
  BY Known DEF Sound, IInv, OneOwner, k
<1>7. CallsSound' /\ call' \in [Calls -> CallStates \cup {NoCall}]
  BY <1>2, <1>5, <1>6, OneCallSteps DEF IInv, Returns
<1>8. OverlapsKnown' /\ EvictedUnlessCrossed'
  BY CrossingsKnown DEF IInv, Returns
<1>9. OneOwner'
  BY <1>4 DEF IInv, OneOwner, Busy
<1>10. OneKey'
  <2> SUFFICES ASSUME NEW l \in Keys, NEW m \in Keys,
                      state'[l] \in {"inserted", "live"}, state'[m] \in {"inserted", "live"},
                      domainOf'[l] = domainOf'[m]
               PROVE  l = m
    BY DEF OneKey
  <2>1. ASSUME NEW x \in Keys, state'[x] \in {"inserted", "live"}
        PROVE  state[x] \in {"inserted", "live"} /\ domainOf'[x] = domainOf[x]
    BY <1>1, <1>2, <2>1
  <2> QED
    BY <2>1 DEF IInv, OneKey
<1>11. \A l \in Keys : state'[l] = "unused" <=> domainOf'[l] = NoDomain
  BY <1>1, <1>2 DEF IInv, TypeOK
<1>12. ASSUME NEW l \in Keys, state'[l] = "inserted"
       PROVE  \E b \in Calls : call'[b] # NoCall /\ call'[b].own /\ call'[b].key = l
  <2>1. l # k /\ state[l] = "inserted"
    BY <1>2, <1>12
  <2>2. PICK b \in Calls : call[b] # NoCall /\ call[b].own /\ call[b].key = l
    BY <2>1 DEF IInv, TypeOK
  <2> QED
    BY <1>4, <2>1, <2>2 DEF k
<1>13. TypeOK'
  BY <1>3, <1>7, <1>11, <1>12 DEF IInv, TypeOK
<1> QED
  BY <1>7, <1>8, <1>9, <1>10, <1>13 DEF IInv

LEMMA AbandonIInv ==
  ASSUME IInv, NEW c \in Calls, Busy(c), Abandon(c),
         UNCHANGED <<kek, fragment, cache, made, crossed>>
  PROVE  IInv'
<1>1. CASE call[c].own
  <2>1. domainOf' = [k \in Keys |-> IF "unused" = "unused" /\ k = call[c].key THEN NoDomain
                                    ELSE domainOf[k]]
    BY <1>1 DEF Abandon
  <2> QED
    BY <1>1, <2>1, OwnKeySettles DEF Abandon, IInv, TypeOK
<1>2. CASE ~call[c].own
  <2>1. state' = state /\ domainOf' = domainOf
    BY <1>2 DEF Abandon, KeyAfter, IInv, TypeOK
  <2> QED
    BY <1>2, <2>1, KeysUntouched DEF Abandon, Returns, IInv, TypeOK
<1> QED
  BY <1>1, <1>2

LEMMA StoreFragmentIInv ==
  ASSUME IInv, NEW c \in Calls, StoreFragment(c)
  PROVE  IInv'
<1>1. /\ Busy(c) /\ call[c].op = "write" /\ call[c].step = "store"
      /\ UNCHANGED <<kek, fragment, cache, made, crossed>>
  BY DEF StoreFragment, At, Busy
<1>2. call[c] \in CallStates /\ Sound(call[c], state, domainOf)
  BY <1>1, Known
<1>3. CASE Moves(c, "commit") /\ state' = state /\ domainOf' = domainOf
  <2> DEFINE new == [call[c] EXCEPT !.step = "commit"]
  <2>1. /\ new \in CallStates /\ new.step = "commit" /\ new.op = "write"
        /\ new.own = call[c].own /\ new.gone = call[c].gone /\ new.domain = call[c].domain
        /\ new.key = call[c].key
    BY <1>1, <1>2, StepKept DEF Steps
  <2>2. call' = [call EXCEPT ![c] = new]
    BY <1>3 DEF Moves
  <2> HIDE DEF new
  <2>3. Sound(new, state, domainOf)
    BY <1>1, <1>2, <2>1 DEF Sound
  <2> QED
    BY <1>1, <1>2, <1>3, <2>1, <2>2, <2>3, NotIdle, KeysUntouched DEF IInv, TypeOK
<1> QED
  BY <1>1, <1>3, AbandonIInv DEF StoreFragment

LEMMA CommitWriteIInv ==
  ASSUME IInv, NEW c \in Calls, CommitWrite(c)
  PROVE  IInv'
<1>1. /\ Busy(c) /\ call[c].op = "write" /\ call[c].step = "commit"
      /\ kek' = (kek \/ call[c].ownKek)
      /\ fragment' = [fragment EXCEPT ![Domain(c)] = call[c].key]
      /\ Returns(c) /\ state' = KeyAfter(c, "live") /\ domainOf' = domainOf
      /\ made' = made /\ crossed' = crossed /\ cache' = cache
  BY DEF CommitWrite, At, Busy
<1>2. call[c] \in CallStates
  BY <1>1, Known
<1>3. kek' \in BOOLEAN
  BY <1>1
<1>4. fragment' \in [Domains -> Keys \cup {NoKey}]
  BY <1>1, <1>2, CallFields DEF IInv, TypeOK
<1>5. CASE call[c].own
  <2>1. domainOf' = [k \in Keys |-> IF "live" = "unused" /\ k = call[c].key THEN NoDomain
                                    ELSE domainOf[k]]
    BY <1>1 DEF IInv, TypeOK
  <2> QED
    BY <1>1, <1>3, <1>4, <1>5, <2>1, OwnKeySettles
<1>6. CASE ~call[c].own
  <2>1. state' = state
    BY <1>1, <1>6 DEF KeyAfter, IInv, TypeOK
  <2> QED
    BY <1>1, <1>3, <1>4, <1>6, <2>1, KeysUntouched DEF Returns, IInv, TypeOK
<1> QED
  BY <1>5, <1>6

LEMMA CommitEraseFacts ==
  ASSUME IInv, NEW c \in Calls, CommitErase(c)
  PROVE  LET k == call[c].key IN
         /\ Busy(c) /\ call[c].op = "erase" /\ ~call[c].own
         /\ k \in Keys /\ domainOf[k] = Domain(c) /\ state[k] \in {"live", "destroyed"}
         /\ state'[k] = "destroyed" /\ \A l \in Keys \ {k} : state'[l] = state[l]
         /\ domainOf' = domainOf /\ cache' = cache /\ crossed' = crossed
<1>1. /\ Busy(c) /\ call[c].op = "erase" /\ call[c].step = "commit"
      /\ state' = [state EXCEPT ![call[c].key] = "destroyed"]
      /\ domainOf' = domainOf /\ cache' = cache /\ crossed' = crossed
  BY DEF CommitErase, At, Busy
<1>2. Sound(call[c], state, domainOf)
  BY <1>1, Known
<1>3. /\ ~call[c].own /\ call[c].key \in Keys /\ domainOf[call[c].key] = call[c].domain
      /\ state[call[c].key] \in {"live", "destroyed"}
  BY <1>1, <1>2 DEF Sound
<1> QED
  BY <1>1, <1>3 DEF IInv, TypeOK, Domain

LEMMA CommitEraseIInv ==
  ASSUME IInv, NEW c \in Calls, CommitErase(c)
  PROVE  IInv'
<1> DEFINE k == call[c].key
<1>1. /\ Busy(c) /\ call[c].op = "erase" /\ ~call[c].own
      /\ k \in Keys /\ state[k] \in {"live", "destroyed"}
      /\ state'[k] = "destroyed" /\ \A l \in Keys \ {k} : state'[l] = state[l]
      /\ domainOf' = domainOf /\ cache' = cache /\ crossed' = crossed
  BY CommitEraseFacts
<1>2. call' = [call EXCEPT ![c] = NoCall] /\ kek' = kek /\ fragment' = fragment /\ made' = made
  BY DEF CommitErase, Returns
<1>3. call'[c] = NoCall /\ \A b \in Calls \ {c} : call'[b] = call[b]
  BY <1>2 DEF IInv, TypeOK
<1>4. state' \in [Keys -> {"unused", "inserted", "live", "destroyed"}]
  BY DEF CommitErase, IInv, TypeOK
<1> HIDE DEF k
<1>5. Ages(state, domainOf, state', domainOf')
  BY <1>1 DEF Ages
<1>6. \A b \in Calls \ {c} : Busy(b) /\ call[b].own => call[b].key \in Keys /\ call[b].key # k
  BY <1>1, Known DEF Sound
<1>7. CallsSound' /\ call' \in [Calls -> CallStates \cup {NoCall}]
  BY <1>1, <1>2, <1>5, <1>6, OneCallSteps DEF IInv
<1>8. OverlapsKnown' /\ EvictedUnlessCrossed'
  BY <1>1, <1>2, CrossingsKnown DEF IInv
<1>9. OneOwner'
  BY <1>3 DEF IInv, OneOwner, Busy
<1>10. \A l \in Keys : state'[l] \in {"inserted", "live"} => state[l] = state'[l]
  BY <1>1
<1>11. OneKey'
  BY <1>1, <1>10 DEF IInv, OneKey
<1>12. ASSUME NEW l \in Keys, state'[l] = "inserted"
       PROVE  \E b \in Calls : call'[b] # NoCall /\ call'[b].own /\ call'[b].key = l
  <2>1. PICK b \in Calls : call[b] # NoCall /\ call[b].own /\ call[b].key = l
    BY <1>10, <1>12 DEF IInv, TypeOK
  <2> QED
    BY <1>1, <1>3, <2>1
<1>13. \A l \in Keys : state'[l] = "unused" <=> domainOf'[l] = NoDomain
  BY <1>1 DEF IInv, TypeOK
<1>14. TypeOK'
  BY <1>1, <1>2, <1>4, <1>7, <1>12, <1>13 DEF IInv, TypeOK
<1> QED
  BY <1>7, <1>8, <1>9, <1>11, <1>14 DEF IInv

LEMMA ExpireIInv ==
  ASSUME IInv, NEW k \in Keys, Expire(k)
  PROVE  IInv'
<1>1. /\ cache' = cache \ {k} /\ call' = call /\ made' = made /\ crossed' = crossed
      /\ kek' = kek /\ domainOf' = domainOf /\ state' = state /\ fragment' = fragment
  BY DEF Expire, KeepsKeys
<1>2. TypeOK'
  BY <1>1 DEF IInv, TypeOK
<1>3. CallsSound' /\ OneOwner' /\ OneKey' /\ OverlapsKnown'
  BY <1>1 DEF IInv, CallsSound, OneOwner, OneKey, OverlapsKnown, Busy
<1>4. EvictedUnlessCrossed'
  BY <1>1 DEF IInv, EvictedUnlessCrossed, At
<1> QED
  BY <1>2, <1>3, <1>4 DEF IInv

LEMMA RollBackIInv ==
  ASSUME IInv, NEW c \in Calls, RollBack(c)
  PROVE  IInv'
  BY AbandonIInv DEF RollBack, Busy

LEMMA NextIInv == IInv /\ [Next]_vars => IInv'
<1> SUFFICES ASSUME IInv, [Next]_vars PROVE IInv'
  OBVIOUS
<1>1. CASE UNCHANGED vars
  BY <1>1 DEF IInv, TypeOK, CallsSound, OneOwner, OneKey, OverlapsKnown, EvictedUnlessCrossed,
              Busy, At, vars
<1>2. ASSUME NEW c \in Calls,
             \/ FindKey(c) \/ OpenKey(c) \/ FindKek(c) \/ InsertKey(c) \/ FindFragment(c)
             \/ StoreFragment(c) \/ CommitWrite(c)
      PROVE  IInv'
  BY <1>2, FindKeyIInv, OpenKeyIInv, FindKekIInv, InsertKeyIInv, FindFragmentIInv, StoreFragmentIInv,
     CommitWriteIInv
<1>3. ASSUME NEW c \in Calls,
             \/ ReadFragment(c) \/ LoadKey(c) \/ Release(c)
             \/ SelectKeys(c) \/ DestroyKey(c) \/ CommitErase(c)
             \/ RollBack(c)
      PROVE  IInv'
  BY <1>3, ReadFragmentIInv, LoadKeyIInv, ReleaseIInv, SelectKeysIInv, DestroyKeyIInv,
     CommitEraseIInv, RollBackIInv
<1> QED
  BY <1>1, <1>2, <1>3, RequestIInv, ExpireIInv DEF Next

LEMMA Invariant == Spec => []IInv
  BY InitIInv, NextIInv, PTL DEF Spec

-----------------------------------------------------------------------------
(* Theorems *)

\* Types hold of any number of domains, keys and calls.
THEOREM TypeCorrect == Spec => []TypeOK
<1>1. IInv => TypeOK
  BY DEF IInv
<1> QED
  BY <1>1, Invariant, PTL

\* Of any number of first writes, one makes the domain's live key.
THEOREM LiveKeyIsOne == Spec => []OneLiveKey
<1>1. IInv => OneLiveKey
  <2> SUFFICES ASSUME IInv, NEW d \in Domains
               PROVE  Cardinality(Stored(d, {"live"})) <= 1
    BY DEF OneLiveKey
  <2> DEFINE live == Stored(d, {"live"})
  <2>1. \A k, l \in live : k = l
    BY DEF IInv, OneKey, Stored
  <2> HIDE DEF live
  <2>2. live = {} \/ \E k : live = {k}
    BY <2>1
  <2>3. Cardinality(live) <= 1
    <3>1. CASE live = {}
      BY <3>1, FS_EmptySet
    <3>2. CASE \E k : live = {k}
      BY <3>2, FS_Singleton
    <3> QED
      BY <2>2, <3>1, <3>2
  <2> QED
    BY <2>3 DEF live
<1> QED
  BY <1>1, Invariant, PTL

\* A read that begins after an erasure returns nothing of what was erased, whatever
\* keys the cache holds and whatever else is in progress.
THEOREM ReadsEndWithTheKey == Spec => []NothingReadAfterErasure
<1>1. IInv => NothingReadAfterErasure
  BY Known DEF NothingReadAfterErasure, At, Busy, Sound
<1> QED
  BY <1>1, Invariant, PTL

\* A write that begins after an erasure makes no key for the erased domain.
THEOREM ErasedForGood == Spec => []NeverRecreated
<1>1. IInv => NeverRecreated
  BY Known DEF NeverRecreated, Domain, Busy, Sound
<1> QED
  BY <1>1, Invariant, PTL

\* What a step makes of a key's state, where it is not an erasure.
LEMMA KeysDieByErasure ==
  ASSUME IInv, Next, NEW k \in Keys, state'[k] = "destroyed"
  PROVE  state[k] = "destroyed" \/ \E c \in Calls : CommitErase(c) /\ call[c].key = k
<1>1. ASSUME NEW c \in Calls, NEW op, NEW d, Request(c, op, d)
      PROVE  state' = state
  BY <1>1, Zenon DEF Request, KeepsKeys
<1>2. ASSUME NEW c \in Calls,
             \/ FindKey(c) \/ OpenKey(c) \/ FindKek(c) \/ FindFragment(c) \/ ReadFragment(c)
             \/ LoadKey(c) \/ Release(c) \/ SelectKeys(c) \/ DestroyKey(c)
      PROVE  state' = state
  BY <1>2 DEF FindKey, OpenKey, FindKek, FindFragment, ReadFragment, LoadKey, Release,
              SelectKeys, DestroyKey, KeepsKeys
<1>3. ASSUME NEW c \in Calls, StoreFragment(c) \/ RollBack(c) \/ CommitWrite(c)
      PROVE  state[k] = "destroyed"
  <2>1. state' = state \/ state' = KeyAfter(c, "unused") \/ state' = KeyAfter(c, "live")
    BY <1>3 DEF StoreFragment, RollBack, CommitWrite, Abandon
  <2> QED
    BY <2>1 DEF KeyAfter
<1>4. ASSUME NEW c \in Calls, InsertKey(c)
      PROVE  state[k] = "destroyed"
  <2>1. state' = state \/ \E l \in Keys : state' = [state EXCEPT ![l] = "inserted"]
    BY <1>4 DEF InsertKey
  <2> QED
    BY <2>1 DEF IInv, TypeOK
<1>5. ASSUME NEW c \in Calls, CommitErase(c)
      PROVE  state[k] = "destroyed" \/ call[c].key = k
  BY <1>5, CommitEraseFacts
<1>6. ASSUME NEW l \in Keys, Expire(l)
      PROVE  state' = state
  BY <1>6 DEF Expire, KeepsKeys
<1> QED
  BY <1>1, <1>2, <1>3, <1>4, <1>5, <1>6 DEF Next

\* The erasure of one domain destroys no key of another.
THEOREM ErasureStaysInItsDomain == Spec => ErasureIsScoped
<1>1. IInv /\ [Next]_vars =>
        [\A k \in Keys : state[k] = "live" /\ state'[k] = "destroyed" =>
           \E c \in Calls : At(c, "erase", "commit") /\ Domain(c) = domainOf[k]]_vars
  <2> SUFFICES ASSUME IInv, Next, NEW k \in Keys, state[k] = "live", state'[k] = "destroyed"
               PROVE  \E c \in Calls : At(c, "erase", "commit") /\ Domain(c) = domainOf[k]
    OBVIOUS
  <2>1. PICK c \in Calls : CommitErase(c) /\ call[c].key = k
    BY KeysDieByErasure
  <2>2. domainOf[k] = Domain(c)
    BY <2>1, CommitEraseFacts
  <2>3. At(c, "erase", "commit")
    BY <2>1 DEF CommitErase
  <2> QED
    BY <2>2, <2>3
<1> QED
  BY <1>1, Invariant, PTL DEF Spec, ErasureIsScoped

\* Only a key that is not destroyed is put in the cache, or one whose row a call that
\* began before its destruction had selected.
Reopened(k) ==
  \E c \in Calls : /\ call[c] # NoCall /\ call[c].step = "open"
                   /\ call[c].key = k /\ k \notin call[c].gone

LEMMA NothingDeadIsCached ==
  ASSUME IInv, Next, NEW k \in Keys, k \in cache', k \notin cache
  PROVE  state'[k] # "destroyed" \/ Reopened(k)
<1>1. ASSUME NEW c \in Calls, NEW op, NEW d, Request(c, op, d)
      PROVE  FALSE
  BY <1>1 DEF Request
<1>2. ASSUME NEW c \in Calls,
             \/ FindKey(c) \/ FindKek(c) \/ FindFragment(c) \/ StoreFragment(c) \/ CommitWrite(c)
             \/ ReadFragment(c) \/ LoadKey(c) \/ Release(c) \/ SelectKeys(c) \/ DestroyKey(c)
             \/ CommitErase(c) \/ RollBack(c)
      PROVE  FALSE
  BY <1>2 DEF FindKey, FindKek, FindFragment, StoreFragment, CommitWrite, ReadFragment, LoadKey,
              Release, SelectKeys, DestroyKey, CommitErase, RollBack, EvictKey
<1>3. ASSUME NEW c \in Calls, OpenKey(c)
      PROVE  Reopened(k)
  <2>1. call[c] # NoCall /\ call[c].step = "open" /\ call[c].key = k
    BY <1>3 DEF OpenKey
  <2>2. call[c].key \notin call[c].gone
    BY <2>1, Known DEF Busy, Sound
  <2> QED
    BY <2>1, <2>2 DEF Reopened
<1>4. ASSUME NEW c \in Calls, InsertKey(c)
      PROVE  state'[k] = "inserted"
  <2>1. state' = [state EXCEPT ![k] = "inserted"]
    BY <1>4 DEF InsertKey
  <2> QED
    BY <2>1 DEF IInv, TypeOK
<1>5. ASSUME NEW l \in Keys, Expire(l)
      PROVE  FALSE
  BY <1>5 DEF Expire
<1> QED
  BY <1>1, <1>2, <1>3, <1>4, <1>5 DEF Next

\* A destroyed key is in memory only if a call that overlapped its erasure kept it
\* there or brings it back: a call that began after the erasure never does.
THEOREM DeadKeysAreNotCached == Spec => ErasedKeysLeaveTheCache
<1>1. IInv /\ [Next]_vars =>
        [\A k \in Keys : state'[k] = "destroyed" /\ k \in cache' =>
           \/ state[k] = "destroyed" /\ k \in cache
           \/ \E c \in crossed : At(c, "erase", "commit") /\ call[c].key = k
           \/ Reopened(k)]_vars
  <2> SUFFICES ASSUME IInv, Next, NEW k \in Keys, state'[k] = "destroyed", k \in cache',
                      ~(state[k] = "destroyed" /\ k \in cache), ~Reopened(k)
               PROVE  \E c \in crossed : At(c, "erase", "commit") /\ call[c].key = k
    OBVIOUS
  <2>1. k \in cache /\ state[k] # "destroyed"
    BY NothingDeadIsCached
  <2>2. PICK c \in Calls : CommitErase(c) /\ call[c].key = k
    BY <2>1, KeysDieByErasure
  <2>3. At(c, "erase", "commit")
    BY <2>2 DEF CommitErase
  <2>4. c \in crossed
    BY <2>1, <2>2, <2>3 DEF IInv, EvictedUnlessCrossed
  <2> QED
    BY <2>2, <2>3, <2>4
<1>2. IInv /\ [Next]_vars =>
        [\A k \in Keys : state'[k] = "destroyed" /\ k \in cache' =>
           \/ state[k] = "destroyed" /\ k \in cache
           \/ \E c \in crossed : At(c, "erase", "commit") /\ call[c].key = k
           \/ \E c \in Calls : /\ call[c] # NoCall /\ call[c].step = "open"
                              /\ call[c].key = k /\ k \notin call[c].gone]_vars
  BY <1>1 DEF Reopened
<1> QED
  BY <1>2, Invariant, PTL DEF Spec, ErasedKeysLeaveTheCache

-----------------------------------------------------------------------------
(* Assignments: what a sum comes to *)

\* Among sets of parts of a finite set there is one none of the others is a part of.
LEMMA LeastPart ==
  ASSUME NEW S, IsFiniteSet(S), NEW T, \A t \in T : t \subseteq S, T # {}
  PROVE  \E t \in T : \A u \in T : u \subseteq t => u = t
<1>1. T \subseteq FiniteSubsetsOf(S)
  BY FS_Subset DEF FiniteSubsetsOf
<1>2. PICK t \in T : \A u \in T : ~ (<<u, t>> \in StrictSubsetOrdering(S))
  BY <1>1, FS_StrictSubsetOrderingWellFounded, WFMin, Zenon
<1>3. ASSUME NEW u \in T, u \subseteq t PROVE u = t
  BY <1>2, <1>3 DEF StrictSubsetOrdering
<1> QED
  BY <1>3

\* A sum counts portions: of each element as many as it weighs by f.
Portions(f, S) == {p \in S \X Nat : p[2] \in 1..f[p[1]]}

\* The portions of an element and those of the others are all there are.
LEMMA PortionsSplit ==
  ASSUME NEW f, NEW S, NEW x \in S, f[x] \in Nat
  PROVE  /\ Portions(f, S) = Portions(f, S \ {x}) \cup ({x} \X (1..f[x]))
         /\ Portions(f, S \ {x}) \cap ({x} \X (1..f[x])) = {}
<1>1. ASSUME NEW p PROVE p \in Portions(f, S) <=> p \in Portions(f, S \ {x}) \cup ({x} \X (1..f[x]))
  <2>1. CASE p \in Portions(f, S)
    BY <2>1 DEF Portions
  <2>2. CASE p \in Portions(f, S \ {x}) \cup ({x} \X (1..f[x]))
    BY <2>2 DEF Portions
  <2> QED
    BY <2>1, <2>2
<1>2. ASSUME NEW p \in Portions(f, S \ {x}) PROVE p \notin {x} \X (1..f[x])
  BY DEF Portions
<1> QED
  BY <1>1, <1>2

\* There are finitely many.
LEMMA PortionsFinite ==
  ASSUME NEW S, IsFiniteSet(S), NEW f, \A x \in S : f[x] \in Nat
  PROVE  IsFiniteSet(Portions(f, S))
<1> DEFINE Bad == {s \in SUBSET S : ~ IsFiniteSet(Portions(f, s))}
<1> SUFFICES ASSUME Bad # {} PROVE FALSE
  OBVIOUS
<1>1. /\ Bad # {} /\ \A t \in Bad : t \subseteq S
      /\ \A s : s \in Bad <=> s \in SUBSET S /\ ~ IsFiniteSet(Portions(f, s))
  OBVIOUS
<1> HIDE DEF Bad
<1>2. PICK s \in Bad : \A u \in Bad : u \subseteq s => u = s
  BY <1>1, LeastPart
<1>3. s \in SUBSET S /\ ~ IsFiniteSet(Portions(f, s))
  BY <1>1, <1>2
<1>4. s # {}
  <2>1. Portions(f, {}) = {}
    BY DEF Portions
  <2> QED
    BY <1>3, <2>1, FS_EmptySet
<1>5. PICK x : x \in s
  BY <1>4
<1>6. s \ {x} \notin Bad /\ s \ {x} \in SUBSET S
  BY <1>2, <1>3, <1>5
<1>7. IsFiniteSet(Portions(f, s \ {x}))
  BY <1>1, <1>6
<1>8. f[x] \in Nat
  BY <1>3, <1>5
<1>9. IsFiniteSet({x} \X (1..f[x]))
  <2>1. IsFiniteSet({x}) /\ IsFiniteSet(1..f[x])
    <3>1. 1 \in Int /\ f[x] \in Int
      BY <1>8
    <3> QED
      BY <3>1, FS_Singleton, FS_Interval
  <2> QED
    BY <2>1, FS_Product
<1>10. Portions(f, s) = Portions(f, s \ {x}) \cup ({x} \X (1..f[x]))
  BY <1>5, <1>8, PortionsSplit
<1>11. IsFiniteSet(Portions(f, s \ {x}) \cup ({x} \X (1..f[x])))
  BY <1>7, <1>9, FS_Union
<1> QED
  BY <1>3, <1>10, <1>11

Total(f, S) == Cardinality(Portions(f, S))

\* A total is what an element weighs and the total of the others.
LEMMA TotalTakes ==
  ASSUME NEW S, IsFiniteSet(S), NEW f, \A x \in S : f[x] \in Nat
  PROVE  /\ Total(f, {}) = 0 /\ Total(f, S) \in Nat
         /\ \A x \in S : Total(f, S) = f[x] + Total(f, S \ {x})
<1>1. Total(f, {}) = 0
  <2>1. Portions(f, {}) = {}
    BY DEF Portions
  <2> QED
    BY <2>1, FS_EmptySet DEF Total
<1>2. Total(f, S) \in Nat
  BY PortionsFinite, FS_CardinalityType DEF Total
<1>3. ASSUME NEW x \in S PROVE Total(f, S) = f[x] + Total(f, S \ {x})
  <2> DEFINE own == {x} \X (1..f[x])
             others == Portions(f, S \ {x})
  <2>1. IsFiniteSet({x}) /\ Cardinality({x}) = 1
    BY FS_Singleton
  <2>2. f[x] \in Nat /\ IsFiniteSet(1..f[x]) /\ Cardinality(1..f[x]) = f[x]
    <3>1. 1 \in Int /\ f[x] \in Int /\ f[x] \in Nat
      OBVIOUS
    <3>2. IsFiniteSet(1..f[x]) /\ Cardinality(1..f[x]) = IF 1 > f[x] THEN 0 ELSE f[x] - 1 + 1
      BY <3>1, FS_Interval
    <3> QED
      BY <3>1, <3>2
  <2>3. IsFiniteSet(own) /\ Cardinality(own) = f[x]
    <3>1. IsFiniteSet(own) /\ Cardinality(own) = Cardinality({x}) * Cardinality(1..f[x])
      BY <2>1, <2>2, FS_Product
    <3> QED
      BY <2>1, <2>2, <3>1
  <2>4. IsFiniteSet(S \ {x}) /\ \A y \in S \ {x} : f[y] \in Nat
    BY FS_Subset
  <2>5. IsFiniteSet(others) /\ Cardinality(others) \in Nat
    BY <2>4, PortionsFinite, FS_CardinalityType
  <2>6. Portions(f, S) = others \cup own /\ others \cap own = {}
    BY <2>2, PortionsSplit
  <2> HIDE DEF own, others
  <2>7. Cardinality(others \cup own)
          = Cardinality(others) + Cardinality(own) - Cardinality(others \cap own)
    BY <2>3, <2>5, FS_Union
  <2>8. Cardinality(others \cap own) = 0
    BY <2>6, FS_EmptySet
  <2>9. Cardinality(others) = Total(f, S \ {x})
    BY DEF Total, others
  <2> QED
    BY <2>2, <2>3, <2>5, <2>6, <2>7, <2>8, <2>9 DEF Total
<1> QED
  BY <1>1, <1>2, <1>3

\* Of a part it is no more than of the whole, and it is of what the elements weigh.
LEMMA TotalOfPart ==
  ASSUME NEW S, IsFiniteSet(S), NEW f, \A x \in S : f[x] \in Nat, NEW R \in SUBSET S
  PROVE  Total(f, R) \in Nat /\ Total(f, R) <= Total(f, S)
<1>1. IsFiniteSet(Portions(f, S)) /\ Portions(f, R) \in SUBSET Portions(f, S)
  BY PortionsFinite DEF Portions
<1>2. IsFiniteSet(Portions(f, R)) /\ Cardinality(Portions(f, R)) <= Cardinality(Portions(f, S))
  BY <1>1, FS_Subset
<1> QED
  BY <1>2, FS_CardinalityType DEF Total

\* Sums of the same percents are the same.
LEMMA TotalOfSame ==
  ASSUME NEW S, NEW f, NEW g, \A x \in S : f[x] = g[x]
  PROVE  Total(f, S) = Total(g, S)
<1>1. Portions(f, S) = Portions(g, S)
  BY DEF Portions
<1> QED
  BY <1>1 DEF Total

Elem(s) == CHOOSE x \in s : TRUE

\* What a sum over a set is computed with, one element after the other.
Sums(g, f, S) ==
  g = [s \in SUBSET S |-> IF s = {} THEN 0 ELSE f[Elem(s)] + g[s \ {Elem(s)}]]

\* The computation comes to the total.
LEMMA SumsAreTotals ==
  ASSUME NEW S, IsFiniteSet(S), NEW f, \A x \in S : f[x] \in Nat
  PROVE  /\ \E g : Sums(g, f, S)
         /\ \A g : Sums(g, f, S) => g[S] = Total(f, S)
<1>0. ASSUME NEW s \in SUBSET S
      PROVE  /\ IsFiniteSet(s) /\ (s = {} => Total(f, s) = 0)
             /\ s # {} => /\ Elem(s) \in s /\ s \ {Elem(s)} \in SUBSET S
                          /\ Total(f, s) = f[Elem(s)] + Total(f, s \ {Elem(s)})
  <2>1. IsFiniteSet(s) /\ \A x \in s : f[x] \in Nat
    BY FS_Subset
  <2>2. Total(f, {}) = 0 /\ \A x \in s : Total(f, s) = f[x] + Total(f, s \ {x})
    BY <2>1, TotalTakes
  <2>3. s # {} => Elem(s) \in s
    BY DEF Elem
  <2> QED
    BY <2>1, <2>2, <2>3
<1>1. Sums([s \in SUBSET S |-> Total(f, s)], f, S)
  <2> DEFINE g == [s \in SUBSET S |-> Total(f, s)]
  <2>1. \A s \in SUBSET S : g[s] = IF s = {} THEN 0 ELSE f[Elem(s)] + g[s \ {Elem(s)}]
    BY <1>0
  <2>2. g = [s \in SUBSET S |-> g[s]]
    OBVIOUS
  <2> HIDE DEF g
  <2>3. Sums(g, f, S)
    BY <2>1, <2>2 DEF Sums
  <2> QED
    BY <2>3 DEF g
<1>2. ASSUME NEW g, Sums(g, f, S) PROVE g[S] = Total(f, S)
  <2>1. \A s \in SUBSET S : g[s] = IF s = {} THEN 0 ELSE f[Elem(s)] + g[s \ {Elem(s)}]
    BY <1>2 DEF Sums
  <2> DEFINE Bad == {s \in SUBSET S : g[s] # Total(f, s)}
  <2>2. /\ \A t \in Bad : t \subseteq S
        /\ \A s : s \in Bad <=> s \in SUBSET S /\ g[s] # Total(f, s)
    OBVIOUS
  <2> HIDE DEF Bad
  <2>3. SUFFICES ASSUME Bad # {} PROVE FALSE
    BY <2>2
  <2>4. PICK s \in Bad : \A u \in Bad : u \subseteq s => u = s
    BY <2>2, <2>3, LeastPart
  <2>5. s \in SUBSET S /\ g[s] # Total(f, s)
    BY <2>2, <2>4
  <2>6. s # {}
    BY <1>0, <2>1, <2>5
  <2>7. PICK x : x = Elem(s)
    OBVIOUS
  <2>8. /\ x \in s /\ s \ {x} \in SUBSET S /\ g[s] = f[x] + g[s \ {x}]
        /\ Total(f, s) = f[x] + Total(f, s \ {x})
    BY <1>0, <2>1, <2>5, <2>6, <2>7
  <2>9. s \ {x} \notin Bad
    BY <2>4, <2>8
  <2>10. g[s \ {x}] = Total(f, s \ {x})
    BY <2>2, <2>8, <2>9
  <2> QED
    BY <2>5, <2>8, <2>10
<1> QED
  BY <1>1, <1>2

-----------------------------------------------------------------------------
(* Assignments and rate cards: the inductive invariant *)

Rates == Overrides \cup Lines \cup {NoRate, DefaultDaily \div 8}

AssignmentRow ==
  [employee : Employees, status : {"Active", "Canceled"}, start : Staffed!Days, end : Staffed!Days,
   pct : Percents, card : Nat, override : Overrides \cup {NoRate}, rate : Rates,
   reason : BOOLEAN, version : Nat]
EdgeRow == [from : Nat, to : Nat, open : BOOLEAN]
CardRow == [active : BOOLEAN, row : Nat, version : Nat, supersedes : Nat, line : Lines]
RateRequest ==
  [op : {"set", "clear"}, assignment : Nat, override : Overrides \cup {NoRate}, rate : Rates]

StaffingType ==
  /\ assignments \in Seq(AssignmentRow) /\ governed \in Seq(EdgeRow) /\ cards \in Seq(CardRow)
  /\ \A a \in Staffed!Rows(assignments) :
       assignments[a].card \in {Staffed!NoCard} \cup Staffed!Rows(cards)
  /\ pending \subseteq RateRequest
  /\ \A r \in pending : r.assignment \in Staffed!Rows(assignments)
  /\ working \subseteq Staffed!Days /\ opened \subseteq Staffed!Days

\* An edge begins at an assignment there is; an assignment has the one open edge its card names.
EdgesNameTheCard ==
  /\ \A g \in Staffed!Rows(governed) : governed[g].from \in Staffed!Rows(assignments)
  /\ \A g \in Staffed!Rows(governed) :
       governed[g].open => /\ governed[g].to = assignments[governed[g].from].card
                           /\ governed[g].to # Staffed!NoCard
  /\ \A g, h \in Staffed!Rows(governed) :
       governed[g].open /\ governed[h].open /\ governed[g].from = governed[h].from => g = h
  /\ \A a \in Staffed!Rows(assignments) :
       assignments[a].card # Staffed!NoCard
         => \E g \in Staffed!Rows(governed) : governed[g].from = a /\ governed[g].open

\* A card supersedes an earlier one, no two the same, and is active until one supersedes it.
CardsInLine ==
  /\ \A c \in Staffed!Rows(cards) : cards[c].supersedes < c
  /\ \A c \in Staffed!Rows(cards) :
       cards[c].active <=> \A k \in Staffed!Rows(cards) : cards[k].supersedes # c
  /\ \A c, k \in Staffed!Rows(cards) :
       cards[c].supersedes = cards[k].supersedes => c = k \/ cards[c].supersedes = Staffed!NoCard

\* What an assignment takes, and which assignments of a person take some of a day: those that
\* were made or changed under the check alone, and all.
Weight(rows) == [a \in 1..Len(rows) |-> rows[a].pct]
Taking(rows, e, d) ==
  {a \in 1..Len(rows) : /\ rows[a].employee = e /\ rows[a].status = "Active"
                        /\ rows[a].start <= d /\ d <= rows[a].end}
Ordinary(rows, e, d) == {a \in Taking(rows, e, d) : ~rows[a].reason}

\* Without those an override was recorded for, nobody has more than a day, but for a day that
\* was not worked when they were made.
OrdinaryFits ==
  \A e \in Employees, d \in working \ opened :
    Total(Weight(assignments), Ordinary(assignments, e, d)) <= Staffed!Capacity

StaffingIInv == StaffingType /\ EdgesNameTheCard /\ CardsInLine /\ OrdinaryFits

-----------------------------------------------------------------------------
(* A day's capacity *)

\* What the others of a person take of a day is a total of theirs (capacityTotalsFor).
LEMMA TotalOnIsTotal ==
  ASSUME assignments \in Seq(AssignmentRow), NEW e \in Employees, NEW d \in Staffed!Days, NEW except
  PROVE  Staffed!TotalOn(e, d, except)
           = Total(Weight(assignments), Taking(assignments, e, d) \ except)
<1> DEFINE S == {a \in Staffed!ActiveOf(e) \ except : Staffed!Covers(a, d)}
           f == Weight(assignments)
           P(g) == g = [s \in SUBSET S |-> IF s = {} THEN 0
                                           ELSE assignments[Elem(s)].pct + g[s \ {Elem(s)}]]
<1>1. Staffed!TotalOn(e, d, except) = (CHOOSE g : P(g))[S]
  BY DEF Staffed!TotalOn, Staffed!MapThenSumSet, Staffed!MapThenFoldSet, Elem
<1>2. S = Taking(assignments, e, d) \ except
  BY DEF Staffed!ActiveOf, Staffed!Covers, Staffed!Rows, Taking
<1>3. S \in SUBSET (1..Len(assignments)) /\ Len(assignments) \in Nat
  BY DEF Staffed!ActiveOf, Staffed!Rows
<1>4. IsFiniteSet(S) /\ \A x \in S : f[x] = assignments[x].pct /\ f[x] \in Nat
  <2>1. IsFiniteSet(1..Len(assignments))
    BY <1>3, FS_Interval
  <2>2. \A x \in 1..Len(assignments) : assignments[x] \in AssignmentRow
    OBVIOUS
  <2> QED
    BY <1>3, <2>1, <2>2, FS_Subset, StaffingAssumption DEF Weight, AssignmentRow
<1> HIDE DEF f
<1>5. \A s \in SUBSET S : s # {} => f[Elem(s)] = assignments[Elem(s)].pct
  BY <1>4 DEF Elem
<1>6. \A g : P(g) <=> Sums(g, f, S)
  BY <1>5 DEF Sums
<1> HIDE DEF P, S
<1>7. PICK g : g = CHOOSE h : P(h)
  OBVIOUS
<1>8. (\E h : Sums(h, f, S)) /\ \A h : Sums(h, f, S) => h[S] = Total(f, S)
  BY <1>4, SumsAreTotals
<1>9. Sums(g, f, S)
  BY <1>6, <1>7, <1>8
<1>10. g[S] = Total(f, S)
  BY <1>8, <1>9
<1> QED
  BY <1>1, <1>2, <1>7, <1>10 DEF f

\* Of rows whose numbers, but n's, keep what they take, the ordinary ones still fit: when n is
\* not one of them, or when it fits with all the others.
LEMMA StillFits ==
  ASSUME NEW rows \in Seq(AssignmentRow), NEW more \in Seq(AssignmentRow), NEW n \in 1..Len(more),
         \A a \in 1..Len(more) : a # n => /\ a \in 1..Len(rows)
                                          /\ more[a].employee = rows[a].employee
                                          /\ more[a].status = rows[a].status
                                          /\ more[a].start = rows[a].start
                                          /\ more[a].end = rows[a].end
                                          /\ more[a].pct = rows[a].pct
                                          /\ more[a].reason = rows[a].reason,
         NEW e, NEW d,
         Total(Weight(rows), Ordinary(rows, e, d)) <= 100,
         \/ n \notin Ordinary(more, e, d)
         \/ Total(Weight(rows), Taking(rows, e, d) \ {n}) + more[n].pct <= 100
  PROVE  Total(Weight(more), Ordinary(more, e, d)) <= 100
<1> DEFINE f == Weight(rows)
           g == Weight(more)
           now == Ordinary(more, e, d)
           others == now \ {n}
<1>1. /\ IsFiniteSet(1..Len(rows)) /\ IsFiniteSet(1..Len(more))
      /\ \A a \in 1..Len(rows) : f[a] = rows[a].pct /\ f[a] \in Nat
      /\ \A a \in 1..Len(more) : g[a] = more[a].pct /\ g[a] \in Nat
  <2>1. 1 \in Int /\ Len(rows) \in Int /\ Len(more) \in Int
    OBVIOUS
  <2>2. IsFiniteSet(1..Len(rows)) /\ IsFiniteSet(1..Len(more))
    BY <2>1, FS_Interval
  <2>3. /\ \A a \in 1..Len(rows) : rows[a] \in AssignmentRow
        /\ \A a \in 1..Len(more) : more[a] \in AssignmentRow
    OBVIOUS
  <2> QED
    BY <2>2, <2>3, StaffingAssumption DEF Weight, AssignmentRow
<1>2. /\ Ordinary(rows, e, d) \in SUBSET (1..Len(rows)) /\ now \in SUBSET (1..Len(more))
      /\ others \in SUBSET Ordinary(rows, e, d)
      /\ others \in SUBSET (Taking(rows, e, d) \ {n})
      /\ Taking(rows, e, d) \ {n} \in SUBSET (1..Len(rows))
      /\ \A a \in others : a # n /\ a \in 1..Len(more)
  BY DEF Ordinary, Taking
<1> HIDE DEF f, g
<1>3. \A a \in others : f[a] = g[a]
  BY <1>1, <1>2
<1> HIDE DEF now, others
<1>4. Total(f, others) = Total(g, others)
  BY <1>3, TotalOfSame
<1>5. /\ IsFiniteSet(Ordinary(rows, e, d)) /\ IsFiniteSet(now)
      /\ IsFiniteSet(Taking(rows, e, d) \ {n})
      /\ \A a \in Ordinary(rows, e, d) : f[a] \in Nat
      /\ \A a \in Taking(rows, e, d) \ {n} : f[a] \in Nat
      /\ \A a \in now : g[a] \in Nat
  BY <1>1, <1>2, FS_Subset
<1>6. Total(f, others) \in Nat /\ Total(f, others) <= Total(f, Ordinary(rows, e, d))
  BY <1>2, <1>5, TotalOfPart
<1>7. Total(f, others) <= Total(f, Taking(rows, e, d) \ {n})
  BY <1>2, <1>5, TotalOfPart
<1>8. /\ Total(f, Ordinary(rows, e, d)) \in Nat /\ Total(f, Taking(rows, e, d) \ {n}) \in Nat
      /\ \A a \in now : Total(g, now) = g[a] + Total(g, now \ {a})
  BY <1>5, TotalTakes
<1>9. CASE n \notin now
  <2>1. others = now
    BY <1>9 DEF others
  <2> QED
    BY <1>4, <1>6, <1>8, <2>1 DEF f, g, now
<1>10. CASE n \in now
  <2>1. Total(f, Taking(rows, e, d) \ {n}) + g[n] <= 100
    BY <1>1, <1>10 DEF f, now
  <2>2. Total(g, now) = g[n] + Total(g, others)
    BY <1>8, <1>10 DEF others
  <2>3. g[n] \in Nat
    BY <1>1
  <2> QED
    BY <1>4, <1>6, <1>7, <1>8, <2>1, <2>2, <2>3 DEF g, now
<1> QED
  BY <1>9, <1>10

\* Rows that keep what they take fit as they did.
LEMMA FitsAsBefore ==
  ASSUME NEW rows \in Seq(AssignmentRow), NEW more \in Seq(AssignmentRow), Len(more) = Len(rows),
         \A a \in 1..Len(rows) : /\ more[a].employee = rows[a].employee
                                 /\ more[a].status = rows[a].status
                                 /\ more[a].start = rows[a].start
                                 /\ more[a].end = rows[a].end
                                 /\ more[a].pct = rows[a].pct
                                 /\ more[a].reason = rows[a].reason,
         NEW e, NEW d
  PROVE  Total(Weight(more), Ordinary(more, e, d)) = Total(Weight(rows), Ordinary(rows, e, d))
<1>1. Ordinary(more, e, d) = Ordinary(rows, e, d)
  BY DEF Ordinary, Taking
<1>2. \A a \in Ordinary(rows, e, d) : Weight(more)[a] = Weight(rows)[a]
  BY DEF Weight, Ordinary, Taking
<1> QED
  BY <1>1, <1>2, TotalOfSame

\* A day more than a person has carries an override, as far as it was worked before.
LEMMA ExplainedHolds ==
  ASSUME StaffingIInv
  PROVE  OvercommitIsExplained
<1> SUFFICES ASSUME NEW e \in Employees, NEW d \in Staffed!OverDays(e), d \notin opened,
                    ~ Staffed!HasRecordedOverride(e, d)
             PROVE  FALSE
  BY DEF OvercommitIsExplained, Staffed!OvercommitIsExplained
<1>1. d \in working /\ d \in Staffed!Days /\ Staffed!TotalOn(e, d, {}) > 100
  BY DEF StaffingIInv, StaffingType, Staffed!OverDays, Staffed!Capacity
<1>2. assignments \in Seq(AssignmentRow)
  BY DEF StaffingIInv, StaffingType
<1>3. Staffed!TotalOn(e, d, {}) = Total(Weight(assignments), Taking(assignments, e, d) \ {})
  BY <1>1, <1>2, TotalOnIsTotal
<1>4. Taking(assignments, e, d) \ {} = Ordinary(assignments, e, d)
  BY DEF Staffed!HasRecordedOverride, Staffed!ActiveOf, Staffed!Covers, Staffed!Rows, Taking, Ordinary
<1>5. Total(Weight(assignments), Ordinary(assignments, e, d)) <= 100
  BY <1>1 DEF StaffingIInv, OrdinaryFits, Staffed!Capacity
<1>6. Total(Weight(assignments), Ordinary(assignments, e, d)) > 100
  BY <1>1, <1>3, <1>4
<1>7. Total(Weight(assignments), Ordinary(assignments, e, d)) \in Nat
  <2>1. Len(assignments) \in Nat /\ \A a \in 1..Len(assignments) : assignments[a] \in AssignmentRow
    BY <1>2
  <2>2. IsFiniteSet(1..Len(assignments))
    BY <2>1, FS_Interval
  <2>3. IsFiniteSet(Ordinary(assignments, e, d))
    BY <2>2, FS_Subset DEF Ordinary, Taking
  <2>4. \A a \in Ordinary(assignments, e, d) : Weight(assignments)[a] \in Nat
    BY <2>1, StaffingAssumption DEF Ordinary, Taking, Weight, AssignmentRow
  <2> QED
    BY <2>3, <2>4, TotalTakes
<1> QED
  BY <1>5, <1>6, <1>7

\* A row of a table that is written.
LEMMA RowWritten ==
  ASSUME NEW R, NEW table \in Seq(R), NEW k \in 1..Len(table), NEW row \in R
  PROVE  /\ [table EXCEPT ![k] = row] \in Seq(R)
         /\ Len([table EXCEPT ![k] = row]) = Len(table)
         /\ [table EXCEPT ![k] = row][k] = row
         /\ \A j \in 1..Len(table) : j # k => [table EXCEPT ![k] = row][j] = table[j]
OBVIOUS

\* A row that is added.
LEMMA RowAdded ==
  ASSUME NEW R, NEW table \in Seq(R), NEW row \in R
  PROVE  /\ Append(table, row) \in Seq(R)
         /\ Len(table) \in Nat /\ Len(Append(table, row)) = Len(table) + 1
         /\ Append(table, row)[Len(table) + 1] = row
         /\ \A j \in 1..Len(table) : Append(table, row)[j] = table[j]
OBVIOUS

\* A rate is an override, a line of a card or the default.
LEMMA RateIsARate ==
  ASSUME StaffingType, NEW caller, NEW card \in {Staffed!NoCard} \cup Staffed!Rows(cards),
         NEW override \in Overrides \cup {NoRate}
  PROVE  Staffed!ResolvedRate(caller, card, override) \in Rates
<1>1. Staffed!LineOf(card) \in Lines \cup {NoRate}
  <2>1. ASSUME card # Staffed!NoCard PROVE cards[card] \in CardRow
    BY <2>1 DEF StaffingType, Staffed!Rows
  <2> QED
    BY <2>1 DEF Staffed!LineOf, CardRow
<1>2. Staffed!LineSeenBy(caller, card) \in Lines \cup {NoRate}
  BY <1>1 DEF Staffed!LineSeenBy
<1> QED
  BY <1>2 DEF Staffed!ResolvedRate, Staffed!ResolveAssignmentRate, Staffed!HoursPerDay, Rates

\* A row of an assignment that is written and keeps its card leaves the edges and the cards.
LEMMA AssignmentWritten ==
  ASSUME StaffingIInv, NEW a \in Staffed!Rows(assignments), NEW row \in AssignmentRow,
         assignments' = [assignments EXCEPT ![a] = row], row.card = assignments[a].card,
         UNCHANGED <<governed, cards, working, opened>>,
         pending' \subseteq pending
  PROVE  /\ StaffingType' /\ EdgesNameTheCard' /\ CardsInLine'
         /\ Len(assignments') = Len(assignments) /\ assignments'[a] = row
         /\ \A b \in Staffed!Rows(assignments) : b # a => assignments'[b] = assignments[b]
<1>1. StaffingType /\ EdgesNameTheCard /\ CardsInLine
  BY DEF StaffingIInv
<1>2. PICK more : more = assignments'
  OBVIOUS
<1>3. /\ more \in Seq(AssignmentRow) /\ Len(more) = Len(assignments) /\ more[a] = row
      /\ \A b \in Staffed!Rows(assignments) : b # a => more[b] = assignments[b]
  <2>1. assignments \in Seq(AssignmentRow) /\ a \in 1..Len(assignments)
    BY <1>1 DEF StaffingType, Staffed!Rows
  <2> QED
    BY <1>2, <2>1, RowWritten DEF Staffed!Rows
<1>4. \A b \in Staffed!Rows(assignments) : more[b].card = assignments[b].card
  BY <1>3
<1>5. Staffed!Rows(assignments)' = Staffed!Rows(assignments)
  BY <1>2, <1>3 DEF Staffed!Rows
<1>6. Staffed!Rows(cards)' = Staffed!Rows(cards) /\ Staffed!Rows(governed)' = Staffed!Rows(governed)
  BY DEF Staffed!Rows
<1>7. StaffingType'
  BY <1>1, <1>2, <1>3, <1>4, <1>5, <1>6 DEF StaffingType
<1>8. EdgesNameTheCard'
  BY <1>1, <1>2, <1>4, <1>5, <1>6 DEF EdgesNameTheCard
<1>9. CardsInLine'
  BY <1>1, <1>6 DEF CardsInLine
<1> QED
  BY <1>2, <1>3, <1>7, <1>8, <1>9

\* A change of dates and percentage that fits with all the others leaves what fits.
LEMMA UpdateKeeps ==
  ASSUME StaffingIInv, NEW a \in Staffed!Rows(assignments), NEW start \in Staffed!Days,
         NEW end \in Staffed!Days, NEW pct \in Percents, Staffed!AssignmentUpdate(a, start, end, pct)
  PROVE  StaffingIInv'
<1> DEFINE old == assignments[a]
           next == old.version + 1
           row == [old EXCEPT !.start = start, !.end = end, !.pct = pct, !.version = next]
<1>1. assignments \in Seq(AssignmentRow) /\ a \in 1..Len(assignments) /\ old \in AssignmentRow
  BY DEF StaffingIInv, StaffingType, Staffed!Rows
<1>a. next \in Nat
  BY <1>1 DEF AssignmentRow
<1> HIDE DEF next
<1>2. row \in AssignmentRow /\ row.card = old.card /\ row.reason = old.reason
      /\ row.employee = old.employee /\ row.start = start /\ row.end = end /\ row.pct = pct
  BY <1>1, <1>a DEF AssignmentRow
<1>3. assignments' = [assignments EXCEPT ![a] = row]
      /\ UNCHANGED <<governed, cards, pending, working, opened>>
  BY <1>1 DEF Staffed!AssignmentUpdate, next
<1> HIDE DEF row, old
<1>4. /\ StaffingType' /\ EdgesNameTheCard' /\ CardsInLine'
      /\ Len(assignments') = Len(assignments) /\ assignments'[a] = row
      /\ \A b \in Staffed!Rows(assignments) : b # a => assignments'[b] = assignments[b]
  BY <1>2, <1>3, AssignmentWritten DEF old
<1>5. ASSUME NEW e \in Employees, NEW d \in working \ opened
      PROVE  Total(Weight(assignments'), Ordinary(assignments', e, d)) <= 100
  <2>1. Total(Weight(assignments), Ordinary(assignments, e, d)) <= 100
    BY DEF StaffingIInv, OrdinaryFits, Staffed!Capacity
  <2>2. d \in Staffed!Days /\ d \in working
    BY DEF StaffingIInv, StaffingType
  <2>3. \/ a \notin Ordinary(assignments', e, d)
        \/ Total(Weight(assignments), Taking(assignments, e, d) \ {a}) + assignments'[a].pct <= 100
    <3>1. CASE old.employee = e /\ start <= d /\ d <= end
      <4>1. d \in (start..end) \cap working
        BY <2>2, <3>1 DEF Staffed!Days
      <4>2. Staffed!TotalOn(e, d, {a}) + pct <= 100
        BY <3>1, <4>1 DEF Staffed!AssignmentUpdate, Staffed!FitsCapacity, Staffed!Capacity, old
      <4>3. Staffed!TotalOn(e, d, {a}) = Total(Weight(assignments), Taking(assignments, e, d) \ {a})
        BY <1>1, <2>2, TotalOnIsTotal
      <4> QED
        BY <1>2, <1>4, <4>2, <4>3
    <3>2. CASE ~ (old.employee = e /\ start <= d /\ d <= end)
      BY <1>2, <1>4, <3>2 DEF Ordinary, Taking
    <3> QED
      BY <3>1, <3>2
  <2>4. assignments' \in Seq(AssignmentRow) /\ a \in 1..Len(assignments')
    BY <1>1, <1>4 DEF StaffingType
  <2>5. \A b \in 1..Len(assignments') : b # a => b \in 1..Len(assignments) /\ assignments'[b] = assignments[b]
    BY <1>4 DEF Staffed!Rows
  <2> QED
    BY <1>1, <2>1, <2>3, <2>4, <2>5, StillFits
<1>6. OrdinaryFits'
  BY <1>3, <1>5 DEF OrdinaryFits, Staffed!Capacity, Total, Weight, Ordinary, Taking, Portions
<1> QED
  BY <1>4, <1>6 DEF StaffingIInv

\* A cancellation leaves the others.
LEMMA CancelKeeps ==
  ASSUME StaffingIInv, NEW a \in Staffed!Rows(assignments), NEW v, Staffed!AssignmentCancel(a, v)
  PROVE  StaffingIInv'
<1> DEFINE old == assignments[a]
           next == old.version + 1
           row == [old EXCEPT !.status = "Canceled", !.version = next]
<1>1. assignments \in Seq(AssignmentRow) /\ a \in 1..Len(assignments) /\ old \in AssignmentRow
  BY DEF StaffingIInv, StaffingType, Staffed!Rows
<1>a. next \in Nat
  BY <1>1 DEF AssignmentRow
<1> HIDE DEF next
<1>2. row \in AssignmentRow /\ row.card = old.card /\ row.status = "Canceled"
  BY <1>1, <1>a DEF AssignmentRow
<1>3. assignments' = [assignments EXCEPT ![a] = row]
      /\ UNCHANGED <<governed, cards, pending, working, opened>>
  BY <1>1 DEF Staffed!AssignmentCancel, next
<1> HIDE DEF row, old
<1>4. /\ StaffingType' /\ EdgesNameTheCard' /\ CardsInLine'
      /\ Len(assignments') = Len(assignments) /\ assignments'[a] = row
      /\ \A b \in Staffed!Rows(assignments) : b # a => assignments'[b] = assignments[b]
  BY <1>2, <1>3, AssignmentWritten DEF old
<1>5. ASSUME NEW e \in Employees, NEW d \in working \ opened
      PROVE  Total(Weight(assignments'), Ordinary(assignments', e, d)) <= 100
  <2>1. Total(Weight(assignments), Ordinary(assignments, e, d)) <= 100
    BY DEF StaffingIInv, OrdinaryFits, Staffed!Capacity
  <2>3. a \notin Ordinary(assignments', e, d)
    BY <1>2, <1>4 DEF Ordinary, Taking
  <2>4. assignments' \in Seq(AssignmentRow) /\ a \in 1..Len(assignments')
    BY <1>1, <1>4 DEF StaffingType
  <2>5. \A b \in 1..Len(assignments') : b # a => b \in 1..Len(assignments) /\ assignments'[b] = assignments[b]
    BY <1>4 DEF Staffed!Rows
  <2> QED
    BY <1>1, <2>1, <2>3, <2>4, <2>5, StillFits
<1>6. OrdinaryFits'
  BY <1>3, <1>5 DEF OrdinaryFits, Staffed!Capacity, Total, Weight, Ordinary, Taking, Portions
<1> QED
  BY <1>4, <1>6 DEF StaffingIInv

\* A rate that is written leaves what an assignment takes.
LEMMA RateWriteKeeps ==
  ASSUME StaffingIInv, NEW r \in pending, Staffed!RateOverrideWrite(r)
  PROVE  StaffingIInv'
<1> DEFINE a == r.assignment
           old == assignments[a]
           next == old.version + 1
           row == [old EXCEPT !.override = r.override, !.rate = r.rate, !.version = next]
<1>0. r \in RateRequest /\ a \in Staffed!Rows(assignments)
  BY DEF StaffingIInv, StaffingType
<1>1. assignments \in Seq(AssignmentRow) /\ a \in 1..Len(assignments) /\ old \in AssignmentRow
  BY <1>0 DEF StaffingIInv, StaffingType, Staffed!Rows
<1>a. next \in Nat
  BY <1>1 DEF AssignmentRow
<1> HIDE DEF next
<1>2. row \in AssignmentRow /\ row.card = old.card /\ row.employee = old.employee
      /\ row.status = old.status /\ row.start = old.start /\ row.end = old.end /\ row.pct = old.pct
      /\ row.reason = old.reason
  BY <1>0, <1>1, <1>a DEF AssignmentRow, RateRequest
<1>3. assignments' = [assignments EXCEPT ![a] = row] /\ pending' \subseteq pending
      /\ UNCHANGED <<governed, cards, working, opened>>
  BY <1>1 DEF Staffed!RateOverrideWrite, next
<1> HIDE DEF row, old, a
<1>4. /\ StaffingType' /\ EdgesNameTheCard' /\ CardsInLine'
      /\ Len(assignments') = Len(assignments) /\ assignments'[a] = row
      /\ \A b \in Staffed!Rows(assignments) : b # a => assignments'[b] = assignments[b]
  BY <1>0, <1>2, <1>3, AssignmentWritten DEF old
<1>5. ASSUME NEW e \in Employees, NEW d \in working \ opened
      PROVE  Total(Weight(assignments'), Ordinary(assignments', e, d)) <= 100
  <2>1. Total(Weight(assignments), Ordinary(assignments, e, d)) <= 100
    BY DEF StaffingIInv, OrdinaryFits, Staffed!Capacity
  <2>2. assignments' \in Seq(AssignmentRow)
    BY <1>4 DEF StaffingType
  <2>3. \A b \in 1..Len(assignments) :
          /\ assignments'[b].employee = assignments[b].employee
          /\ assignments'[b].status = assignments[b].status
          /\ assignments'[b].start = assignments[b].start
          /\ assignments'[b].end = assignments[b].end
          /\ assignments'[b].pct = assignments[b].pct
          /\ assignments'[b].reason = assignments[b].reason
    BY <1>2, <1>4 DEF Staffed!Rows, old
  <2> QED
    BY <1>1, <1>4, <2>1, <2>2, <2>3, FitsAsBefore, SMTT(30)
<1>6. OrdinaryFits'
  BY <1>3, <1>5 DEF OrdinaryFits, Staffed!Capacity, Total, Weight, Ordinary, Taking, Portions
<1> QED
  BY <1>4, <1>6 DEF StaffingIInv

\* A create writes a row and, with a card, its edge.
LEMMA BuildRows ==
  ASSUME StaffingIInv, NEW caller, NEW e \in Employees, NEW start \in Staffed!Days,
         NEW end \in Staffed!Days, NEW pct \in Percents, NEW card \in Staffed!CardChoices,
         NEW reason \in BOOLEAN, Staffed!Build(caller, e, start, end, pct, card, reason)
  PROVE  \E row \in AssignmentRow :
           /\ assignments' = Append(assignments, row) /\ StaffingType' /\ EdgesNameTheCard'
           /\ CardsInLine' /\ UNCHANGED <<working, opened>>
           /\ row.employee = e /\ row.status = "Active" /\ row.start = start /\ row.end = end
           /\ row.pct = pct /\ row.reason = reason
<1> DEFINE row == Staffed!NewAssignment(e, start, end, pct, card,
                                        Staffed!ResolvedRate(caller, card, NoRate), reason)
<1>0. /\ StaffingType /\ EdgesNameTheCard /\ CardsInLine
      /\ assignments \in Seq(AssignmentRow) /\ governed \in Seq(EdgeRow) /\ cards \in Seq(CardRow)
  BY DEF StaffingIInv, StaffingType
<1>1. card \in {Staffed!NoCard} \cup Staffed!Rows(cards) /\ card \in Nat
  BY <1>0 DEF Staffed!CardChoices, Staffed!Rows, Staffed!NoCard
<1>2. Staffed!ResolvedRate(caller, card, NoRate) \in Rates
  BY <1>0, <1>1, RateIsARate
<1>3. row \in AssignmentRow /\ row.employee = e /\ row.status = "Active" /\ row.start = start
      /\ row.end = end /\ row.pct = pct /\ row.reason = reason /\ row.card = card
  BY <1>1, <1>2 DEF Staffed!NewAssignment, AssignmentRow
<1>4. /\ assignments' = Append(assignments, row)
      /\ governed' = governed \o Staffed!NewEdge(Len(assignments) + 1, card)
      /\ UNCHANGED <<cards, pending, working, opened>>
  BY DEF Staffed!Build
<1> HIDE DEF row
<1>5. PICK more : more = assignments'
  OBVIOUS
<1>6. PICK n : n = Len(assignments) + 1
  OBVIOUS
<1>7. /\ more \in Seq(AssignmentRow) /\ n \in Nat \ {0} /\ Len(assignments) = n - 1 /\ Len(more) = n
      /\ more[n] = row /\ \A a \in 1..(n - 1) : more[a] = assignments[a]
  <2>1. Len(assignments) \in Nat
    BY <1>0
  <2> QED
    BY <1>0, <1>3, <1>4, <1>5, <1>6, <2>1, RowAdded
<1>8. Staffed!Rows(assignments)' = 1..n /\ Staffed!Rows(assignments) = 1..(n - 1)
  BY <1>5, <1>7 DEF Staffed!Rows
<1>9. Staffed!Rows(cards)' = Staffed!Rows(cards)
  BY <1>4 DEF Staffed!Rows
<1>10. PICK edges : edges = governed'
  OBVIOUS
<1>a. /\ \A a \in 1..n : a # n => a \in 1..(n - 1)
      /\ n \notin 1..(n - 1) /\ n \in 1..n
      /\ \A a \in 1..(n - 1) : a \in 1..n
  BY <1>7
<1>b. \A a \in 1..n : more[a].card \in {Staffed!NoCard} \cup Staffed!Rows(cards)
  <2>1. \A a \in 1..(n - 1) : assignments[a].card \in {Staffed!NoCard} \cup Staffed!Rows(cards)
    BY <1>0, <1>8 DEF StaffingType
  <2> QED
    BY <1>1, <1>3, <1>7, <1>a, <2>1
<1>c. pending \subseteq RateRequest /\ \A r \in pending : r.assignment \in 1..n
  BY <1>0, <1>8, <1>a DEF StaffingType
<1>d. ASSUME edges \in Seq(EdgeRow) PROVE StaffingType'
  <2>1. /\ more \in Seq(AssignmentRow) /\ more = assignments' /\ edges = governed'
        /\ Staffed!Rows(cards)' = Staffed!Rows(cards) /\ Staffed!Rows(assignments)' = 1..n
        /\ UNCHANGED <<cards, pending, working, opened>>
        /\ cards \in Seq(CardRow) /\ working \subseteq Staffed!Days /\ opened \subseteq Staffed!Days
    BY <1>0, <1>4, <1>5, <1>7, <1>8, <1>9, <1>10 DEF StaffingType
  <2> QED
    BY <1>b, <1>c, <1>d, <2>1 DEF StaffingType
<1>e. /\ \A g \in Staffed!Rows(governed) : governed[g].from \in 1..(n - 1)
      /\ \A g \in Staffed!Rows(governed) :
           governed[g].open => /\ governed[g].to = assignments[governed[g].from].card
                               /\ governed[g].to # Staffed!NoCard
      /\ \A g, h \in Staffed!Rows(governed) :
           governed[g].open /\ governed[h].open /\ governed[g].from = governed[h].from => g = h
      /\ \A a \in 1..(n - 1) : assignments[a].card # Staffed!NoCard
           => \E g \in Staffed!Rows(governed) : governed[g].from = a /\ governed[g].open
  BY <1>0, <1>8, Zenon DEF EdgesNameTheCard
<1>11. CASE card = Staffed!NoCard
  <2>1. edges = governed
    BY <1>0, <1>4, <1>10, <1>11 DEF Staffed!NewEdge
  <2>2. StaffingType'
    BY <1>0, <1>d, <2>1
  <2>3. governed' = governed /\ Staffed!Rows(governed)' = Staffed!Rows(governed)
    BY <1>10, <2>1 DEF Staffed!Rows
  <2>4. /\ \A g \in Staffed!Rows(governed) : governed[g].from \in 1..n
        /\ \A g \in Staffed!Rows(governed) :
             governed[g].open => /\ governed[g].to = more[governed[g].from].card
                                 /\ governed[g].to # Staffed!NoCard
        /\ \A a \in 1..n : more[a].card # Staffed!NoCard
             => \E g \in Staffed!Rows(governed) : governed[g].from = a /\ governed[g].open
    BY <1>3, <1>7, <1>11, <1>a, <1>e
  <2>5. EdgesNameTheCard'
    BY <1>5, <1>8, <1>e, <2>3, <2>4, Zenon DEF EdgesNameTheCard
  <2> QED
    BY <1>0, <1>3, <1>4, <1>9, <2>2, <2>5 DEF CardsInLine
<1>12. CASE card # Staffed!NoCard
  <2> DEFINE edge == [from |-> n, to |-> card, open |-> TRUE]
  <2>1. edge \in EdgeRow /\ edge.from = n /\ edge.to = card /\ edge.open
    BY <1>1, <1>7 DEF EdgeRow
  <2>2. governed' = Append(governed, edge)
    BY <1>0, <1>4, <1>6, <1>12 DEF Staffed!NewEdge
  <2> HIDE DEF edge
  <2>3. PICK m : m = Len(governed) + 1
    OBVIOUS
  <2>4. /\ edges \in Seq(EdgeRow) /\ m \in Nat \ {0} /\ Len(governed) = m - 1 /\ Len(edges) = m
        /\ edges[m] = edge /\ \A g \in 1..(m - 1) : edges[g] = governed[g]
    <3>1. Len(governed) \in Nat
      BY <1>0
    <3> QED
      BY <1>0, <1>10, <2>1, <2>2, <2>3, <3>1, RowAdded
  <2>5. StaffingType'
    BY <1>d, <2>4
  <2>6. Staffed!Rows(governed)' = 1..m /\ Staffed!Rows(governed) = 1..(m - 1)
    BY <1>10, <2>4 DEF Staffed!Rows
  <2>7. /\ \A g \in 1..m : g # m => g \in 1..(m - 1)
        /\ m \in 1..m /\ \A g \in 1..(m - 1) : g \in 1..m
    BY <2>4
  <2>8. /\ \A g \in 1..(m - 1) : edges[g].from \in 1..(n - 1)
        /\ \A g \in 1..(m - 1) : edges[g].open => /\ edges[g].to = assignments[edges[g].from].card
                                                  /\ edges[g].to # Staffed!NoCard
        /\ \A g, h \in 1..(m - 1) :
             edges[g].open /\ edges[h].open /\ edges[g].from = edges[h].from => g = h
        /\ \A a \in 1..(n - 1) : assignments[a].card # Staffed!NoCard
             => \E g \in 1..(m - 1) : edges[g].from = a /\ edges[g].open
    <3>1. /\ \A g \in 1..(m - 1) : governed[g].from \in 1..(n - 1)
          /\ \A g \in 1..(m - 1) :
               governed[g].open => /\ governed[g].to = assignments[governed[g].from].card
                                   /\ governed[g].to # Staffed!NoCard
          /\ \A g, h \in 1..(m - 1) :
               governed[g].open /\ governed[h].open /\ governed[g].from = governed[h].from => g = h
          /\ \A a \in 1..(n - 1) : assignments[a].card # Staffed!NoCard
               => \E g \in 1..(m - 1) : governed[g].from = a /\ governed[g].open
      BY <1>e, <2>6, Zenon
    <3>2. \A g \in 1..(m - 1) : edges[g] = governed[g]
      BY <2>4
    <3> QED
      BY <3>1, <3>2
  <2>9. \A g \in 1..m : edges[g].from \in 1..n
    BY <1>a, <2>1, <2>4, <2>7, <2>8
  <2>10. \A g \in 1..m : edges[g].open => /\ edges[g].to = more[edges[g].from].card
                                          /\ edges[g].to # Staffed!NoCard
    BY <1>3, <1>7, <1>12, <1>a, <2>1, <2>4, <2>7, <2>8
  <2>11. \A g, h \in 1..m :
           edges[g].open /\ edges[h].open /\ edges[g].from = edges[h].from => g = h
    BY <1>a, <2>1, <2>4, <2>7, <2>8
  <2>12. \A a \in 1..n : more[a].card # Staffed!NoCard
           => \E g \in 1..m : edges[g].from = a /\ edges[g].open
    BY <1>7, <1>a, <2>1, <2>4, <2>7, <2>8
  <2>13. EdgesNameTheCard'
    BY <1>5, <1>8, <1>10, <2>6, <2>9, <2>10, <2>11, <2>12 DEF EdgesNameTheCard
  <2> QED
    BY <1>0, <1>3, <1>4, <1>9, <2>5, <2>13 DEF CardsInLine
<1> QED
  BY <1>11, <1>12

\* A create under the check, or with its override, leaves what fits.
LEMMA CreateKeeps ==
  ASSUME StaffingIInv, NEW caller, NEW e \in Employees, NEW start \in Staffed!Days,
         NEW end \in Staffed!Days, NEW pct \in Percents, NEW card \in Staffed!CardChoices,
         NEW reason \in BOOLEAN, Staffed!Build(caller, e, start, end, pct, card, reason),
         reason \/ Staffed!FitsCapacity(e, start, end, pct, {})
  PROVE  StaffingIInv'
<1>1. PICK row \in AssignmentRow :
        /\ assignments' = Append(assignments, row) /\ StaffingType' /\ EdgesNameTheCard'
        /\ CardsInLine' /\ UNCHANGED <<working, opened>>
        /\ row.employee = e /\ row.status = "Active" /\ row.start = start /\ row.end = end
        /\ row.pct = pct /\ row.reason = reason
  BY BuildRows
<1>2. PICK n : n = Len(assignments) + 1
  OBVIOUS
<1>3. assignments \in Seq(AssignmentRow) /\ assignments' \in Seq(AssignmentRow)
  BY <1>1 DEF StaffingIInv, StaffingType
<1>4. /\ n \in Nat \ {0} /\ Len(assignments) = n - 1 /\ Len(assignments') = n
      /\ assignments'[n] = row /\ \A a \in 1..(n - 1) : assignments'[a] = assignments[a]
  <2>1. Len(assignments) \in Nat
    BY <1>3
  <2> QED
    BY <1>1, <1>2, <1>3, <2>1, RowAdded
<1>5. ASSUME NEW p \in Employees, NEW d \in working \ opened
      PROVE  Total(Weight(assignments'), Ordinary(assignments', p, d)) <= 100
  <2>1. Total(Weight(assignments), Ordinary(assignments, p, d)) <= 100
    BY DEF StaffingIInv, OrdinaryFits, Staffed!Capacity
  <2>2. d \in Staffed!Days /\ d \in working
    BY DEF StaffingIInv, StaffingType
  <2>3. \/ n \notin Ordinary(assignments', p, d)
        \/ Total(Weight(assignments), Taking(assignments, p, d) \ {n}) + assignments'[n].pct <= 100
    <3>1. CASE ~reason /\ e = p /\ start <= d /\ d <= end
      <4>1. d \in (start..end) \cap working
        BY <2>2, <3>1 DEF Staffed!Days
      <4>2. Staffed!TotalOn(e, d, {}) + pct <= 100
        BY <3>1, <4>1 DEF Staffed!FitsCapacity, Staffed!Capacity
      <4>3. Staffed!TotalOn(e, d, {}) = Total(Weight(assignments), Taking(assignments, e, d) \ {})
        BY <1>3, <2>2, TotalOnIsTotal
      <4>4. Taking(assignments, e, d) \ {} = Taking(assignments, p, d) \ {n}
        BY <1>4, <3>1 DEF Taking
      <4> QED
        BY <1>1, <1>4, <4>2, <4>3, <4>4
    <3>2. CASE ~ (~reason /\ e = p /\ start <= d /\ d <= end)
      BY <1>1, <1>4, <3>2 DEF Ordinary, Taking
    <3> QED
      BY <3>1, <3>2
  <2>4. n \in 1..Len(assignments')
    BY <1>4
  <2>5. \A b \in 1..Len(assignments') : b # n => b \in 1..Len(assignments) /\ assignments'[b] = assignments[b]
    BY <1>4
  <2> QED
    BY <1>3, <2>1, <2>3, <2>4, <2>5, StillFits
<1>6. OrdinaryFits'
  BY <1>1, <1>5 DEF OrdinaryFits, Staffed!Capacity, Total, Weight, Ordinary, Taking, Portions
<1> QED
  BY <1>1, <1>6 DEF StaffingIInv

\* The edges when the first of the open ones of an assignment, if it has any, is closed.
PriorClosed(a) ==
  LET prior == Staffed!OpenEdges(a)
      first == CHOOSE g \in prior : \A h \in prior : g <= h
  IN IF prior = {} THEN governed ELSE [governed EXCEPT ![first].open = FALSE]

\* The first of the open edges of an assignment that has one is that one.
LEMMA PriorIsClosed ==
  ASSUME StaffingIInv, NEW a \in Staffed!Rows(assignments), NEW closed, closed = PriorClosed(a)
  PROVE  /\ closed \in Seq(EdgeRow) /\ Len(closed) = Len(governed)
         /\ \A g \in Staffed!Rows(governed) :
              /\ closed[g].from = governed[g].from /\ closed[g].to = governed[g].to
              /\ closed[g].open <=> governed[g].open /\ governed[g].from # a
<1>1. governed \in Seq(EdgeRow) /\ EdgesNameTheCard
  BY DEF StaffingIInv, StaffingType
<1>2. CASE Staffed!OpenEdges(a) = {}
  BY <1>1, <1>2 DEF PriorClosed, Staffed!OpenEdges, Staffed!Rows
<1>3. CASE Staffed!OpenEdges(a) # {}
  <2>1. PICK f \in Staffed!OpenEdges(a) : TRUE
    BY <1>3
  <2>2. /\ f \in 1..Len(governed) /\ governed[f].from = a /\ governed[f].open
        /\ governed[f] \in EdgeRow
    BY <1>1, <2>1 DEF Staffed!OpenEdges, Staffed!Rows
  <2>3. \A g \in Staffed!Rows(governed) : governed[g].open /\ governed[g].from = a => g = f
    BY <1>1, <2>2 DEF EdgesNameTheCard, Staffed!Rows
  <2>4. Staffed!OpenEdges(a) = {f}
    BY <2>1, <2>3 DEF Staffed!OpenEdges
  <2>5. (CHOOSE g \in Staffed!OpenEdges(a) : \A h \in Staffed!OpenEdges(a) : g <= h) = f
    BY <2>2, <2>4
  <2>6. PICK edge : edge = [governed[f] EXCEPT !.open = FALSE]
    OBVIOUS
  <2>7. edge \in EdgeRow /\ edge.from = a /\ edge.to = governed[f].to /\ ~edge.open
    BY <2>2, <2>6 DEF EdgeRow
  <2>8. closed = [governed EXCEPT ![f] = edge]
    BY <1>3, <2>2, <2>5, <2>6 DEF PriorClosed
  <2>9. /\ closed \in Seq(EdgeRow) /\ Len(closed) = Len(governed) /\ closed[f] = edge
        /\ \A g \in 1..Len(governed) : g # f => closed[g] = governed[g]
    <3>1. governed \in Seq(EdgeRow) /\ f \in 1..Len(governed) /\ edge \in EdgeRow
      BY <1>1, <2>2, <2>7
    <3>2. /\ [governed EXCEPT ![f] = edge] \in Seq(EdgeRow)
          /\ Len([governed EXCEPT ![f] = edge]) = Len(governed)
          /\ [governed EXCEPT ![f] = edge][f] = edge
          /\ \A g \in 1..Len(governed) : g # f => [governed EXCEPT ![f] = edge][g] = governed[g]
      BY <3>1, RowWritten
    <3> QED
      BY <2>8, <3>2
  <2> QED
    BY <2>2, <2>3, <2>7, <2>9 DEF Staffed!Rows
<1> QED
  BY <1>2, <1>3

\* A new card closes the edge to the one before and opens its own.
LEMMA SetRateCardKeeps ==
  ASSUME StaffingIInv, NEW caller, NEW a \in Staffed!Rows(assignments), NEW card \in Staffed!Rows(cards),
         Staffed!AssignmentSetRateCard(caller, a, card)
  PROVE  StaffingIInv'
<1> DEFINE old == assignments[a]
           next == old.version + 1
           rate == Staffed!ResolvedRate(caller, card, old.override)
           row == [old EXCEPT !.card = card, !.version = next, !.rate = rate]
<1>0. /\ StaffingType /\ EdgesNameTheCard /\ CardsInLine /\ OrdinaryFits
      /\ assignments \in Seq(AssignmentRow) /\ a \in 1..Len(assignments) /\ old \in AssignmentRow
      /\ governed \in Seq(EdgeRow) /\ card \in Nat \ {0}
  BY DEF StaffingIInv, StaffingType, Staffed!Rows
<1>a. next \in Nat /\ rate \in Rates
  <2>1. next \in Nat
    BY <1>0 DEF AssignmentRow
  <2>2. old.override \in Overrides \cup {NoRate}
    BY <1>0 DEF AssignmentRow
  <2> QED
    BY <1>0, <2>1, <2>2, RateIsARate
<1> HIDE DEF next, rate
<1>1. row \in AssignmentRow /\ row.card = card /\ row.employee = old.employee
      /\ row.status = old.status /\ row.start = old.start /\ row.end = old.end /\ row.pct = old.pct
      /\ row.reason = old.reason
  BY <1>0, <1>a DEF AssignmentRow
<1>2. PICK closed : closed = PriorClosed(a)
  OBVIOUS
<1>3. /\ assignments' = [assignments EXCEPT ![a] = row]
      /\ governed' = closed \o Staffed!NewEdge(a, card)
      /\ UNCHANGED <<cards, pending, working, opened>>
  <2>1. assignments' = [assignments EXCEPT ![a] = row]
    BY <1>0 DEF Staffed!AssignmentSetRateCard, next, rate
  <2>2. governed' = PriorClosed(a) \o Staffed!NewEdge(a, card)
    BY DEF Staffed!AssignmentSetRateCard, PriorClosed
  <2> QED
    BY <1>2, <2>1, <2>2 DEF Staffed!AssignmentSetRateCard
<1>4. /\ closed \in Seq(EdgeRow) /\ Len(closed) = Len(governed)
      /\ \A g \in Staffed!Rows(governed) :
              /\ closed[g].from = governed[g].from /\ closed[g].to = governed[g].to
              /\ closed[g].open <=> governed[g].open /\ governed[g].from # a
  BY <1>2, PriorIsClosed
<1> HIDE DEF row, old
<1>5. PICK more : more = assignments'
  OBVIOUS
<1>6. /\ more \in Seq(AssignmentRow) /\ Len(more) = Len(assignments) /\ more[a] = row
      /\ \A b \in 1..Len(assignments) : b # a => more[b] = assignments[b]
  BY <1>0, <1>1, <1>3, <1>5, RowWritten
<1>7. /\ Staffed!Rows(assignments)' = Staffed!Rows(assignments)
      /\ Staffed!Rows(cards)' = Staffed!Rows(cards)
  BY <1>3, <1>5, <1>6 DEF Staffed!Rows
<1> DEFINE edge == [from |-> a, to |-> card, open |-> TRUE]
<1>8. edge \in EdgeRow /\ edge.from = a /\ edge.to = card /\ edge.open
  BY <1>0 DEF EdgeRow
<1>9. governed' = Append(closed, edge)
  BY <1>0, <1>3, <1>4 DEF Staffed!NewEdge, Staffed!NoCard
<1> HIDE DEF edge
<1>10. PICK edges : edges = governed'
  OBVIOUS
<1>11. PICK m : m = Len(governed) + 1
  OBVIOUS
<1>12. /\ edges \in Seq(EdgeRow) /\ m \in Nat \ {0} /\ Len(governed) = m - 1 /\ Len(edges) = m
       /\ edges[m] = edge /\ \A g \in 1..(m - 1) : edges[g] = closed[g]
  <2>1. Len(governed) \in Nat
    BY <1>0
  <2> QED
    BY <1>4, <1>8, <1>9, <1>10, <1>11, <2>1, RowAdded
<1>13. Staffed!Rows(governed)' = 1..m /\ Staffed!Rows(governed) = 1..(m - 1)
  BY <1>10, <1>12 DEF Staffed!Rows
<1>14. StaffingType'
  <2>1. \A b \in Staffed!Rows(assignments) :
          more[b].card \in {Staffed!NoCard} \cup Staffed!Rows(cards)
    BY <1>0, <1>1, <1>6 DEF StaffingType, Staffed!Rows
  <2>2. /\ cards \in Seq(CardRow) /\ pending \subseteq RateRequest
        /\ \A r \in pending : r.assignment \in Staffed!Rows(assignments)
        /\ working \subseteq Staffed!Days /\ opened \subseteq Staffed!Days
    BY <1>0 DEF StaffingType
  <2> QED
    BY <1>3, <1>5, <1>6, <1>7, <1>10, <1>12, <2>1, <2>2 DEF StaffingType
<1>15. EdgesNameTheCard'
  <2>1. /\ \A g \in 1..(m - 1) : governed[g].from \in Staffed!Rows(assignments)
        /\ \A g \in 1..(m - 1) :
             governed[g].open => /\ governed[g].to = assignments[governed[g].from].card
                                 /\ governed[g].to # Staffed!NoCard
        /\ \A g, h \in 1..(m - 1) :
             governed[g].open /\ governed[h].open /\ governed[g].from = governed[h].from => g = h
        /\ \A b \in Staffed!Rows(assignments) : assignments[b].card # Staffed!NoCard
             => \E g \in 1..(m - 1) : governed[g].from = b /\ governed[g].open
    BY <1>0, <1>13, ZenonT(60) DEF EdgesNameTheCard
  <2>2. \A g \in 1..(m - 1) : /\ edges[g].from = governed[g].from /\ edges[g].to = governed[g].to
                              /\ edges[g].open <=> governed[g].open /\ governed[g].from # a
    BY <1>4, <1>12, <1>13
  <2>3. /\ \A g \in 1..m : g # m => g \in 1..(m - 1)
        /\ m \in 1..m /\ \A g \in 1..(m - 1) : g \in 1..m
    BY <1>12
  <2>4. /\ edges[m].from = a /\ edges[m].to = card /\ edges[m].open /\ card # Staffed!NoCard
        /\ more[a].card = card
    BY <1>0, <1>1, <1>6, <1>8, <1>12 DEF Staffed!NoCard
  <2>5. \A b \in Staffed!Rows(assignments) : b # a => more[b].card = assignments[b].card
    BY <1>6 DEF Staffed!Rows
  <2>6. \A g \in 1..m : edges[g].from \in Staffed!Rows(assignments)
    BY <2>1, <2>2, <2>3, <2>4
  <2>7. \A g \in 1..m : edges[g].open => /\ edges[g].to = more[edges[g].from].card
                                         /\ edges[g].to # Staffed!NoCard
    BY <2>1, <2>2, <2>3, <2>4, <2>5
  <2>8. \A g, h \in 1..m : edges[g].open /\ edges[h].open /\ edges[g].from = edges[h].from => g = h
    BY <2>1, <2>2, <2>3, <2>4
  <2>9. \A b \in Staffed!Rows(assignments) : more[b].card # Staffed!NoCard
          => \E g \in 1..m : edges[g].from = b /\ edges[g].open
    BY <2>1, <2>2, <2>3, <2>4, <2>5
  <2> QED
    BY <1>5, <1>7, <1>10, <1>13, <2>6, <2>7, <2>8, <2>9 DEF EdgesNameTheCard
<1>16. CardsInLine'
  BY <1>0, <1>3, <1>7 DEF CardsInLine
<1>17. ASSUME NEW e \in Employees, NEW d \in working \ opened
       PROVE  Total(Weight(assignments'), Ordinary(assignments', e, d)) <= 100
  <2>1. Total(Weight(assignments), Ordinary(assignments, e, d)) <= 100
    BY <1>0 DEF OrdinaryFits, Staffed!Capacity
  <2>3. \A b \in 1..Len(assignments) :
          /\ more[b].employee = assignments[b].employee
          /\ more[b].status = assignments[b].status
          /\ more[b].start = assignments[b].start
          /\ more[b].end = assignments[b].end
          /\ more[b].pct = assignments[b].pct
          /\ more[b].reason = assignments[b].reason
    BY <1>1, <1>6 DEF old
  <2>4. Total(Weight(more), Ordinary(more, e, d)) = Total(Weight(assignments), Ordinary(assignments, e, d))
    <3>1. assignments \in Seq(AssignmentRow) /\ more \in Seq(AssignmentRow)
          /\ Len(more) = Len(assignments)
      BY <1>0, <1>6
    <3> QED
      BY <2>3, <3>1, FitsAsBefore
  <2> QED
    BY <1>5, <2>1, <2>4
<1>18. OrdinaryFits'
  BY <1>3, <1>17 DEF OrdinaryFits, Staffed!Capacity, Total, Weight, Ordinary, Taking, Portions
<1> QED
  BY <1>14, <1>15, <1>16, <1>18 DEF StaffingIInv

\* A request in flight is for an assignment there is and a rate.
LEMMA BeginKeeps ==
  ASSUME StaffingIInv, NEW r \in RateRequest, r.assignment \in Staffed!Rows(assignments),
         Staffed!Begin(r)
  PROVE  StaffingIInv'
<1>1. /\ pending' = pending \cup {r} /\ UNCHANGED <<assignments, governed, cards, working, opened>>
      /\ StaffingType /\ EdgesNameTheCard /\ CardsInLine /\ OrdinaryFits
  BY DEF StaffingIInv, Staffed!Begin
<1>2. StaffingType'
  BY <1>1 DEF StaffingType, Staffed!Rows
<1>3. EdgesNameTheCard' /\ CardsInLine'
  BY <1>1 DEF EdgesNameTheCard, CardsInLine, Staffed!Rows
<1>4. OrdinaryFits'
  BY <1>1, SMTT(30) DEF OrdinaryFits, Total, Weight, Ordinary, Taking, Portions
<1> QED
  BY <1>2, <1>3, <1>4 DEF StaffingIInv

\* A day that becomes a working one is remembered.
LEMMA CalendarKeeps ==
  ASSUME StaffingIInv, NEW d \in Staffed!Days, Staffed!CalendarChanges(d)
  PROVE  StaffingIInv'
<1>1. /\ opened = {} /\ working' = (IF d \in working THEN working \ {d} ELSE working \cup {d})
      /\ opened' = opened \cup (working' \ working) /\ UNCHANGED <<assignments, governed, cards, pending>>
      /\ StaffingType /\ EdgesNameTheCard /\ CardsInLine /\ OrdinaryFits
  BY DEF StaffingIInv, Staffed!CalendarChanges
<1>2. StaffingType'
  BY <1>1 DEF StaffingType, Staffed!Rows
<1>3. EdgesNameTheCard' /\ CardsInLine'
  BY <1>1 DEF EdgesNameTheCard, CardsInLine, Staffed!Rows
<1>4. working' \ opened' \subseteq working \ opened
  BY <1>1
<1>5. OrdinaryFits'
  BY <1>1, <1>4 DEF OrdinaryFits, Total, Weight, Ordinary, Taking, Portions
<1> QED
  BY <1>2, <1>3, <1>5 DEF StaffingIInv

\* Cards that are written leave the assignments.
LEMMA CardsWritten ==
  ASSUME StaffingIInv, cards' \in Seq(CardRow), Len(cards) <= Len(cards'), CardsInLine',
         UNCHANGED <<assignments, governed, pending, working, opened>>
  PROVE  StaffingIInv'
<1>1. StaffingType /\ EdgesNameTheCard /\ OrdinaryFits
  BY DEF StaffingIInv
<1>2. \A c \in Staffed!Rows(cards) : c \in Staffed!Rows(cards)'
  <2>1. Len(cards) \in Nat /\ Len(cards') \in Nat
    BY <1>1 DEF StaffingType
  <2> QED
    BY <2>1 DEF Staffed!Rows
<1>3. StaffingType'
  BY <1>1, <1>2 DEF StaffingType, Staffed!Rows
<1>4. EdgesNameTheCard'
  BY <1>1 DEF EdgesNameTheCard, Staffed!Rows
<1>5. OrdinaryFits'
  BY <1>1 DEF OrdinaryFits, Total, Weight, Ordinary, Taking, Portions
<1> QED
  BY <1>3, <1>4, <1>5 DEF StaffingIInv

\* Cards count as everything does.
LEMMA StaffingCardinality == \A S : Staffed!Cardinality(S) = Cardinality(S)
  BY DEF Staffed!Cardinality, Cardinality

\* A card there is supersedes one numbered before all that come.
LEMMA Superseding ==
  ASSUME cards \in Seq(CardRow), CardsInLine, NEW c \in Staffed!Rows(cards), NEW n \in Nat,
         n >= c
  PROVE  cards[c].supersedes \in Nat /\ cards[c].supersedes # n
<1>1. cards[c] \in CardRow /\ cards[c].supersedes < c /\ c \in Nat
  BY DEF CardsInLine, Staffed!Rows
<1> QED
  BY <1>1 DEF CardRow

\* A new card supersedes none.
LEMMA CardCreateKeeps ==
  ASSUME StaffingIInv, NEW line \in Lines, Staffed!RateCardCreate(line)
  PROVE  StaffingIInv'
<1> DEFINE card == Staffed!NewCard(line, 1, Staffed!NoCard)
<1>1. cards \in Seq(CardRow) /\ CardsInLine
  BY DEF StaffingIInv, StaffingType
<1>2. /\ card \in CardRow /\ card.active /\ card.supersedes = 0
      /\ cards' = Append(cards, card) /\ UNCHANGED <<assignments, governed, pending, working, opened>>
  BY DEF Staffed!RateCardCreate, Staffed!NewCard, Staffed!NoCard, CardRow
<1> HIDE DEF card
<1>3. PICK n : n = Len(cards) + 1
  OBVIOUS
<1>4. /\ cards' \in Seq(CardRow) /\ n \in Nat \ {0} /\ Len(cards) = n - 1 /\ Len(cards') = n
      /\ cards'[n] = card /\ \A c \in 1..(n - 1) : cards'[c] = cards[c]
  <2>1. Len(cards) \in Nat
    BY <1>1
  <2> QED
    BY <1>1, <1>2, <1>3, <2>1, RowAdded
<1>5. Staffed!Rows(cards)' = 1..n /\ Staffed!Rows(cards) = 1..(n - 1)
  BY <1>4 DEF Staffed!Rows
<1>6. /\ \A c \in 1..(n - 1) : cards[c].supersedes < c
      /\ \A c \in 1..(n - 1) : cards[c].active <=> \A k \in 1..(n - 1) : cards[k].supersedes # c
      /\ \A c, k \in 1..(n - 1) :
           cards[c].supersedes = cards[k].supersedes => c = k \/ cards[c].supersedes = 0
  BY <1>1, <1>5, Zenon DEF CardsInLine, Staffed!NoCard
<1>7. /\ \A c \in 1..n : c # n => c \in 1..(n - 1)
      /\ n \in 1..n /\ (\A c \in 1..(n - 1) : c \in 1..n /\ c # n) /\ \A c \in 1..n : c # 0
      /\ 0 < n
  BY <1>4
<1>8. \A c \in 1..(n - 1) : cards[c].supersedes # n
  <2>1. \A c \in 1..(n - 1) : c \in Staffed!Rows(cards) /\ n >= c /\ n \in Nat
    BY <1>4, <1>5
  <2> QED
    BY <1>1, <2>1, Superseding
<1>9. \A c \in 1..n : cards'[c].supersedes < c
  BY <1>2, <1>4, <1>6, <1>7
<1>10. \A c \in 1..n : cards'[c].active <=> \A k \in 1..n : cards'[k].supersedes # c
  BY <1>2, <1>4, <1>6, <1>7, <1>8
<1>11. \A c, k \in 1..n : cards'[c].supersedes = cards'[k].supersedes
                            => c = k \/ cards'[c].supersedes = 0
  BY <1>2, <1>4, <1>6, <1>7
<1>12. CardsInLine'
  BY <1>5, <1>9, <1>10, <1>11, Zenon DEF CardsInLine, Staffed!NoCard
<1>13. Len(cards) <= Len(cards')
  BY <1>4
<1> QED
  BY <1>2, <1>4, <1>12, <1>13, CardsWritten

\* A new version supersedes the active one it is of.
LEMMA CardUpdateKeeps ==
  ASSUME StaffingIInv, NEW c \in Staffed!Rows(cards), NEW v, NEW line \in Lines,
         Staffed!RateCardUpdate(c, v, line)
  PROVE  StaffingIInv'
<1>1. /\ cards \in Seq(CardRow) /\ CardsInLine /\ c \in 1..Len(cards) /\ cards[c] \in CardRow
      /\ cards[c].active
  BY DEF StaffingIInv, StaffingType, Staffed!Rows, Staffed!RateCardUpdate
<1> DEFINE row == cards[c].row + 1
           version == cards[c].version + 1
           old == [cards[c] EXCEPT !.active = FALSE, !.row = row]
           card == Staffed!NewCard(line, version, c)
<1>2. row \in Nat /\ version \in Nat
  BY <1>1, SMTT(30) DEF CardRow
<1>3. /\ cards' = Append([cards EXCEPT ![c] = old], card)
      /\ UNCHANGED <<assignments, governed, pending, working, opened>>
  BY <1>1 DEF Staffed!RateCardUpdate, Staffed!Superseded
<1> HIDE DEF row, version
<1>4. /\ card \in CardRow /\ card.active /\ card.supersedes = c
      /\ old \in CardRow /\ ~old.active /\ old.supersedes = cards[c].supersedes
  <2>1. c \in Nat
    BY <1>1
  <2>2. card \in CardRow /\ card.active /\ card.supersedes = c
    BY <1>2, <2>1 DEF Staffed!NewCard, CardRow
  <2>3. old \in CardRow /\ ~old.active /\ old.supersedes = cards[c].supersedes
    BY <1>1, <1>2 DEF CardRow
  <2> QED
    BY <2>2, <2>3
<1> HIDE DEF card, old
<1>5. PICK mid : mid = [cards EXCEPT ![c] = old]
  OBVIOUS
<1>6. /\ mid \in Seq(CardRow) /\ Len(mid) = Len(cards) /\ mid[c] = old
      /\ \A k \in 1..Len(cards) : k # c => mid[k] = cards[k]
  BY <1>1, <1>4, <1>5, RowWritten
<1>7. PICK n : n = Len(cards) + 1
  OBVIOUS
<1>8. /\ cards' \in Seq(CardRow) /\ n \in Nat \ {0} /\ Len(cards) = n - 1 /\ Len(cards') = n
      /\ cards'[n] = card /\ \A k \in 1..(n - 1) : cards'[k] = mid[k]
  <2>1. Len(cards) \in Nat
    BY <1>1
  <2> QED
    BY <1>3, <1>4, <1>5, <1>6, <1>7, <2>1, RowAdded
<1>9. Staffed!Rows(cards)' = 1..n /\ Staffed!Rows(cards) = 1..(n - 1)
  BY <1>8 DEF Staffed!Rows
<1>10. /\ \A k \in 1..(n - 1) : cards[k].supersedes < k
       /\ \A k \in 1..(n - 1) : cards[k].active <=> \A j \in 1..(n - 1) : cards[j].supersedes # k
       /\ \A k, j \in 1..(n - 1) :
            cards[k].supersedes = cards[j].supersedes => k = j \/ cards[k].supersedes = 0
  BY <1>1, <1>9, Zenon DEF CardsInLine, Staffed!NoCard
<1>11. /\ \A k \in 1..n : k # n => k \in 1..(n - 1)
       /\ n \in 1..n /\ (\A k \in 1..(n - 1) : k \in 1..n /\ k # n)
       /\ c \in 1..(n - 1) /\ c < n /\ c # n /\ c # 0
  BY <1>1, <1>8
<1>12. \A k \in 1..(n - 1) : /\ cards'[k].supersedes = cards[k].supersedes
                             /\ cards'[k].active <=> cards[k].active /\ k # c
  BY <1>4, <1>6, <1>8
<1>13. \A k \in 1..(n - 1) : cards[k].supersedes # n /\ cards[k].supersedes # c
  <2>1. \A k \in 1..(n - 1) : k \in Staffed!Rows(cards) /\ n >= k /\ n \in Nat
    BY <1>8, <1>9
  <2>2. \A k \in 1..(n - 1) : cards[k].supersedes # c
    BY <1>1, <1>10, <1>11
  <2> QED
    BY <1>1, <2>1, <2>2, Superseding
<1>14. \A k \in 1..n : cards'[k].supersedes < k
  BY <1>4, <1>8, <1>10, <1>11, <1>12
<1>15. \A k \in 1..n : cards'[k].active <=> \A j \in 1..n : cards'[j].supersedes # k
  BY <1>4, <1>8, <1>10, <1>11, <1>12, <1>13
<1>16. \A k, j \in 1..n : cards'[k].supersedes = cards'[j].supersedes
                            => k = j \/ cards'[k].supersedes = 0
  BY <1>4, <1>8, <1>10, <1>11, <1>12, <1>13
<1>17. CardsInLine'
  BY <1>9, <1>14, <1>15, <1>16, Zenon DEF CardsInLine, Staffed!NoCard
<1>18. Len(cards) <= Len(cards')
  BY <1>8
<1> QED
  BY <1>3, <1>8, <1>17, <1>18, CardsWritten

-----------------------------------------------------------------------------
\* Nothing is assigned yet.
LEMMA StaffingInit == Staffed!Init => StaffingIInv
<1> SUFFICES ASSUME Staffed!Init PROVE StaffingIInv
  OBVIOUS
<1>1. assignments = <<>> /\ governed = <<>> /\ cards = <<>> /\ pending = {} /\ opened = {}
      /\ working \subseteq Staffed!Days
  BY DEF Staffed!Init
<1>2. /\ Staffed!Rows(assignments) = {} /\ Staffed!Rows(governed) = {} /\ Staffed!Rows(cards) = {}
      /\ \A e, d : Ordinary(assignments, e, d) = {}
  BY <1>1 DEF Staffed!Rows, Ordinary, Taking
<1>3. StaffingType
  BY <1>1, <1>2 DEF StaffingType
<1>4. EdgesNameTheCard /\ CardsInLine
  BY <1>2 DEF EdgesNameTheCard, CardsInLine
<1>5. OrdinaryFits
  <2>1. Total(Weight(assignments), {}) = 0
    <3>1. Portions(Weight(assignments), {}) = {}
      BY DEF Portions
    <3> QED
      BY <3>1, FS_EmptySet DEF Total
  <2> QED
    BY <1>2, <2>1 DEF OrdinaryFits, Staffed!Capacity
<1> QED
  BY <1>3, <1>4, <1>5 DEF StaffingIInv

\* Every call keeps the invariant.
LEMMA StaffingStep == StaffingIInv /\ [Staffed!Next]_Staffed!vars => StaffingIInv'
<1> SUFFICES ASSUME StaffingIInv, [Staffed!Next]_Staffed!vars PROVE StaffingIInv'
  OBVIOUS
<1>0. StaffingType
  BY DEF StaffingIInv
<1>1. ASSUME NEW d \in Staffed!Days, Staffed!CalendarChanges(d) PROVE StaffingIInv'
  BY <1>1, CalendarKeeps
<1>2. ASSUME NEW line \in Lines, Staffed!RateCardCreate(line) PROVE StaffingIInv'
  BY <1>2, CardCreateKeeps
<1>3. ASSUME NEW line \in Lines, NEW c \in Staffed!Rows(cards), NEW v \in 1..2,
             Staffed!RateCardUpdate(c, v, line)
      PROVE  StaffingIInv'
  BY <1>3, CardUpdateKeeps
<1>4. ASSUME NEW caller \in Callers, NEW e \in Employees, NEW start \in Staffed!Days,
             NEW end \in Staffed!Days, NEW pct \in Percents, NEW card \in Staffed!CardChoices
      PROVE  /\ Staffed!AssignmentCreate(caller, e, start, end, pct, card) => StaffingIInv'
             /\ Staffed!OverrideAndProceed(caller, e, start, end, pct, card) => StaffingIInv'
  <2>1. ASSUME Staffed!AssignmentCreate(caller, e, start, end, pct, card) PROVE StaffingIInv'
    <3>1. FALSE \in BOOLEAN /\ Staffed!Build(caller, e, start, end, pct, card, FALSE)
          /\ (FALSE \/ Staffed!FitsCapacity(e, start, end, pct, {}))
      BY <2>1, Zenon DEF Staffed!AssignmentCreate
    <3> QED
      BY <3>1, CreateKeeps
  <2>2. ASSUME Staffed!OverrideAndProceed(caller, e, start, end, pct, card) PROVE StaffingIInv'
    <3>1. TRUE \in BOOLEAN /\ Staffed!Build(caller, e, start, end, pct, card, TRUE)
          /\ (TRUE \/ Staffed!FitsCapacity(e, start, end, pct, {}))
      BY <2>2, Zenon DEF Staffed!OverrideAndProceed
    <3> QED
      BY <3>1, CreateKeeps
  <2> QED
    BY <2>1, <2>2
<1>5. ASSUME NEW a \in Staffed!Rows(assignments), NEW start \in Staffed!Days,
             NEW end \in Staffed!Days, NEW pct \in Percents,
             Staffed!AssignmentUpdate(a, start, end, pct)
      PROVE  StaffingIInv'
  BY <1>5, UpdateKeeps
<1>6. ASSUME NEW a \in Staffed!Rows(assignments), NEW v \in 1..MaxWrites,
             Staffed!AssignmentCancel(a, v)
      PROVE  StaffingIInv'
  BY <1>6, CancelKeeps
<1>7. ASSUME NEW a \in Staffed!Rows(assignments), NEW caller \in Callers,
             NEW card \in Staffed!Rows(cards), Staffed!AssignmentSetRateCard(caller, a, card)
      PROVE  StaffingIInv'
  BY <1>7, SetRateCardKeeps
<1>8. ASSUME NEW a \in Staffed!Rows(assignments), NEW caller \in Callers,
             Staffed!ClearRateOverrideRead(caller, a)
      PROVE  StaffingIInv'
  <2> DEFINE rate == Staffed!ResolvedRate(caller, assignments[a].card, NoRate)
             r == [op |-> "clear", assignment |-> a, override |-> NoRate, rate |-> rate]
  <2>1. assignments[a].card \in {Staffed!NoCard} \cup Staffed!Rows(cards)
    BY <1>0 DEF StaffingType
  <2>2. rate \in Rates
    BY <1>0, <2>1, RateIsARate
  <2>3. Staffed!Begin(r)
    BY <1>8 DEF Staffed!ClearRateOverrideRead
  <2> HIDE DEF rate
  <2>4. r \in RateRequest /\ r.assignment \in Staffed!Rows(assignments)
    BY <2>2 DEF RateRequest, Staffed!Rows
  <2> QED
    BY <2>3, <2>4, BeginKeeps
<1>9. ASSUME NEW a \in Staffed!Rows(assignments), NEW hourly \in Overrides,
             Staffed!SetRateOverrideRead(a, hourly)
      PROVE  StaffingIInv'
  <2> DEFINE r == [op |-> "set", assignment |-> a, override |-> hourly, rate |-> hourly]
  <2>1. Staffed!Begin(r)
    BY <1>9 DEF Staffed!SetRateOverrideRead
  <2>2. r \in RateRequest /\ r.assignment \in Staffed!Rows(assignments)
    BY DEF RateRequest, Staffed!Rows, Rates
  <2> QED
    BY <2>1, <2>2, BeginKeeps
<1>10. ASSUME NEW r \in pending, Staffed!RateOverrideWrite(r) PROVE StaffingIInv'
  BY <1>10, RateWriteKeeps
<1>11. CASE UNCHANGED Staffed!vars
  <2>1. UNCHANGED <<assignments, governed, cards, pending, working, opened>>
    BY <1>11 DEF Staffed!vars
  <2> QED
    BY <2>1, SMTT(30) DEF StaffingIInv, StaffingType, EdgesNameTheCard, CardsInLine, OrdinaryFits,
                Staffed!Rows, Total, Weight, Ordinary, Taking, Portions
<1> QED
  BY <1>1, <1>2, <1>3, <1>4, <1>5, <1>6, <1>7, <1>8, <1>9, <1>10, <1>11 DEF Staffed!Next

\* So it always holds.
LEMMA StaffingInvariant == Staffed!Spec => []StaffingIInv
  BY StaffingInit, StaffingStep, PTL DEF Staffed!Spec

\* Edges, assignments and versions of cards agree.
LEMMA InForceHolds ==
  ASSUME StaffingIInv
  PROVE  CardsInForce
<1>1. EdgesNameTheCard /\ CardsInLine /\ governed \in Seq(EdgeRow)
  BY DEF StaffingIInv, StaffingType
<1>2. ASSUME NEW a \in Staffed!Rows(assignments)
      PROVE  /\ {governed[g].to : g \in Staffed!OpenEdges(a)} = {assignments[a].card} \ {Staffed!NoCard}
             /\ Staffed!Cardinality(Staffed!OpenEdges(a)) <= 1
  <2>1. CASE Staffed!OpenEdges(a) = {}
    <3>1. assignments[a].card = Staffed!NoCard
      BY <1>1, <2>1 DEF EdgesNameTheCard, Staffed!OpenEdges
    <3>2. Staffed!Cardinality({}) = 0
      BY FS_EmptySet, StaffingCardinality, Zenon
    <3> QED
      BY <2>1, <3>1, <3>2
  <2>2. CASE Staffed!OpenEdges(a) # {}
    <3>1. PICK f \in Staffed!OpenEdges(a) : TRUE
      BY <2>2
    <3>2. Staffed!OpenEdges(a) = {f}
      BY <1>1, <3>1 DEF EdgesNameTheCard, Staffed!OpenEdges
    <3>3. governed[f].to = assignments[a].card /\ assignments[a].card # Staffed!NoCard
      BY <1>1, <3>1 DEF EdgesNameTheCard, Staffed!OpenEdges
    <3>4. Staffed!Cardinality({f}) = 1
      BY FS_Singleton, StaffingCardinality, Zenon
    <3> QED
      BY <3>2, <3>3, <3>4
  <2> QED
    BY <2>1, <2>2
<1> QED
  BY <1>1, <1>2 DEF CardsInLine, CardsInForce, Staffed!CardsInForce

-----------------------------------------------------------------------------
(* What the device shows of an assignment *)

\* A rate on its way is the override it is written with, or, where there is no card, the default.
RequestsOK ==
  \A r \in pending :
    /\ r.op = "set" => r.rate = r.override
    /\ r.op = "clear" =>
         /\ r.override = NoRate
         /\ assignments[r.assignment].card = Staffed!NoCard => r.rate = DefaultDaily \div 8

\* An assignment that has a card keeps having one.
LEMMA RequestsKept ==
  ASSUME StaffingType, RequestsOK, pending' \subseteq pending,
         \A a \in Staffed!Rows(assignments) :
           assignments'[a].card = Staffed!NoCard => assignments[a].card = Staffed!NoCard
  PROVE  RequestsOK'
BY DEF RequestsOK, StaffingType

\* Every call keeps what is known of the rates on their way.
LEMMA RequestsStep ==
  ASSUME StaffingIInv, RequestsOK, [Staffed!Next]_Staffed!vars
  PROVE  RequestsOK'
<1>0. /\ StaffingType /\ assignments \in Seq(AssignmentRow)
      /\ \A a \in Staffed!Rows(assignments) : a \in 1..Len(assignments) /\ assignments[a] \in AssignmentRow
  BY DEF StaffingIInv, StaffingType, Staffed!Rows
<1>1. ASSUME UNCHANGED <<assignments, pending>> PROVE RequestsOK'
  BY <1>1 DEF RequestsOK
<1>2. ASSUME NEW caller, NEW e, NEW start, NEW end, NEW pct, NEW card, NEW reason,
             Staffed!Build(caller, e, start, end, pct, card, reason)
      PROVE  RequestsOK'
  <2>1. PICK row : assignments' = Append(assignments, row) /\ UNCHANGED pending
    BY <1>2 DEF Staffed!Build
  <2>2. \A a \in Staffed!Rows(assignments) : assignments'[a] = assignments[a]
    BY <1>0, <2>1 DEF Staffed!Rows
  <2> QED
    BY <1>0, <2>1, <2>2, RequestsKept
<1>3. ASSUME NEW a \in Staffed!Rows(assignments), NEW start, NEW end, NEW pct,
             Staffed!AssignmentUpdate(a, start, end, pct)
      PROVE  RequestsOK'
  <2>1. /\ \A b \in Staffed!Rows(assignments) : assignments'[b].card = assignments[b].card
        /\ UNCHANGED pending
    BY <1>0, <1>3, SMTT(30) DEF Staffed!AssignmentUpdate, AssignmentRow
  <2> QED
    BY <1>0, <2>1, RequestsKept
<1>4. ASSUME NEW a \in Staffed!Rows(assignments), NEW v, Staffed!AssignmentCancel(a, v)
      PROVE  RequestsOK'
  <2>1. /\ \A b \in Staffed!Rows(assignments) : assignments'[b].card = assignments[b].card
        /\ UNCHANGED pending
    BY <1>0, <1>4, SMTT(30) DEF Staffed!AssignmentCancel, AssignmentRow
  <2> QED
    BY <1>0, <2>1, RequestsKept
<1>5. ASSUME NEW a \in Staffed!Rows(assignments), NEW caller, NEW card \in Staffed!Rows(cards),
             Staffed!AssignmentSetRateCard(caller, a, card)
      PROVE  RequestsOK'
  <2>1. /\ \A b \in Staffed!Rows(assignments) :
             assignments'[b].card = IF b = a THEN card ELSE assignments[b].card
        /\ UNCHANGED pending
    BY <1>0, <1>5, SMTT(30) DEF Staffed!AssignmentSetRateCard, AssignmentRow
  <2>2. card # Staffed!NoCard
    BY DEF Staffed!Rows, Staffed!NoCard
  <2> QED
    BY <1>0, <2>1, <2>2, RequestsKept
<1>6. ASSUME NEW a \in Staffed!Rows(assignments), NEW hourly, Staffed!SetRateOverrideRead(a, hourly)
      PROVE  RequestsOK'
  BY <1>6 DEF RequestsOK, Staffed!SetRateOverrideRead, Staffed!Begin
<1>7. ASSUME NEW a \in Staffed!Rows(assignments), NEW caller, Staffed!ClearRateOverrideRead(caller, a)
      PROVE  RequestsOK'
  <2> DEFINE rate == Staffed!ResolvedRate(caller, assignments[a].card, NoRate)
  <2>1. assignments[a].card = Staffed!NoCard => rate = DefaultDaily \div 8
    BY DEF Staffed!ResolvedRate, Staffed!LineSeenBy, Staffed!LineOf, Staffed!ResolveAssignmentRate,
           Staffed!HoursPerDay
  <2>2. /\ pending' = pending \cup {[op |-> "clear", assignment |-> a, override |-> NoRate, rate |-> rate]}
        /\ UNCHANGED assignments
    BY <1>7 DEF Staffed!ClearRateOverrideRead, Staffed!Begin
  <2> HIDE DEF rate
  <2> QED
    BY <2>1, <2>2 DEF RequestsOK
<1>8. ASSUME NEW r \in pending, Staffed!RateOverrideWrite(r) PROVE RequestsOK'
  <2>1. /\ \A b \in Staffed!Rows(assignments) : assignments'[b].card = assignments[b].card
        /\ pending' \subseteq pending
    BY <1>0, <1>8 DEF Staffed!RateOverrideWrite, AssignmentRow
  <2> QED
    BY <1>0, <2>1, RequestsKept
<1>9. ASSUME NEW d, Staffed!CalendarChanges(d) PROVE RequestsOK'
  BY <1>1, <1>9 DEF Staffed!CalendarChanges
<1>10. ASSUME NEW line,
              \/ Staffed!RateCardCreate(line)
              \/ \E c \in Staffed!Rows(cards), v \in 1..2 : Staffed!RateCardUpdate(c, v, line)
       PROVE  RequestsOK'
  BY <1>1, <1>10 DEF Staffed!RateCardCreate, Staffed!RateCardUpdate
<1>11. CASE UNCHANGED Staffed!vars
  BY <1>1, <1>11 DEF Staffed!vars
<1> QED
  BY <1>2, <1>3, <1>4, <1>5, <1>6, <1>7, <1>8, <1>9, <1>10, <1>11
  DEF Staffed!Next, Staffed!AssignmentCreate, Staffed!OverrideAndProceed

\* The rows a device shows for a create.
LEMMA CreateIsShown ==
  ASSUME StaffingIInv, Staffed!Next, Len(assignments') > Len(assignments)
  PROVE  LET row == assignments'[Len(assignments')]
         IN Staffed!WithoutRate(assignments')
              = Staffed!WithoutRate(Append(assignments, Staffed!ShownFor(row)))
<1>0. assignments \in Seq(AssignmentRow) /\ StaffingType
  BY DEF StaffingIInv, StaffingType
<1>1. PICK caller, e, start, end, pct, card, reason :
        Staffed!Build(caller, e, start, end, pct, card, reason)
  <2>1. ASSUME Len(assignments') = Len(assignments) PROVE FALSE
    <3>1. Len(assignments) \in Nat
      BY <1>0
    <3> QED
      BY <2>1, <3>1
  <2>2. ASSUME UNCHANGED assignments PROVE FALSE
    BY <2>1, <2>2
  <2>3. ASSUME NEW a \in Staffed!Rows(assignments), NEW start, NEW end, NEW pct,
               Staffed!AssignmentUpdate(a, start, end, pct)
        PROVE  FALSE
    BY <1>0, <2>1, <2>3 DEF Staffed!AssignmentUpdate
  <2>4. ASSUME NEW a \in Staffed!Rows(assignments), NEW v, Staffed!AssignmentCancel(a, v)
        PROVE  FALSE
    BY <1>0, <2>1, <2>4 DEF Staffed!AssignmentCancel
  <2>5. ASSUME NEW a \in Staffed!Rows(assignments), NEW caller, NEW card,
               Staffed!AssignmentSetRateCard(caller, a, card)
        PROVE  FALSE
    BY <1>0, <2>1, <2>5 DEF Staffed!AssignmentSetRateCard
  <2>6. ASSUME NEW r \in pending, Staffed!RateOverrideWrite(r) PROVE FALSE
    BY <1>0, <2>1, <2>6 DEF Staffed!RateOverrideWrite
  <2>7. ASSUME NEW a, NEW hourly, Staffed!SetRateOverrideRead(a, hourly) PROVE FALSE
    BY <2>2, <2>7 DEF Staffed!SetRateOverrideRead, Staffed!Begin
  <2>8. ASSUME NEW a, NEW caller, Staffed!ClearRateOverrideRead(caller, a) PROVE FALSE
    BY <2>2, <2>8 DEF Staffed!ClearRateOverrideRead, Staffed!Begin
  <2>9. ASSUME NEW d, Staffed!CalendarChanges(d) PROVE FALSE
    BY <2>2, <2>9 DEF Staffed!CalendarChanges
  <2>10. ASSUME NEW line,
                \/ Staffed!RateCardCreate(line)
                \/ \E c \in Staffed!Rows(cards), v \in 1..2 : Staffed!RateCardUpdate(c, v, line)
         PROVE  FALSE
    BY <2>2, <2>10 DEF Staffed!RateCardCreate, Staffed!RateCardUpdate
  <2>11. PICK caller, e, start, end, pct, card :
            \/ Staffed!AssignmentCreate(caller, e, start, end, pct, card)
            \/ Staffed!OverrideAndProceed(caller, e, start, end, pct, card)
    <3>1. SUFFICES ASSUME ~(\E caller, e, start, end, pct, card :
                              \/ Staffed!AssignmentCreate(caller, e, start, end, pct, card)
                              \/ Staffed!OverrideAndProceed(caller, e, start, end, pct, card))
                   PROVE  FALSE
      OBVIOUS
    <3> QED
      BY <2>3, <2>4, <2>5, <2>6, <2>7, <2>8, <2>9, <2>10, <3>1, Zenon DEF Staffed!Next
  <2>12. CASE Staffed!AssignmentCreate(caller, e, start, end, pct, card)
    BY <2>12 DEF Staffed!AssignmentCreate
  <2>13. CASE Staffed!OverrideAndProceed(caller, e, start, end, pct, card)
    BY <2>13 DEF Staffed!OverrideAndProceed
  <2> QED
    BY <2>11, <2>12, <2>13
<1> DEFINE rate == Staffed!ResolvedRate(caller, card, NoRate)
           row == Staffed!NewAssignment(e, start, end, pct, card, rate, reason)
<1>2. assignments' = Append(assignments, row)
  BY <1>1 DEF Staffed!Build
<1> HIDE DEF rate
<1>3. Len(assignments) \in Nat
  BY <1>0
<1>4. [row EXCEPT !.rate = NoRate] = [Staffed!ShownFor(row) EXCEPT !.rate = NoRate]
  BY DEF Staffed!NewAssignment, Staffed!ShownFor, Staffed!DeviceAssignment
<1> DEFINE shown == Staffed!ShownFor(row)
<1> HIDE DEF row
<1>5. assignments'[Len(assignments')] = row
  BY <1>0, <1>2, <1>3
<1> HIDE DEF shown
<1>6. Staffed!WithoutRate(Append(assignments, row)) = Staffed!WithoutRate(Append(assignments, shown))
  <2>1. PICK n : n = Len(assignments) + 1
    OBVIOUS
  <2>2. PICK a, b : a = Append(assignments, row) /\ b = Append(assignments, shown)
    OBVIOUS
  <2>3. /\ DOMAIN a = 1..n /\ DOMAIN b = 1..n /\ a[n] = row /\ b[n] = shown
        /\ \A k \in 1..n : k # n => a[k] = b[k]
    BY <1>0, <1>3, <2>1, <2>2
  <2>4. \A k \in 1..n : [a[k] EXCEPT !.rate = NoRate] = [b[k] EXCEPT !.rate = NoRate]
    BY <1>4, <2>3 DEF shown
  <2> QED
    BY <2>2, <2>3, <2>4 DEF Staffed!WithoutRate
<1> QED
  BY <1>2, <1>5, <1>6 DEF shown

\* The row a device shows for a change of card.
LEMMA SetRateCardIsShown ==
  ASSUME StaffingIInv, NEW a \in Staffed!Rows(assignments), NEW caller, NEW card,
         Staffed!AssignmentSetRateCard(caller, a, card)
  PROVE  Staffed!WithoutRate(assignments') = Staffed!WithoutRate(Staffed!DeviceSetRateCard(a, card))
<1> DEFINE rate == Staffed!ResolvedRate(caller, card, assignments[a].override)
           next == assignments[a].version + 1
<1>0. assignments \in Seq(AssignmentRow) /\ a \in DOMAIN assignments
      /\ assignments[a] \in AssignmentRow
  BY DEF StaffingIInv, StaffingType, Staffed!Rows
<1>1. assignments' = [assignments EXCEPT ![a] =
                        [assignments[a] EXCEPT !.card = card, !.version = next, !.rate = rate]]
  BY <1>0 DEF Staffed!AssignmentSetRateCard
<1>2. Staffed!DeviceSetRateCard(a, card)
        = [assignments EXCEPT ![a] = [assignments[a] EXCEPT !.card = card, !.version = next]]
  BY <1>0 DEF Staffed!DeviceSetRateCard
<1> HIDE DEF rate, next
<1> DEFINE new == [assignments[a] EXCEPT !.card = card, !.version = next, !.rate = rate]
           shown == [assignments[a] EXCEPT !.card = card, !.version = next]
<1>3. [new EXCEPT !.rate = NoRate] = [shown EXCEPT !.rate = NoRate]
  BY <1>0 DEF AssignmentRow
<1> HIDE DEF new, shown
<1>4. Staffed!WithoutRate([assignments EXCEPT ![a] = new])
        = Staffed!WithoutRate([assignments EXCEPT ![a] = shown])
  <2>1. PICK s, t : s = [assignments EXCEPT ![a] = new] /\ t = [assignments EXCEPT ![a] = shown]
    OBVIOUS
  <2>2. /\ DOMAIN s = DOMAIN assignments /\ DOMAIN t = DOMAIN assignments /\ s[a] = new /\ t[a] = shown
        /\ \A k \in DOMAIN assignments : k # a => s[k] = t[k]
    BY <1>0, <2>1
  <2>3. \A k \in DOMAIN assignments : [s[k] EXCEPT !.rate = NoRate] = [t[k] EXCEPT !.rate = NoRate]
    BY <1>3, <2>2
  <2> QED
    BY <2>1, <2>2, <2>3 DEF Staffed!WithoutRate
<1> QED
  BY <1>1, <1>2, <1>4 DEF new, shown

\* The row a device shows for an override that is set or cleared.
LEMMA RateIsShown ==
  ASSUME StaffingIInv, RequestsOK, NEW r \in pending, Staffed!RateOverrideWrite(r)
  PROVE  \/ r.op = "set" /\ Staffed!DeviceSetRateOverride(r.assignment, r.override)
         \/ r.op = "clear" /\ (assignments[r.assignment].card = Staffed!NoCard
                                 => Staffed!DeviceClearRateOverride(r.assignment))
<1> DEFINE a == r.assignment
           next == assignments[a].version + 1
<1>0. /\ r \in RateRequest /\ assignments \in Seq(AssignmentRow) /\ a \in DOMAIN assignments
      /\ assignments[a] \in AssignmentRow
  BY DEF StaffingIInv, StaffingType, Staffed!Rows
<1>1. assignments' = [assignments EXCEPT ![a] =
         [assignments[a] EXCEPT !.override = r.override, !.rate = r.rate, !.version = next]]
  BY <1>0 DEF Staffed!RateOverrideWrite
<1>2. CASE r.op = "set"
  <2>1. r.rate = r.override
    BY <1>2 DEF RequestsOK
  <2> QED
    BY <1>0, <1>1, <1>2, <2>1 DEF Staffed!DeviceSetRateOverride
<1>3. CASE r.op = "clear" /\ assignments[a].card = Staffed!NoCard
  <2>1. r.override = NoRate /\ r.rate = DefaultDaily \div 8
    BY <1>3 DEF RequestsOK
  <2> QED
    BY <1>0, <1>1, <1>3, <2>1 DEF Staffed!DeviceClearRateOverride, Staffed!HoursPerDay, AssignmentRow
<1>4. r.op \in {"set", "clear"}
  BY <1>0 DEF RateRequest
<1> QED
  BY <1>2, <1>3, <1>4

\* What the server writes of a call is what the device shows of it.
LEMMA StaffingShown ==
  StaffingIInv /\ RequestsOK /\ [Staffed!Next]_Staffed!vars =>
    [assignments' # assignments =>
       /\ Len(assignments') > Len(assignments) =>
            LET row == assignments'[Len(assignments')]
            IN Staffed!WithoutRate(assignments')
                 = Staffed!WithoutRate(Append(assignments, Staffed!ShownFor(row)))
       /\ \A a \in Staffed!Rows(assignments) :
            /\ \A start, end \in Staffed!Days, pct \in Percents :
                 Staffed!AssignmentUpdate(a, start, end, pct)
                   => Staffed!DeviceUpdate(a, start, end, pct)
            /\ LET v == assignments[a].version
               IN Staffed!AssignmentCancel(a, v) => Staffed!DeviceCancel(a, v)
            /\ \A caller \in Callers, card \in Staffed!Rows(cards) :
                 Staffed!AssignmentSetRateCard(caller, a, card) =>
                   Staffed!WithoutRate(assignments')
                     = Staffed!WithoutRate(Staffed!DeviceSetRateCard(a, card))
       /\ \A r \in pending :
            Staffed!RateOverrideWrite(r) =>
              \/ r.op = "set" /\ Staffed!DeviceSetRateOverride(r.assignment, r.override)
              \/ r.op = "clear" /\ (assignments[r.assignment].card = Staffed!NoCard
                                      => Staffed!DeviceClearRateOverride(r.assignment))]_Staffed!vars
<1> SUFFICES ASSUME StaffingIInv, RequestsOK, Staffed!Next, assignments' # assignments
             PROVE  /\ Len(assignments') > Len(assignments) =>
                         LET row == assignments'[Len(assignments')]
                         IN Staffed!WithoutRate(assignments')
                              = Staffed!WithoutRate(Append(assignments, Staffed!ShownFor(row)))
                    /\ \A a \in Staffed!Rows(assignments) :
                         /\ \A start, end \in Staffed!Days, pct \in Percents :
                              Staffed!AssignmentUpdate(a, start, end, pct)
                                => Staffed!DeviceUpdate(a, start, end, pct)
                         /\ LET v == assignments[a].version
                            IN Staffed!AssignmentCancel(a, v) => Staffed!DeviceCancel(a, v)
                         /\ \A caller \in Callers, card \in Staffed!Rows(cards) :
                              Staffed!AssignmentSetRateCard(caller, a, card) =>
                                Staffed!WithoutRate(assignments')
                                  = Staffed!WithoutRate(Staffed!DeviceSetRateCard(a, card))
                    /\ \A r \in pending :
                         Staffed!RateOverrideWrite(r) =>
                           \/ r.op = "set" /\ Staffed!DeviceSetRateOverride(r.assignment, r.override)
                           \/ r.op = "clear" /\ (assignments[r.assignment].card = Staffed!NoCard
                                                   => Staffed!DeviceClearRateOverride(r.assignment))
  BY DEF Staffed!vars
<1>1. ASSUME NEW a \in Staffed!Rows(assignments), NEW start, NEW end, NEW pct,
             Staffed!AssignmentUpdate(a, start, end, pct)
      PROVE  Staffed!DeviceUpdate(a, start, end, pct)
  BY <1>1 DEF Staffed!AssignmentUpdate, Staffed!DeviceUpdate
<1>2. ASSUME NEW a \in Staffed!Rows(assignments), NEW v, Staffed!AssignmentCancel(a, v)
      PROVE  Staffed!DeviceCancel(a, v)
  BY <1>2 DEF Staffed!AssignmentCancel, Staffed!DeviceCancel
<1> QED
  BY <1>1, <1>2, CreateIsShown, SetRateCardIsShown, RateIsShown

-----------------------------------------------------------------------------
(* The two parts *)

\* A behaviour of the two parts is, for each, one of its own or one in which it rests.
THEOREM ContentIsItsParts == ContentSpec => Spec /\ Staffed!Spec
<1>1. ContentInit => Init /\ Staffed!Init
  BY DEF ContentInit
<1>2. [ContentNext]_allVars => [Next]_vars
  BY DEF ContentNext, OfContent, OfStaffing, allVars
<1>3. [ContentNext]_allVars => [Staffed!Next]_Staffed!vars
  BY DEF ContentNext, OfContent, OfStaffing, allVars, staffingVars, Staffed!vars
<1> QED
  BY <1>1, <1>2, <1>3, PTL DEF ContentSpec, Spec, Staffed!Spec

\* Whatever is created, moved and cancelled, a day an employee is overcommitted on carries the
\* override that was recorded for it, unless it was no working day when the assignments were
\* accepted (capacityTotalsFor, overrideAndProceed).
THEOREM OvercommitsAreExplained == ContentSpec => []OvercommitIsExplained
  BY ContentIsItsParts, StaffingInvariant, ExplainedHolds, PTL

\* An assignment has the one open governed_by edge its card names, and of the versions of a
\* card only the latest is active (setRateCard, rateCard.update).
THEOREM CardsAgree == ContentSpec => []CardsInForce
  BY ContentIsItsParts, StaffingInvariant, InForceHolds, PTL

\* The device shows of an assignment what the server makes of it, a rate on its way included
\* where there is no card.
THEOREM StaffingIsShown == ContentSpec => ShownAsDelivered
<1>1. Staffed!Init => RequestsOK
  BY DEF Staffed!Init, RequestsOK
<1>2. Staffed!Spec => [](StaffingIInv /\ RequestsOK)
  BY <1>1, StaffingInvariant, RequestsStep, PTL DEF Staffed!Spec
<1> QED
  BY <1>2, ContentIsItsParts, StaffingShown, PTL
  DEF ShownAsDelivered, Staffed!ShownAsDelivered, Staffed!Spec
============================================================================
