-------------------------- MODULE AgentTurn_proofs --------------------------
(***************************************************************************)
(* Proofs about AgentTurn: what the LLM is sent, what the user was shown   *)
(* and what a history still tells, for every caller, every number of runs, *)
(* turns and tool calls.                                                   *)
(***************************************************************************)
EXTENDS AgentTurn, Subsequences_proofs

Turn == SUBSET Block
Kinded(t) == IsPrompt(t) \/ IsResult(t) \/ IsSpoken(t)

-----------------------------------------------------------------------------
(* Blocks and turns. *)

\* The blocks are told apart by their kinds, calls and results by their ids.
LEMMA BlockKinds ==
  /\ Text \in Block /\ Text.kind = "text"
  /\ \A S \in SUBSET (1 .. Runs) : Summary(S) \in Block /\ Summary(S).kind = "prompt" /\ Summary(S).of = S
  /\ \A c \in CallIds : /\ Call(c) \in Block /\ Call(c).kind = "call" /\ Call(c).id = c
                        /\ Result(c) \in Block /\ Result(c).kind = "result" /\ Result(c).id = c
  /\ \A b \in Block : /\ b.kind = "call" => b.id \in CallIds /\ b = Call(b.id)
                      /\ b.kind = "result" => b.id \in CallIds /\ b = Result(b.id)
                      /\ b.kind = "prompt" => b.of \in SUBSET (1 .. Runs) /\ b = Summary(b.of)
PROOF
<1>1. Text \in Block /\ Text.kind = "text"
  BY DEF Block, Text
<1>2. \A S \in SUBSET (1 .. Runs) : Summary(S) \in Block /\ Summary(S).kind = "prompt" /\ Summary(S).of = S
  BY DEF Block, Summary
<1>3. \A c \in CallIds : /\ Call(c) \in Block /\ Call(c).kind = "call" /\ Call(c).id = c
                         /\ Result(c) \in Block /\ Result(c).kind = "result" /\ Result(c).id = c
  BY DEF Block, Call, Result
<1>4. ASSUME NEW b \in Block
      PROVE  /\ b.kind = "call" => b.id \in CallIds /\ b = Call(b.id)
             /\ b.kind = "result" => b.id \in CallIds /\ b = Result(b.id)
             /\ b.kind = "prompt" => b.of \in SUBSET (1 .. Runs) /\ b = Summary(b.of)
  <2>1. CASE b = Text
    BY <1>1, <2>1
  <2>2. CASE b \in [kind : {"prompt"}, of : SUBSET (1 .. Runs)]
    BY <2>2 DEF Summary
  <2>3. CASE b \in [kind : {"call", "result"}, id : CallIds]
    BY <2>3 DEF Call, Result
  <2> QED
    BY <2>1, <2>2, <2>3 DEF Block
<1> QED
  BY <1>1, <1>2, <1>3, <1>4

\* Only the empty sequence has no elements.
LEMMA EmptyHasNoLength ==
  ASSUME NEW S, NEW s \in Seq(S)
  PROVE  s = <<>> <=> Len(s) = 0
PROOF OBVIOUS

\* What is in a turn of each kind.
LEMMA TurnKinds ==
  ASSUME NEW t \in Turn
  PROVE  /\ IsPrompt(t) => \A c \in CallIds : Call(c) \notin t /\ Result(c) \notin t
         /\ IsSpoken(t) => \A c \in CallIds : Result(c) \notin t
         /\ IsResult(t) => (\A c \in CallIds : Call(c) \notin t) /\ Of("prompt", t) = {}
         /\ IsSpoken(t) => Of("prompt", t) = {}
         /\ IsResult(t) => Of("result", t) = t
PROOF
<1>1. IsPrompt(t) => \A c \in CallIds : Call(c) \notin t /\ Result(c) \notin t
  BY BlockKinds DEF IsPrompt
<1>2. IsSpoken(t) => \A c \in CallIds : Result(c) \notin t
  BY BlockKinds DEF IsSpoken
<1>3. IsResult(t) => (\A c \in CallIds : Call(c) \notin t) /\ Of("prompt", t) = {}
  BY BlockKinds DEF IsResult, Of
<1>4. IsSpoken(t) => Of("prompt", t) = {}
  BY BlockKinds DEF IsSpoken, Of
<1>5. IsResult(t) => Of("result", t) = t
  BY BlockKinds DEF IsResult, Of
<1> QED
  BY <1>1, <1>2, <1>3, <1>4, <1>5

\* What the ids and prompts of a history are.
LEMMA InHistory ==
  ASSUME NEW h \in Seq(Turn)
  PROVE  /\ \A c : c \in Ids("call", h) <=> c \in CallIds /\ \E i \in DOMAIN h : Call(c) \in h[i]
         /\ \A c : c \in Ids("result", h) <=> c \in CallIds /\ \E i \in DOMAIN h : Result(c) \in h[i]
         /\ \A n : n \in Prompts(h) <=> \E i \in DOMAIN h, b \in Block : b \in h[i] /\ b.kind = "prompt" /\ n \in b.of
         /\ Prompts(h) \in SUBSET (1 .. Runs)
PROOF
<1>0. \A i \in DOMAIN h : h[i] \subseteq Block
  BY DEF Turn
<1>1. \A c : c \in Ids("call", h) <=> \E i \in DOMAIN h, b \in Block : b \in h[i] /\ b.kind = "call" /\ b.id = c
  BY <1>0 DEF Ids, Of
<1>2. \A c : c \in Ids("result", h) <=> \E i \in DOMAIN h, b \in Block : b \in h[i] /\ b.kind = "result" /\ b.id = c
  BY <1>0 DEF Ids, Of
<1>3. \A n : n \in Prompts(h) <=> \E i \in DOMAIN h, b \in Block : b \in h[i] /\ b.kind = "prompt" /\ n \in b.of
  BY <1>0 DEF Prompts, Of
<1>4. \A c : c \in Ids("call", h) <=> c \in CallIds /\ \E i \in DOMAIN h : Call(c) \in h[i]
  BY <1>1, BlockKinds
<1>5. \A c : c \in Ids("result", h) <=> c \in CallIds /\ \E i \in DOMAIN h : Result(c) \in h[i]
  BY <1>2, BlockKinds
<1>6. Prompts(h) \in SUBSET (1 .. Runs)
  BY <1>3, BlockKinds
<1> QED
  BY <1>3, <1>4, <1>5, <1>6

-----------------------------------------------------------------------------
(* The repair. *)

\* What is left of a turn: what was said and asked, and the calls and results that have their counterpart.
LEMMA CleanedTurn ==
  ASSUME NEW t \in Turn, NEW valid \in SUBSET CallIds, Kinded(t)
  PROVE  /\ Cleaned(t, valid) \subseteq t
         /\ Cleaned(t, valid) # {} => Kinded(Cleaned(t, valid))
         /\ Cleaned(t, valid) # {} /\ IsResult(t) => IsResult(Cleaned(t, valid))
         /\ IsPrompt(t) => Cleaned(t, valid) = t
         /\ \A c \in CallIds : /\ Call(c) \in Cleaned(t, valid) <=> Call(c) \in t /\ c \in valid
                               /\ Result(c) \in Cleaned(t, valid) <=> Result(c) \in t /\ c \in valid
         /\ \A b \in t : b.kind = "prompt" => b \in Cleaned(t, valid)
PROOF
<1> DEFINE u == Cleaned(t, valid)
<1>1. CASE IsPrompt(t)
  <2>1. PICK S \in SUBSET (1 .. Runs) : t = {Summary(S)}
    BY <1>1 DEF IsPrompt
  <2>2. Of("call", t) = {} /\ Of("result", t) = {}
    BY <2>1, BlockKinds DEF Of
  <2>3. u = t
    BY <2>2 DEF Cleaned
  <2>4. \A c \in CallIds : Call(c) \notin t /\ Result(c) \notin t
    BY <1>1, TurnKinds
  <2>5. ~ IsResult(t)
    BY <2>4 DEF IsResult
  <2> HIDE DEF u
  <2> QED
    BY <1>1, <2>3, <2>4, <2>5 DEF u, Kinded
<1>2. CASE IsResult(t)
  <2>1. PICK d \in CallIds : t = {Result(d)}
    BY <1>2 DEF IsResult
  <2>2. Of("call", t) = {} /\ Of("result", t) = {Result(d)}
    BY <2>1, BlockKinds DEF Of
  <2>3. u = {b \in t : b.kind = "result" /\ b.id \in valid}
    BY <2>2 DEF Cleaned
  <2>4. (d \in valid => u = t) /\ (d \notin valid => u = {})
    <3>1. Result(d).kind = "result" /\ Result(d).id = d
      BY BlockKinds
    <3> HIDE DEF u
    <3> QED
      BY <2>1, <2>3, <3>1
  <2>5. \A c \in CallIds : Call(c) \notin t /\ (Result(c) \in t <=> c = d)
    BY <2>1, BlockKinds
  <2>6. ~ IsPrompt(t) /\ \A b \in t : b.kind # "prompt"
    BY <2>1, BlockKinds DEF IsPrompt
  <2> HIDE DEF u
  <2> QED
    BY <1>2, <2>4, <2>5, <2>6 DEF u, Kinded
<1>3. CASE IsSpoken(t)
  <2>1. t # {} /\ \A b \in t : b = Text \/ \E c \in CallIds : b = Call(c)
    BY <1>3 DEF IsSpoken
  <2>2. Of("result", t) = {}
    BY <2>1, BlockKinds DEF Of
  <2>3. u = {b \in t : b.kind # "call" \/ b.id \in valid}
    <3>1. CASE Of("call", t) # {}
      BY <3>1 DEF Cleaned
    <3>2. CASE Of("call", t) = {}
      <4>1. u = t
        BY <2>2, <3>2 DEF Cleaned
      <4>2. \A b \in t : b.kind # "call"
        BY <3>2 DEF Of
      <4> QED
        BY <4>1, <4>2
    <3> QED
      BY <3>1, <3>2
  <2> HIDE DEF u
  <2>4. u \subseteq t
    BY <2>3
  <2>5. u # {} => IsSpoken(u)
    BY <2>1, <2>4 DEF IsSpoken
  <2>6. ~ IsPrompt(t) /\ ~ IsResult(t) /\ \A b \in t : b.kind # "prompt"
    BY <2>1, BlockKinds DEF IsPrompt, IsResult
  <2>7. \A c \in CallIds : Call(c) \in u <=> Call(c) \in t /\ c \in valid
    BY <2>3, BlockKinds
  <2>8. \A c \in CallIds : Result(c) \notin t
    BY <1>3, TurnKinds
  <2> QED
    BY <2>4, <2>5, <2>6, <2>7, <2>8 DEF u, Kinded
<1> QED
  BY <1>1, <1>2, <1>3 DEF Kinded

\* The repair keeps the order, closes the history, and loses no prompt.
LEMMA Repaired ==
  ASSUME NEW h \in Seq(Turn), Ordered(h)
  PROVE  /\ EnsureIntegrity(h) \in Seq(Turn)
         /\ Ordered(EnsureIntegrity(h)) /\ Closed(EnsureIntegrity(h))
         /\ h # <<>> => EnsureIntegrity(h) # <<>>
         /\ Prompts(h) \subseteq Prompts(EnsureIntegrity(h))
         /\ \A r, l : Fresh(h, r, l) => Fresh(EnsureIntegrity(h), r, l)
PROOF
<1> DEFINE valid == Ids("call", h) \intersect Ids("result", h)
           clean == [i \in DOMAIN h |-> Cleaned(h[i], valid)]
           kept  == {i \in DOMAIN clean : clean[i] # {}}
           g     == Pick(clean, kept)
<1>0. EnsureIntegrity(h) = g
  BY DEF EnsureIntegrity
<1>1. valid \in SUBSET CallIds
  BY InHistory
<1>2. \A i \in DOMAIN h : h[i] \in Turn /\ Kinded(h[i])
  BY DEF Ordered, Kinded
<1>3. Len(h) \in Nat /\ DOMAIN h = 1 .. Len(h)
  OBVIOUS
<1> HIDE DEF valid
<1>4. \A i \in DOMAIN h : /\ clean[i] = Cleaned(h[i], valid)
                          /\ clean[i] \subseteq h[i]
                          /\ clean[i] # {} => Kinded(clean[i])
                          /\ clean[i] # {} /\ IsResult(h[i]) => IsResult(clean[i])
                          /\ IsPrompt(h[i]) => clean[i] = h[i]
                          /\ \A c \in CallIds : /\ Call(c) \in clean[i] <=> Call(c) \in h[i] /\ c \in valid
                                                /\ Result(c) \in clean[i] <=> Result(c) \in h[i] /\ c \in valid
                          /\ \A b \in h[i] : b.kind = "prompt" => b \in clean[i]
  <2> SUFFICES ASSUME NEW i \in DOMAIN h
               PROVE  /\ clean[i] = Cleaned(h[i], valid)
                      /\ clean[i] \subseteq h[i]
                      /\ clean[i] # {} => Kinded(clean[i])
                      /\ clean[i] # {} /\ IsResult(h[i]) => IsResult(clean[i])
                      /\ IsPrompt(h[i]) => clean[i] = h[i]
                      /\ \A c \in CallIds : /\ Call(c) \in clean[i] <=> Call(c) \in h[i] /\ c \in valid
                                            /\ Result(c) \in clean[i] <=> Result(c) \in h[i] /\ c \in valid
                      /\ \A b \in h[i] : b.kind = "prompt" => b \in clean[i]
    OBVIOUS
  <2>1. clean[i] = Cleaned(h[i], valid)
    OBVIOUS
  <2> HIDE DEF clean
  <2> QED
    BY <1>1, <1>2, <2>1, CleanedTurn
<1>5. clean \in Seq(Turn) /\ Len(clean) = Len(h) /\ DOMAIN clean = DOMAIN h
  <2>1. \A i \in DOMAIN h : clean[i] \in Turn
    BY <1>2, <1>4 DEF Turn
  <2> QED
    BY <1>3, <2>1
<1>6. g \in Seq(Turn) /\ \E e : Picked(clean, kept, Len(clean), g, e)
  <2> HIDE DEF clean, kept
  <2> QED
    BY <1>5, PickElements
<1>7. PICK e : Picked(clean, kept, Len(clean), g, e)
  BY <1>6
<1>8. \A i \in DOMAIN h : i \in kept <=> clean[i] # {}
  BY <1>5
<1> HIDE DEF g, kept, clean
<1>9. Len(g) \in Nat /\ DOMAIN g = 1 .. Len(g)
  BY <1>6
\* Where each turn comes from.
<1>10. \A k \in DOMAIN g : e[k] \in DOMAIN h /\ g[k] = clean[e[k]] /\ clean[e[k]] # {}
  BY <1>3, <1>5, <1>7, <1>8, <1>9 DEF Picked
<1>11. \A k, l \in DOMAIN g : k < l => e[k] < e[l]
  BY <1>7, <1>9 DEF Picked
<1>12. \A i \in DOMAIN h : clean[i] # {} => \E k \in DOMAIN g : e[k] = i
  BY <1>3, <1>5, <1>7, <1>8, <1>9 DEF Picked
<1>13. \A k, l \in DOMAIN g : e[k] < e[l] => k < l
  <2> SUFFICES ASSUME NEW k \in DOMAIN g, NEW l \in DOMAIN g, e[k] < e[l], ~ (k < l) PROVE FALSE
    OBVIOUS
  <2>1. e[k] \in Nat /\ e[l] \in Nat
    BY <1>3, <1>10
  <2>2. k = l \/ l < k
    BY <1>9
  <2> QED
    BY <1>11, <2>1, <2>2
<1>14. \A k \in DOMAIN g : Kinded(g[k])
  BY <1>4, <1>10
<1>15. h # <<>> => g # <<>> /\ IsPrompt(g[1])
  <2> SUFFICES ASSUME h # <<>> PROVE g # <<>> /\ IsPrompt(g[1])
    OBVIOUS
  <2>1. 1 \in DOMAIN h /\ IsPrompt(h[1])
    BY <1>3 DEF Ordered
  <2>2. clean[1] = h[1] /\ h[1] # {}
    BY <1>4, <2>1 DEF IsPrompt
  <2>3. PICK k \in DOMAIN g : e[k] = 1
    BY <1>12, <2>1, <2>2
  <2>4. k = 1
    <3> SUFFICES ASSUME k # 1 PROVE FALSE
      OBVIOUS
    <3>1. 1 \in DOMAIN g /\ 1 < k
      BY <1>9
    <3>2. e[1] < 1
      BY <1>11, <2>3, <3>1
    <3>3. e[1] \in 1 .. Len(h)
      BY <1>3, <1>10, <3>1
    <3> QED
      BY <3>2, <3>3
  <2> QED
    BY <1>9, <1>10, <2>1, <2>2, <2>3, <2>4
<1>16. g # <<>> => h # <<>>
  <2>1. g # <<>> => 1 \in DOMAIN g
    BY <1>6
  <2>2. h = <<>> => DOMAIN h = {}
    OBVIOUS
  <2> QED
    BY <1>10, <2>1, <2>2
<1>17. \A c \in CallIds, k, l \in DOMAIN g :
          /\ Call(c) \in g[k] /\ Call(c) \in g[l] => k = l
          /\ Result(c) \in g[k] /\ Result(c) \in g[l] => k = l
  <2> SUFFICES ASSUME NEW c \in CallIds, NEW k \in DOMAIN g, NEW l \in DOMAIN g
               PROVE  /\ Call(c) \in g[k] /\ Call(c) \in g[l] => k = l
                      /\ Result(c) \in g[k] /\ Result(c) \in g[l] => k = l
    OBVIOUS
  <2>1. e[k] = e[l] => k = l
    <3>1. e[k] \in Nat /\ e[l] \in Nat
      BY <1>3, <1>10
    <3>2. k \in Nat /\ l \in Nat
      BY <1>9
    <3> QED
      BY <1>11, <3>1, <3>2
  <2>2. Call(c) \in g[k] /\ Call(c) \in g[l] => e[k] = e[l]
    BY <1>4, <1>10 DEF Ordered
  <2>3. Result(c) \in g[k] /\ Result(c) \in g[l] => e[k] = e[l]
    BY <1>4, <1>10 DEF Ordered
  <2> QED
    BY <2>1, <2>2, <2>3
<1>18. ASSUME NEW c \in CallIds, NEW l \in DOMAIN g, Result(c) \in g[l]
       PROVE  \E k \in 1 .. l - 1 : Call(c) \in g[k] /\ \A n \in k + 1 .. l : IsResult(g[n])
  <2>1. e[l] \in DOMAIN h /\ Result(c) \in h[e[l]] /\ c \in valid
    BY <1>4, <1>10, <1>18
  <2>2. PICK i \in 1 .. e[l] - 1 : Call(c) \in h[i] /\ \A n \in i + 1 .. e[l] : IsResult(h[n])
    BY <2>1 DEF Ordered
  <2>3. i \in DOMAIN h /\ i < e[l]
    BY <1>3, <2>1
  <2>4. Call(c) \in clean[i]
    BY <1>4, <2>1, <2>2, <2>3
  <2>5. PICK k \in DOMAIN g : e[k] = i
    BY <1>12, <2>3, <2>4
  <2>6. k \in 1 .. l - 1
    <3>1. k < l
      BY <1>13, <2>3, <2>5
    <3> QED
      BY <1>9, <3>1
  <2>7. ASSUME NEW n \in k + 1 .. l PROVE IsResult(g[n])
    <3>1. n \in DOMAIN g /\ k < n /\ (n = l \/ n < l)
      BY <1>9, <2>6
    <3>2. e[k] < e[n] /\ e[n] <= e[l]
      <4>1. e[n] \in Nat /\ e[l] \in Nat
        BY <1>3, <1>10, <3>1
      <4> QED
        BY <1>11, <3>1, <4>1
    <3>3. e[n] \in i + 1 .. e[l] /\ e[n] \in DOMAIN h
      BY <1>3, <1>10, <2>5, <3>1, <3>2
    <3> QED
      BY <1>4, <1>10, <2>2, <3>1, <3>3
  <2> QED
    BY <1>10, <2>4, <2>5, <2>6, <2>7
<1>19. Ordered(g)
  BY <1>14, <1>15, <1>16, <1>17, <1>18 DEF Ordered, Kinded
<1>20. Closed(g)
  <2> SUFFICES ASSUME NEW c \in CallIds, NEW k \in DOMAIN g, Call(c) \in g[k]
               PROVE  \E l \in DOMAIN g : Result(c) \in g[l]
    BY DEF Closed
  <2>1. c \in valid
    BY <1>4, <1>10
  <2>2. PICK j \in DOMAIN h : Result(c) \in h[j]
    BY <2>1, InHistory DEF valid
  <2>3. Result(c) \in clean[j]
    BY <1>4, <2>1, <2>2
  <2> QED
    BY <1>10, <1>12, <2>3
<1>21. Prompts(h) \subseteq Prompts(g)
  <2> SUFFICES ASSUME NEW n \in Prompts(h) PROVE n \in Prompts(g)
    OBVIOUS
  <2>1. PICK i \in DOMAIN h, b \in Block : b \in h[i] /\ b.kind = "prompt" /\ n \in b.of
    BY InHistory
  <2>2. b \in clean[i]
    BY <1>4, <2>1
  <2>3. PICK k \in DOMAIN g : e[k] = i
    BY <1>12, <2>2
  <2>4. b \in g[k]
    BY <1>10, <2>2, <2>3
  <2> QED
    BY <1>6, <2>1, <2>4, InHistory
<1>22. \A r, l : Fresh(h, r, l) => Fresh(g, r, l)
  BY <1>4, <1>10 DEF Fresh
<1> QED
  BY <1>0, <1>6, <1>15, <1>19, <1>20, <1>21, <1>22

-----------------------------------------------------------------------------
(* What else becomes of a history. *)

\* A compaction leaves one prompt that tells of all the others.
LEMMA Compacted ==
  ASSUME NEW h \in Seq(Turn)
  PROVE  /\ Compact(h) \in Seq(Turn)
         /\ Ordered(Compact(h)) /\ Compact(h) # <<>>
         /\ Prompts(h) \subseteq Prompts(Compact(h))
         /\ \A r, l : Fresh(Compact(h), r, l)
PROOF
<1> DEFINE t == {Summary(Prompts(h))}
<1>1. Prompts(h) \in SUBSET (1 .. Runs)
  BY InHistory
<1>2. t \in Turn /\ IsPrompt(t)
  BY <1>1, BlockKinds DEF Turn, IsPrompt
<1>3. \A c \in CallIds : Call(c) \notin t /\ Result(c) \notin t
  BY <1>2, TurnKinds
<1>4. Compact(h) = <<t>>
  BY DEF Compact
<1>5. \A n \in Prompts(h) : \E b \in Block : b \in t /\ b.kind = "prompt" /\ n \in b.of
  BY <1>1, BlockKinds
<1> HIDE DEF t
<1> DEFINE g == <<t>>
<1>6. g \in Seq(Turn) /\ g # <<>> /\ DOMAIN g = {1} /\ g[1] = t
  BY <1>2
<1> HIDE DEF g
<1>7. Ordered(g)
  BY <1>2, <1>3, <1>6 DEF Ordered
<1>8. Prompts(h) \subseteq Prompts(g)
  BY <1>5, <1>6, InHistory
<1>9. \A r, l : Fresh(g, r, l)
  BY <1>3, <1>6 DEF Fresh
<1> QED
  BY <1>4, <1>6, <1>7, <1>8, <1>9 DEF g

\* The turns of a longer history, and what it tells of.
LEMMA HistoryAppended ==
  ASSUME NEW h \in Seq(Turn), NEW t \in Turn
  PROVE  /\ Append(h, t) \in Seq(Turn) /\ Append(h, t) # <<>>
         /\ DOMAIN Append(h, t) = DOMAIN h \union {Len(h) + 1} /\ Len(h) + 1 \notin DOMAIN h
         /\ \A i \in DOMAIN h : Append(h, t)[i] = h[i]
         /\ Append(h, t)[Len(h) + 1] = t
         /\ Prompts(h) \subseteq Prompts(Append(h, t))
PROOF
<1> DEFINE g == Append(h, t)
<1>1. g \in Seq(Turn) /\ g # <<>>
  <2>1. g \in Seq(Turn) /\ Len(g) = Len(h) + 1 /\ Len(h) \in Nat
    OBVIOUS
  <2> HIDE DEF g
  <2> QED
    BY <2>1
<1>2. DOMAIN g = DOMAIN h \union {Len(h) + 1} /\ Len(h) + 1 \notin DOMAIN h
  OBVIOUS
<1>3. (\A i \in DOMAIN h : g[i] = h[i]) /\ g[Len(h) + 1] = t
  OBVIOUS
<1> HIDE DEF g
<1>4. Prompts(h) \subseteq Prompts(g)
  BY <1>1, <1>2, <1>3, InHistory
<1> QED
  BY <1>1, <1>2, <1>3, <1>4 DEF g

\* A prompt may follow anything.
LEMMA PromptAppended ==
  ASSUME NEW h \in Seq(Turn), NEW t \in Turn, Ordered(h), IsPrompt(t)
  PROVE  Ordered(Append(h, t)) /\ \A r, l : Fresh(h, r, l) => Fresh(Append(h, t), r, l)
PROOF
<1> DEFINE g == Append(h, t)
<1>0. Len(h) \in Nat /\ DOMAIN h = 1 .. Len(h)
  OBVIOUS
<1>1. DOMAIN g = DOMAIN h \union {Len(h) + 1} /\ (\A i \in DOMAIN h : g[i] = h[i]) /\ g[Len(h) + 1] = t
  BY HistoryAppended
<1>2. \A c \in CallIds : Call(c) \notin t /\ Result(c) \notin t
  BY TurnKinds
<1>3. h = <<>> => Len(h) + 1 = 1
  BY <1>0
<1>4. h # <<>> => 1 \in DOMAIN h
  BY <1>0
<1> HIDE DEF g
<1>5. \A i \in DOMAIN g : Kinded(g[i])
  BY <1>1 DEF Ordered, Kinded
<1>6. IsPrompt(g[1])
  BY <1>1, <1>3, <1>4 DEF Ordered
<1>7. \A c \in CallIds, i, j \in DOMAIN g :
         /\ Call(c) \in g[i] /\ Call(c) \in g[j] => i = j
         /\ Result(c) \in g[i] /\ Result(c) \in g[j] => i = j
  BY <1>1, <1>2 DEF Ordered
<1>8. ASSUME NEW c \in CallIds, NEW j \in DOMAIN g, Result(c) \in g[j]
      PROVE  \E i \in 1 .. j - 1 : Call(c) \in g[i] /\ \A k \in i + 1 .. j : IsResult(g[k])
  <2>1. j \in DOMAIN h /\ Result(c) \in h[j]
    BY <1>1, <1>2, <1>8
  <2>2. PICK i \in 1 .. j - 1 : Call(c) \in h[i] /\ \A k \in i + 1 .. j : IsResult(h[k])
    BY <2>1 DEF Ordered
  <2>3. i \in DOMAIN h /\ \A k \in i + 1 .. j : k \in DOMAIN h
    BY <1>0, <2>1
  <2> QED
    BY <1>1, <2>2, <2>3
<1>9. Ordered(g)
  BY <1>5, <1>6, <1>7, <1>8 DEF Ordered, Kinded
<1>10. \A r, l : Fresh(h, r, l) => Fresh(g, r, l)
  BY <1>1, <1>2 DEF Fresh
<1> QED
  BY <1>9, <1>10 DEF g

\* What is said may follow anything but the very beginning, if its calls are new.
LEMMA SpokenAppended ==
  ASSUME NEW h \in Seq(Turn), NEW t \in Turn, Ordered(h), h # <<>>, IsSpoken(t),
         \A c \in CallIds, i \in DOMAIN h : Call(c) \in t => Call(c) \notin h[i]
  PROVE  Ordered(Append(h, t))
PROOF
<1> DEFINE g == Append(h, t)
<1>0. Len(h) \in Nat /\ DOMAIN h = 1 .. Len(h) /\ 1 \in DOMAIN h
  OBVIOUS
<1>1. DOMAIN g = DOMAIN h \union {Len(h) + 1} /\ (\A i \in DOMAIN h : g[i] = h[i]) /\ g[Len(h) + 1] = t
  BY HistoryAppended
<1>2. \A c \in CallIds : Result(c) \notin t
  BY TurnKinds
<1> HIDE DEF g
<1>3. \A i \in DOMAIN g : Kinded(g[i])
  BY <1>1 DEF Ordered, Kinded
<1>4. IsPrompt(g[1])
  BY <1>0, <1>1 DEF Ordered
<1>5. \A c \in CallIds, i, j \in DOMAIN g : Call(c) \in g[i] /\ Call(c) \in g[j] => i = j
  BY <1>1 DEF Ordered
<1>6. \A c \in CallIds, i, j \in DOMAIN g : Result(c) \in g[i] /\ Result(c) \in g[j] => i = j
  BY <1>1, <1>2 DEF Ordered
<1>7. ASSUME NEW c \in CallIds, NEW j \in DOMAIN g, Result(c) \in g[j]
      PROVE  \E i \in 1 .. j - 1 : Call(c) \in g[i] /\ \A k \in i + 1 .. j : IsResult(g[k])
  <2>1. j \in DOMAIN h /\ Result(c) \in h[j]
    BY <1>1, <1>2, <1>7
  <2>2. PICK i \in 1 .. j - 1 : Call(c) \in h[i] /\ \A k \in i + 1 .. j : IsResult(h[k])
    BY <2>1 DEF Ordered
  <2>3. i \in DOMAIN h /\ \A k \in i + 1 .. j : k \in DOMAIN h
    BY <1>0, <2>1
  <2> QED
    BY <1>1, <2>2, <2>3
<1>8. Ordered(g)
  BY <1>3, <1>4, <1>5, <1>6, <1>7 DEF Ordered, Kinded
<1> QED
  BY <1>8 DEF g

\* A history followed by the results of calls that wait for them: the calls are in its turn at `at`, which only
\* results follow.
Waiting(h, at, calls) ==
  /\ at \in DOMAIN h
  /\ \A k \in at + 1 .. Len(h) : IsResult(h[k])
  /\ \A n \in DOMAIN calls : Call(calls[n].id) \in h[at]
  /\ \A n \in DOMAIN calls, j \in DOMAIN h : Result(calls[n].id) \notin h[j]
  /\ \A m, n \in DOMAIN calls : calls[m].id = calls[n].id => m = n

LEMMA ResultsAppended ==
  ASSUME NEW h \in Seq(Turn), NEW calls \in Seq([id : CallIds, tool : Tools]), NEW at,
         Ordered(h), Waiting(h, at, calls)
  PROVE  /\ AddResults(h, calls) \in Seq(Turn) /\ Ordered(AddResults(h, calls)) /\ AddResults(h, calls) # <<>>
         /\ Prompts(h) \subseteq Prompts(AddResults(h, calls))
         /\ \A r, l : Fresh(h, r, l) => Fresh(AddResults(h, calls), r, l)
         /\ \A i \in DOMAIN h : AddResults(h, calls)[i] = h[i]
         /\ Len(AddResults(h, calls)) = Len(h) + Len(calls)
         /\ \A n \in DOMAIN calls : AddResults(h, calls)[Len(h) + n] = {Result(calls[n].id)}
PROOF
<1> DEFINE new == [n \in DOMAIN calls |-> {Result(calls[n].id)}]
           g   == h \o new
<1>0. AddResults(h, calls) = g
  BY DEF AddResults
<1>1. /\ Len(h) \in Nat /\ DOMAIN h = 1 .. Len(h) /\ Len(calls) \in Nat /\ DOMAIN calls = 1 .. Len(calls)
      /\ \A n \in DOMAIN calls : calls[n].id \in CallIds
  <2> DEFINE Waiter == [id : CallIds, tool : Tools]
  <2>1. \A n \in DOMAIN calls : calls[n] \in Waiter
    <3>1. calls \in Seq(Waiter)
      OBVIOUS
    <3> HIDE DEF Waiter
    <3> QED
      BY <3>1
  <2>2. \A n \in DOMAIN calls : calls[n].id \in CallIds
    BY <2>1
  <2> QED
    BY <2>2
<1>2. \A n \in DOMAIN calls : new[n] = {Result(calls[n].id)} /\ new[n] \in Turn /\ IsResult(new[n])
  BY <1>1, BlockKinds DEF Turn, IsResult
<1>3. new \in Seq(Turn) /\ Len(new) = Len(calls)
  <2>1. new = [n \in 1 .. Len(calls) |-> new[n]]
    BY <1>1
  <2> HIDE DEF new
  <2> QED
    BY <1>1, <1>2, <2>1
<1> HIDE DEF new
<1>4. g \in Seq(Turn) /\ Len(g) = Len(h) + Len(calls) /\ DOMAIN g = 1 .. Len(h) + Len(calls)
  BY <1>1, <1>3
<1>5. (\A i \in DOMAIN h : g[i] = h[i]) /\ \A n \in DOMAIN calls : g[Len(h) + n] = {Result(calls[n].id)}
  BY <1>1, <1>2, <1>3
<1> HIDE DEF g
\* Each turn of it is of the old history or one of the new results.
<1>6. \A j \in DOMAIN g : j \in DOMAIN h \/ \E n \in DOMAIN calls : j = Len(h) + n /\ g[j] = {Result(calls[n].id)}
  <2> SUFFICES ASSUME NEW j \in DOMAIN g, j \notin DOMAIN h
               PROVE  \E n \in DOMAIN calls : j = Len(h) + n /\ g[j] = {Result(calls[n].id)}
    OBVIOUS
  <2>1. j - Len(h) \in DOMAIN calls /\ j = Len(h) + (j - Len(h))
    BY <1>1, <1>4
  <2> QED
    BY <1>5, <2>1
<1>7. \A j \in DOMAIN g \ DOMAIN h : IsResult(g[j])
  BY <1>1, <1>6 DEF IsResult
<1>8. \A c \in CallIds, j \in DOMAIN g : Call(c) \in g[j] => j \in DOMAIN h
  BY <1>4, <1>7, TurnKinds
<1>9. at \in DOMAIN h /\ h # <<>> /\ 1 \in DOMAIN h
  BY <1>1 DEF Waiting
<1>10. \A j \in DOMAIN g : Kinded(g[j])
  BY <1>5, <1>7 DEF Ordered, Kinded
<1>11. IsPrompt(g[1]) /\ g # <<>>
  BY <1>1, <1>4, <1>5, <1>9 DEF Ordered
<1>12. \A c \in CallIds, i, j \in DOMAIN g : Call(c) \in g[i] /\ Call(c) \in g[j] => i = j
  BY <1>5, <1>8 DEF Ordered
<1>13. ASSUME NEW c \in CallIds, NEW i \in DOMAIN g, NEW j \in DOMAIN g, Result(c) \in g[i], Result(c) \in g[j]
       PROVE  i = j
  <2>1. \A k \in DOMAIN g \ DOMAIN h : Result(c) \in g[k] => \E n \in DOMAIN calls : k = Len(h) + n /\ calls[n].id = c
    BY <1>1, <1>6, BlockKinds
  <2>2. \A k \in DOMAIN h : Result(c) \in g[k] => \A n \in DOMAIN calls : calls[n].id # c
    BY <1>5 DEF Waiting
  <2>3. CASE i \in DOMAIN h /\ j \in DOMAIN h
    BY <1>5, <1>13, <2>3 DEF Ordered
  <2>4. CASE i \notin DOMAIN h /\ j \notin DOMAIN h
    BY <1>13, <2>1, <2>4 DEF Waiting
  <2> QED
    BY <1>13, <2>1, <2>2, <2>3, <2>4
<1>14. ASSUME NEW c \in CallIds, NEW j \in DOMAIN g, Result(c) \in g[j]
       PROVE  \E i \in 1 .. j - 1 : Call(c) \in g[i] /\ \A k \in i + 1 .. j : IsResult(g[k])
  <2>1. CASE j \in DOMAIN h
    <3>1. PICK i \in 1 .. j - 1 : Call(c) \in h[i] /\ \A k \in i + 1 .. j : IsResult(h[k])
      BY <1>5, <1>14, <2>1 DEF Ordered
    <3>2. i \in DOMAIN h /\ \A k \in i + 1 .. j : k \in DOMAIN h
      BY <1>1, <2>1
    <3> QED
      BY <1>5, <3>1, <3>2
  <2>2. CASE j \notin DOMAIN h
    <3>1. PICK n \in DOMAIN calls : g[j] = {Result(calls[n].id)}
      BY <1>6, <2>2
    <3>2. calls[n].id = c
      BY <1>1, <1>14, <3>1, BlockKinds
    <3>3. Call(c) \in g[at]
      BY <1>5, <1>9, <3>2 DEF Waiting
    <3>4. at \in 1 .. j - 1
      BY <1>1, <1>4, <1>9, <2>2
    <3>5. ASSUME NEW k \in at + 1 .. j PROVE IsResult(g[k])
      <4>1. k \in DOMAIN g
        BY <1>1, <1>4, <1>9
      <4>2. CASE k \in DOMAIN h
        <5>1. k \in at + 1 .. Len(h)
          BY <1>1, <1>9, <4>2
        <5> QED
          BY <1>5, <4>2, <5>1 DEF Waiting
      <4> QED
        BY <1>7, <4>1, <4>2
    <3> QED
      BY <3>3, <3>4, <3>5
  <2> QED
    BY <2>1, <2>2
<1>15. Ordered(g)
  BY <1>10, <1>11, <1>12, <1>13, <1>14 DEF Ordered, Kinded
<1>16. Prompts(h) \subseteq Prompts(g)
  <2>1. \A i \in DOMAIN h : i \in DOMAIN g
    BY <1>1, <1>4
  <2> QED
    BY <1>4, <1>5, <2>1, InHistory
<1>17. \A r, l : Fresh(h, r, l) => Fresh(g, r, l)
  BY <1>5, <1>8 DEF Fresh
<1> QED
  BY <1>0, <1>4, <1>5, <1>11, <1>15, <1>16, <1>17

-----------------------------------------------------------------------------
(* The inductive invariant. *)

LEMMA InitInv ==
  Init => TurnInv
PROOF
<1> SUFFICES ASSUME Init PROVE TurnInv
  OBVIOUS
<1>1. TypeOK
  <2>1. <<>> \in Seq(SUBSET Block) /\ <<>> \in Seq([id : CallIds, tool : Tools]) /\ <<>> \in Seq({"result", "string"})
    OBVIOUS
  <2>2. run \in 0 .. Runs /\ left \in 0 .. MaxTurns
    BY BoundAssumption DEF Init
  <2> QED
    BY <2>1, <2>2 DEF Init, TypeOK
<1>2. DOMAIN hist = {} /\ DOMAIN saved = {} /\ DOMAIN pending = {}
  BY DEF Init
<1>3. HistInv /\ FreshInv
  BY <1>2 DEF Init, HistInv, FreshInv, Ordered, Fresh
<1>4. PendingInv /\ ShownInv /\ RunInv /\ InstructionKept
  BY <1>2 DEF Init, PendingInv, ShownInv, RunInv, InstructionKept
<1> QED
  BY <1>1, <1>3, <1>4 DEF TurnInv

\* The run begins with its prompt, after whatever the history it resumes ends with.
LEMMA StartInv ==
  ASSUME TurnInv, NEW resume \in BOOLEAN, NEW fetched \in BOOLEAN, Start(resume, fetched)
  PROVE  TurnInv'
PROOF
<1>1. hist \in Seq(Turn) /\ saved \in Seq(Turn) /\ run \in 0 .. Runs /\ MaxTurns \in Nat /\ Runs \in Nat
  BY BoundAssumption DEF TurnInv, TypeOK, Turn
<1>2. /\ pc = "idle" /\ run < Runs /\ run' = run + 1 /\ left' = MaxTurns
      /\ pending = <<>> /\ results = <<>> /\ shown = {}
      /\ UNCHANGED <<saved, pending, results, shown>>
      /\ pc' \in {"top", "ending"} /\ aborted' \in BOOLEAN
  BY DEF Start, TurnInv, PendingInv, ShownInv, TypeOK
<1> DEFINE base == Base(resume)
           t    == {Prompt(run + 1)}
<1>3. base \in Seq(Turn) /\ Ordered(base) /\ Fresh(base, run, 0)
  <2>1. Ordered(<<>>) /\ Fresh(<<>>, run, 0)
    <3>1. DOMAIN <<>> = {}
      OBVIOUS
    <3> QED
      BY <3>1 DEF Ordered, Fresh
  <2> QED
    BY <1>1, <2>1 DEF Base, TurnInv, HistInv, FreshInv
<1>4. t \in Turn /\ IsPrompt(t)
  <2>1. {run + 1} \in SUBSET (1 .. Runs) /\ Prompt(run + 1) = Summary({run + 1})
    BY <1>1, <1>2 DEF Prompt, Summary
  <2> QED
    BY <2>1, BlockKinds DEF Turn, IsPrompt
<1> HIDE DEF base, t
<1>5. (fetched => hist' = Append(base, t)) /\ (~ fetched => hist' = base)
  BY DEF Start, base, t
<1>6. (fetched => pc' = "top") /\ (~ fetched => pc' = "ending")
  BY DEF Start
<1>7. hist' \in Seq(Turn) /\ Ordered(hist') /\ Fresh(hist', run, 0) /\ (fetched => hist' # <<>>)
  <2>1. CASE fetched
    <3>1. hist' \in Seq(Turn) /\ hist' # <<>>
      BY <1>3, <1>4, <1>5, <2>1, HistoryAppended
    <3>2. Ordered(hist') /\ Fresh(hist', run, 0)
      BY <1>3, <1>4, <1>5, <2>1, PromptAppended
    <3> QED
      BY <3>1, <3>2
  <2>2. CASE ~ fetched
    BY <1>3, <1>5, <2>2
  <2> QED
    BY <2>1, <2>2
<1>8. said' = Prompts(hist')
  BY DEF Start
<1>9. TypeOK'
  <2>1. said' \subseteq 1 .. Runs
    BY <1>7, <1>8, InHistory
  <2>2. run' \in 0 .. Runs /\ left' \in 0 .. MaxTurns
    BY <1>1, <1>2
  <2> QED
    BY <1>2, <1>7, <2>1, <2>2 DEF TurnInv, TypeOK, Turn
<1>10. HistInv'
  BY <1>2, <1>6, <1>7 DEF TurnInv, HistInv
<1>11. \A h : Fresh(h, run, 0) => \A l : Fresh(h, run + 1, l)
  <2>1. \A c \in CallIds : c[1] \in Nat
    BY DEF CallIds
  <2>2. run \in Nat
    BY <1>1
  <2> QED
    BY <2>1, <2>2 DEF Fresh
<1>12. FreshInv'
  <2>1. Fresh(saved, run, 0)
    BY DEF TurnInv, FreshInv
  <2> QED
    BY <1>2, <1>7, <1>11, <2>1 DEF FreshInv
<1>13. PendingInv'
  <2>1. DOMAIN pending' = {}
    BY <1>2
  <2> QED
    BY <1>2, <2>1 DEF PendingInv
<1>14. ShownInv' /\ RunInv' /\ InstructionKept'
  BY <1>1, <1>2, <1>8 DEF ShownInv, RunInv, InstructionKept
<1> QED
  BY <1>9, <1>10, <1>12, <1>13, <1>14 DEF TurnInv

\* A history, compacted or not, is repaired.
LEMMA RepairInv ==
  ASSUME TurnInv, NEW h \in {hist, Compact(hist)}, pc \in {"top", "compact"},
         left > 0, left' = left - 1, pc' = "check", hist' = EnsureIntegrity(h),
         UNCHANGED <<saved, run, aborted, pending, results, shown, said>>
  PROVE  TurnInv'
PROOF
<1>1. /\ hist \in Seq(Turn) /\ left \in 0 .. MaxTurns /\ MaxTurns \in Nat
      /\ Ordered(hist) /\ hist # <<>> /\ Fresh(hist, run, left)
      /\ said \subseteq Prompts(hist)
  BY BoundAssumption DEF TurnInv, TypeOK, Turn, HistInv, FreshInv, InstructionKept
<1>2. /\ pc \in {"top", "compact"} /\ left > 0 /\ left' = left - 1 /\ pc' = "check"
      /\ hist' = EnsureIntegrity(h)
      /\ UNCHANGED <<saved, run, aborted, pending, results, shown, said>>
  OBVIOUS
<1>3. h \in Seq(Turn) /\ Ordered(h) /\ h # <<>> /\ Fresh(h, run, left) /\ Prompts(hist) \subseteq Prompts(h)
  BY <1>1, Compacted
<1>4. /\ hist' \in Seq(Turn) /\ Ordered(hist') /\ Closed(hist') /\ hist' # <<>>
      /\ Prompts(h) \subseteq Prompts(hist') /\ Fresh(hist', run, left)
  BY <1>2, <1>3, Repaired
<1>5. left' \in 0 .. MaxTurns /\ left' + 1 = left
  BY <1>1, <1>2
<1>6. TypeOK'
  BY <1>2, <1>4, <1>5 DEF TurnInv, TypeOK, Turn
<1>7. HistInv'
  BY <1>2, <1>4 DEF TurnInv, HistInv
<1>8. FreshInv'
  <2>1. Fresh(hist', run, 0)
    <3>1. \A c \in CallIds : c[2] >= 0
      BY DEF CallIds
    <3> QED
      BY <1>4, <3>1 DEF Fresh
  <2> QED
    BY <1>2, <1>4, <1>5, <2>1 DEF TurnInv, FreshInv
<1>9. PendingInv' /\ ShownInv' /\ RunInv'
  BY <1>2 DEF TurnInv, PendingInv, ShownInv, RunInv
<1>10. InstructionKept'
  BY <1>1, <1>2, <1>3, <1>4 DEF InstructionKept
<1> QED
  BY <1>6, <1>7, <1>8, <1>9, <1>10 DEF TurnInv

\* A history is repaired, or first sent to be summarised.
LEMMA TruncateInv ==
  ASSUME TurnInv, NEW over \in BOOLEAN, Truncate(over)
  PROVE  TurnInv'
PROOF
<1>1. CASE over
  <2>1. /\ pc = "top" /\ left > 0 /\ pc' = "compact"
        /\ UNCHANGED <<hist, saved, run, left, aborted, pending, results, shown, said>>
    BY <1>1 DEF Truncate
  <2> QED
    BY <2>1 DEF TurnInv, TypeOK, HistInv, FreshInv, PendingInv, ShownInv, RunInv, InstructionKept
<1>2. CASE ~ over
  BY <1>2, RepairInv DEF Truncate
<1> QED
  BY <1>1, <1>2

\* The summary is repaired like any other history.
LEMMA SummariseInv ==
  ASSUME TurnInv, Summarise
  PROVE  TurnInv'
PROOF
<1>1. left > 0
  BY DEF TurnInv, RunInv, Summarise
<1> QED
  BY <1>1, RepairInv DEF Summarise

\* A fake turn says nothing that needs an answer.
LEMMA FakeTurnAppended ==
  ASSUME NEW h \in Seq(Turn), Ordered(h), h # <<>>
  PROVE  /\ AddFakeTurn(h) \in Seq(Turn) /\ Ordered(AddFakeTurn(h)) /\ AddFakeTurn(h) # <<>>
         /\ Prompts(h) \subseteq Prompts(AddFakeTurn(h))
         /\ \A r, l : Fresh(h, r, l) => Fresh(AddFakeTurn(h), r, l)
PROOF
<1> DEFINE t == {Text}
<1>1. t \in Turn /\ IsSpoken(t)
  BY BlockKinds DEF Turn, IsSpoken
<1>2. \A c \in CallIds : Call(c) \notin t
  BY BlockKinds
<1>3. AddFakeTurn(h) = Append(h, t)
  BY DEF AddFakeTurn
<1> HIDE DEF t
<1> DEFINE g == Append(h, t)
<1>4. /\ g \in Seq(Turn) /\ g # <<>> /\ DOMAIN g = DOMAIN h \union {Len(h) + 1}
      /\ (\A i \in DOMAIN h : g[i] = h[i]) /\ g[Len(h) + 1] = t
      /\ Prompts(h) \subseteq Prompts(g)
  BY <1>1, HistoryAppended
<1>5. Ordered(g)
  BY <1>1, <1>2, SpokenAppended
<1> HIDE DEF g
<1>6. \A r, l : Fresh(h, r, l) => Fresh(g, r, l)
  BY <1>2, <1>4 DEF Fresh
<1> QED
  BY <1>3, <1>4, <1>5, <1>6 DEF g

\* Before a turn, an interruption adds a turn of the assistant and ends the run.
LEMMA CheckTurnInv ==
  ASSUME TurnInv, CheckTurn
  PROVE  TurnInv'
PROOF
<1>1. /\ hist \in Seq(Turn) /\ Ordered(hist) /\ Closed(hist) /\ hist # <<>> /\ said \subseteq Prompts(hist)
      /\ Fresh(hist, run, 0) /\ Fresh(hist, run, left + 1) /\ pending = <<>>
  BY DEF CheckTurn, TurnInv, TypeOK, Turn, HistInv, FreshInv, PendingInv, InstructionKept
<1>2. /\ pc = "check" /\ pc' \in {"llm", "ending"}
      /\ pc' = "llm" => hist' = hist
      /\ hist' = hist \/ hist' = AddFakeTurn(hist)
      /\ UNCHANGED <<saved, run, left, aborted, pending, results, shown, said>>
  BY DEF CheckTurn
<1>3. hist' \in Seq(Turn) /\ Ordered(hist') /\ Fresh(hist', run, 0) /\ Prompts(hist) \subseteq Prompts(hist')
  BY <1>1, <1>2, FakeTurnAppended
<1>4. TypeOK'
  BY <1>2, <1>3 DEF TurnInv, TypeOK, Turn
<1>5. HistInv' /\ FreshInv'
  BY <1>1, <1>2, <1>3 DEF TurnInv, HistInv, FreshInv
<1>6. PendingInv' /\ ShownInv' /\ RunInv'
  BY <1>2 DEF TurnInv, PendingInv, ShownInv, RunInv
<1>7. InstructionKept'
  BY <1>1, <1>2, <1>3 DEF InstructionKept
<1> QED
  BY <1>4, <1>5, <1>6, <1>7 DEF TurnInv

\* The calls of a new turn are new: their ids name the run and the turn.
LEMMA RespondInv ==
  ASSUME TurnInv, NEW text \in BOOLEAN, NEW tools \in BoundedSeq(Tools, MaxCalls), Respond(text, tools)
  PROVE  TurnInv'
PROOF
<1> DEFINE calls == [i \in DOMAIN tools |-> [id |-> <<run, left, i>>, tool |-> tools[i]]]
           turn  == (IF text \/ tools = <<>> THEN {Text} ELSE {}) \union {Call(calls[i].id) : i \in DOMAIN calls}
<1>1. /\ hist \in Seq(Turn) /\ Ordered(hist) /\ hist # <<>> /\ said \subseteq Prompts(hist)
      /\ Fresh(hist, run, 0) /\ Fresh(hist, run, left + 1) /\ results = <<>> /\ shown = {}
      /\ run \in 1 .. Runs /\ left \in 0 .. MaxTurns /\ Runs \in Nat /\ MaxTurns \in Nat /\ MaxCalls \in Nat
  BY BoundAssumption DEF Respond, TurnInv, TypeOK, Turn, HistInv, FreshInv, PendingInv, ShownInv, RunInv, InstructionKept
<1>2. /\ pc = "llm" /\ pending' = calls /\ hist' = Append(hist, turn)
      /\ pc' = IF tools = <<>> THEN "ending" ELSE "precheck"
      /\ UNCHANGED <<saved, run, left, aborted, results, shown, said>>
  BY DEF Respond
<1>3. PICK m \in 0 .. MaxCalls : tools \in [1 .. m -> Tools]
  BY DEF BoundedSeq, SeqOf
<1>4. \A i \in 1 .. m : <<run, left, i>> \in CallIds
  BY <1>1, <1>3 DEF CallIds
<1>5. m \in Nat /\ DOMAIN calls = 1 .. m /\ (tools # <<>> => 1 \in 1 .. m)
  BY <1>1, <1>3
<1>6. \A i \in 1 .. m : calls[i] \in [id : CallIds, tool : Tools] /\ calls[i].id = <<run, left, i>>
  <2> SUFFICES ASSUME NEW i \in 1 .. m
               PROVE calls[i] \in [id : CallIds, tool : Tools] /\ calls[i].id = <<run, left, i>>
    OBVIOUS
  <2>1. calls[i] = [id |-> <<run, left, i>>, tool |-> tools[i]] /\ tools[i] \in Tools
    BY <1>3
  <2> HIDE DEF calls
  <2> QED
    BY <1>4, <2>1
<1>7. calls \in Seq([id : CallIds, tool : Tools])
  <2> DEFINE Waiter == [id : CallIds, tool : Tools]
  <2>1. calls = [i \in 1 .. m |-> calls[i]]
    BY <1>3
  <2>2. \A i \in 1 .. m : calls[i] \in Waiter
    BY <1>6
  <2> HIDE DEF calls, Waiter
  <2>3. calls \in Seq(Waiter)
    BY <1>5, <2>1, <2>2
  <2> QED
    BY <2>3 DEF Waiter
<1>8. turn \in Turn /\ IsSpoken(turn)
  <2>1. \A b \in turn : b = Text \/ \E c \in CallIds : b = Call(c)
    <3> HIDE DEF calls
    <3> QED
      BY <1>4, <1>5, <1>6
  <2>2. turn # {}
    <3>1. CASE tools = <<>>
      BY <3>1
    <3>2. CASE tools # <<>>
      <4>1. Call(calls[1].id) \in turn
        <5> HIDE DEF calls
        <5> QED
          BY <1>5, <3>2
      <4> QED
        BY <4>1
    <3> QED
      BY <3>1, <3>2
  <2> HIDE DEF turn
  <2> QED
    BY <2>1, <2>2, BlockKinds DEF Turn, IsSpoken
<1>9. \A c \in CallIds : Call(c) \in turn <=> \E i \in 1 .. m : c = <<run, left, i>>
  <2> SUFFICES ASSUME NEW c \in CallIds PROVE Call(c) \in turn <=> \E i \in 1 .. m : c = <<run, left, i>>
    OBVIOUS
  <2> HIDE DEF calls
  <2>1. Call(c) # Text
    BY BlockKinds
  <2>2. \A i \in 1 .. m : Call(c) = Call(calls[i].id) <=> c = calls[i].id
    BY <1>4, <1>6, BlockKinds
  <2>3. Call(c) \in turn <=> \E i \in 1 .. m : Call(c) = Call(calls[i].id)
    BY <1>5, <2>1
  <2> QED
    BY <1>6, <2>2, <2>3
<1> HIDE DEF calls, turn
<1>10. \A c \in CallIds, i \in DOMAIN hist : Call(c) \in turn => Call(c) \notin hist[i]
  <2> SUFFICES ASSUME NEW c \in CallIds, NEW i \in DOMAIN hist, Call(c) \in turn, Call(c) \in hist[i] PROVE FALSE
    OBVIOUS
  <2>1. c[1] = run /\ c[2] = left
    BY <1>9
  <2>2. c[1] = run => c[2] >= left + 1
    BY <1>1 DEF Fresh
  <2> QED
    BY <1>1, <2>1, <2>2
<1>11. /\ hist' \in Seq(Turn) /\ hist' # <<>> /\ DOMAIN hist' = DOMAIN hist \union {Len(hist) + 1}
       /\ (\A i \in DOMAIN hist : hist'[i] = hist[i]) /\ hist'[Len(hist) + 1] = turn
       /\ Prompts(hist) \subseteq Prompts(hist')
  BY <1>1, <1>2, <1>8, HistoryAppended
<1>12. Ordered(hist')
  BY <1>1, <1>2, <1>8, <1>10, SpokenAppended
<1>13. \A l \in {0, left} : Fresh(hist', run, l)
  <2>1. ASSUME NEW c \in CallIds, NEW i \in DOMAIN hist', Call(c) \in hist'[i]
        PROVE  c[1] <= run /\ (c[1] = run => c[2] >= left /\ c[2] >= 0)
    <3>0. c[1] \in Nat /\ c[2] \in Nat
      BY DEF CallIds
    <3>1. CASE i \in DOMAIN hist
      <4>1. Call(c) \in hist[i]
        BY <1>11, <2>1, <3>1
      <4>2. c[1] <= run /\ (c[1] = run => c[2] >= left + 1)
        BY <1>1, <3>1, <4>1 DEF Fresh
      <4> QED
        BY <1>1, <3>0, <4>2
    <3>2. CASE i = Len(hist) + 1
      <4>1. c[1] = run /\ c[2] = left
        BY <1>9, <1>11, <2>1, <3>2
      <4> QED
        BY <1>1, <3>0, <4>1
    <3> QED
      BY <1>11, <3>1, <3>2
  <2> QED
    BY <2>1 DEF Fresh
<1>14. TypeOK'
  <2>1. pc' \in {"ending", "precheck"}
    BY <1>2
  <2> QED
    BY <1>2, <1>7, <1>11, <2>1 DEF TurnInv, TypeOK, Turn
<1>15. HistInv' /\ FreshInv'
  BY <1>2, <1>11, <1>12, <1>13 DEF TurnInv, HistInv, FreshInv
<1>16. PendingInv'
  <2>1. Waiting(hist', Len(hist) + 1, calls)
    <3>1. Len(hist') = Len(hist) + 1 /\ Len(hist) \in Nat
      BY <1>1, <1>2
    <3>2. \A n \in DOMAIN calls : Call(calls[n].id) \in hist'[Len(hist) + 1]
      BY <1>4, <1>5, <1>6, <1>9, <1>11
    <3>3. \A n \in DOMAIN calls, j \in DOMAIN hist' : Result(calls[n].id) \notin hist'[j]
      <4> SUFFICES ASSUME NEW n \in DOMAIN calls, NEW j \in DOMAIN hist', Result(calls[n].id) \in hist'[j] PROVE FALSE
        OBVIOUS
      <4>1. calls[n].id \in CallIds /\ Call(calls[n].id) \in turn
        BY <1>4, <1>5, <1>6, <1>9
      <4>2. j \in DOMAIN hist /\ Result(calls[n].id) \in hist[j]
        BY <1>8, <1>11, <4>1, TurnKinds
      <4>3. \E i \in 1 .. j - 1 : Call(calls[n].id) \in hist[i]
        BY <1>1, <4>1, <4>2 DEF Ordered
      <4>4. \A i \in 1 .. j - 1 : i \in DOMAIN hist
        BY <1>1, <4>2
      <4> QED
        BY <1>10, <4>1, <4>3, <4>4
    <3>4. \A k, n \in DOMAIN calls : calls[k].id = calls[n].id => k = n
      BY <1>5, <1>6
    <3> QED
      BY <1>11, <3>1, <3>2, <3>3, <3>4 DEF Waiting
  <2>2. pc' \in {"ending", "precheck"}
    BY <1>2
  <2> QED
    BY <1>1, <1>2, <2>1, <2>2 DEF PendingInv, Waiting
<1>17. ShownInv' /\ RunInv' /\ InstructionKept'
  BY <1>1, <1>2, <1>11 DEF ShownInv, RunInv, InstructionKept
<1> QED
  BY <1>14, <1>15, <1>16, <1>17 DEF TurnInv

\* An answer that is taken back leaves the history as it was.
LEMMA RetryInv ==
  ASSUME TurnInv, Retry
  PROVE  TurnInv'
PROOF
<1>1. hist \in Seq(Turn) /\ {Text} \in Turn
  BY BlockKinds DEF TurnInv, TypeOK, Turn
<1>2. hist' = hist
  <2> DEFINE g == Append(hist, {Text})
  <2>1. g \in Seq(Turn) /\ Len(g) = Len(hist) + 1 /\ Len(hist) \in Nat /\ \A i \in 1 .. Len(hist) : g[i] = hist[i]
    BY <1>1
  <2> HIDE DEF g
  <2>2. Len(g) - 1 = Len(hist)
    BY <2>1
  <2> DEFINE f == SubSeq(g, 1, Len(hist))
  <2>3. Len(f) = Len(hist) /\ f \in Seq(Turn) /\ \A i \in 1 .. Len(hist) : f[i] = g[i]
    BY <2>1
  <2> HIDE DEF f
  <2>4. f = hist
    BY <1>1, <2>1, <2>3
  <2> QED
    BY <2>2, <2>4 DEF Retry, Front, f, g
<1>3. pc = "llm" /\ pc' = "top" /\ UNCHANGED <<saved, run, left, aborted, pending, results, shown, said>>
  BY DEF Retry
<1>4. TypeOK' /\ HistInv' /\ RunInv' /\ ShownInv' /\ InstructionKept'
  BY <1>2, <1>3 DEF TurnInv, TypeOK, HistInv, RunInv, ShownInv, InstructionKept
<1>5. PendingInv'
  BY <1>2, <1>3 DEF TurnInv, PendingInv
<1>6. FreshInv'
  <2>1. Fresh(hist, run, left + 1) /\ left \in Nat
    BY <1>3, BoundAssumption DEF TurnInv, TypeOK, FreshInv
  <2>2. \A c \in CallIds : c[2] \in Nat
    BY DEF CallIds
  <2>3. Fresh(hist, run, left)
    BY <2>1, <2>2 DEF Fresh
  <2> QED
    BY <1>2, <1>3, <2>3 DEF TurnInv, FreshInv
<1> QED
  BY <1>4, <1>5, <1>6 DEF TurnInv

\* An interruption answers every call; otherwise the calls whose tool exists are announced, in their order.
LEMMA CheckToolsInv ==
  ASSUME TurnInv, CheckTools
  PROVE  TurnInv'
PROOF
<1> DEFINE Waiter == [id : CallIds, tool : Tools]
           known  == Pick(pending, {i \in DOMAIN pending : pending[i].tool # "unknown"})
<1>1. /\ hist \in Seq(Turn) /\ Ordered(hist) /\ hist # <<>> /\ said \subseteq Prompts(hist)
      /\ Fresh(hist, run, 0) /\ Fresh(hist, run, left) /\ results = <<>> /\ shown = {}
      /\ \A m, n \in DOMAIN pending : pending[m].id = pending[n].id => m = n
  BY DEF CheckTools, TurnInv, TypeOK, Turn, HistInv, FreshInv, PendingInv, ShownInv, InstructionKept
<1>2. pending \in Seq(Waiter)
  BY DEF TurnInv, TypeOK
<1>3. pc = "precheck" /\ UNCHANGED <<saved, run, left, aborted, results, said>>
  BY DEF CheckTools
<1>4. PICK at \in DOMAIN hist : Waiting(hist, at, pending)
  BY <1>1, <1>3 DEF TurnInv, PendingInv, Waiting
<1>5. CASE aborted
  <2> DEFINE h == AddResults(hist, pending)
  <2>1. hist' = AddFakeTurn(h) /\ pc' = "ending" /\ pending' = <<>> /\ shown' = shown
    BY <1>5 DEF CheckTools
  <2>2. /\ h \in Seq(Turn) /\ Ordered(h) /\ h # <<>> /\ Prompts(hist) \subseteq Prompts(h)
        /\ \A r, l : Fresh(hist, r, l) => Fresh(h, r, l)
    BY <1>1, <1>2, <1>4, ResultsAppended
  <2> HIDE DEF h
  <2>3. /\ hist' \in Seq(Turn) /\ Ordered(hist') /\ Prompts(h) \subseteq Prompts(hist') /\ Fresh(hist', run, 0)
    BY <1>1, <2>1, <2>2, FakeTurnAppended
  <2>4. TypeOK'
    BY <1>3, <2>1, <2>3 DEF TurnInv, TypeOK, Turn
  <2>5. HistInv' /\ FreshInv'
    BY <1>3, <2>1, <2>3 DEF TurnInv, HistInv, FreshInv
  <2>6. DOMAIN pending' = {}
    BY <2>1
  <2>7. PendingInv' /\ ShownInv' /\ RunInv' /\ InstructionKept'
    BY <1>1, <1>3, <2>1, <2>2, <2>3, <2>6 DEF TurnInv, PendingInv, ShownInv, RunInv, InstructionKept
  <2> QED
    BY <2>4, <2>5, <2>7 DEF TurnInv
<1>6. CASE ~ aborted
  <2>1. /\ pending' = known /\ hist' = hist
        /\ shown' = shown \union {known[i].id : i \in DOMAIN known}
        /\ pc' = IF known = <<>> THEN "top" ELSE "batch"
    BY <1>6 DEF CheckTools
  <2>2. known \in Seq(Waiter) /\ \E e : Picked(pending, {i \in DOMAIN pending : pending[i].tool # "unknown"}, Len(pending), known, e)
    <3> HIDE DEF Waiter
    <3> QED
      BY <1>2, PickElements
  <2>3. PICK e : Picked(pending, {i \in DOMAIN pending : pending[i].tool # "unknown"}, Len(pending), known, e)
    BY <2>2
  <2> HIDE DEF known
  <2>4. DOMAIN known = 1 .. Len(known) /\ Len(known) \in Nat /\ DOMAIN pending = 1 .. Len(pending)
    BY <1>2, <2>2
  <2>5. \A k \in DOMAIN known : e[k] \in DOMAIN pending /\ known[k] = pending[e[k]]
    BY <2>3, <2>4 DEF Picked
  <2>6. \A k, l \in DOMAIN known : e[k] = e[l] => k = l
    <3>1. \A k, l \in DOMAIN known : k < l => e[k] < e[l]
      BY <2>3, <2>4 DEF Picked
    <3>2. \A k \in DOMAIN known : e[k] \in Int
      BY <2>4, <2>5
    <3> QED
      BY <2>4, <3>1, <3>2
  <2>7. Waiting(hist, at, known)
    BY <1>4, <2>5, <2>6 DEF Waiting
  <2>8. known = <<>> => DOMAIN known = {}
    OBVIOUS
  <2>9. TypeOK'
    <3>1. \A k \in DOMAIN known : known[k].id \in CallIds
      <4>1. \A k \in DOMAIN known : known[k] \in Waiter
        <5> HIDE DEF Waiter
        <5> QED
          BY <2>2
      <4> QED
        BY <4>1
    <3>2. shown' \subseteq CallIds
      BY <1>1, <2>1, <3>1
    <3> QED
      BY <1>3, <2>1, <2>2, <3>2 DEF TurnInv, TypeOK
  <2>10. HistInv' /\ FreshInv' /\ RunInv' /\ InstructionKept'
    BY <1>1, <1>3, <2>1 DEF TurnInv, HistInv, FreshInv, RunInv, InstructionKept
  <2>11. PendingInv'
    <3>1. known # <<>> => Len(known) > 0
      BY <2>2, <2>4
    <3>2. Len(results) = 0
      BY <1>1
    <3> QED
      BY <1>1, <1>3, <2>1, <2>4, <2>7, <2>8, <3>1, <3>2 DEF PendingInv, Waiting
  <2>12. ShownInv'
    BY <1>1, <2>1, <2>8 DEF ShownInv
  <2> QED
    BY <2>9, <2>10, <2>11, <2>12 DEF TurnInv
<1> QED
  BY <1>5, <1>6

\* The next tool of the batch has run.
LEMMA RunToolInv ==
  ASSUME TurnInv, RunTool
  PROVE  TurnInv'
PROOF
<1>1. /\ pc = "batch" /\ pc' \in {"batch", "answer", "ending"}
      /\ UNCHANGED <<hist, saved, run, left, aborted, pending, shown, said>>
  BY DEF RunTool
<1>2. results \in Seq({"result", "string"}) /\ pending \in Seq([id : CallIds, tool : Tools]) /\ Len(results) < Len(pending)
  BY <1>1 DEF TurnInv, TypeOK, PendingInv
<1>3. \/ pc' = "ending" /\ results' = results
      \/ \E x \in {"result", "string"} : /\ results' = Append(results, x)
                                         /\ pc' = IF Len(results') = Len(pending) THEN "answer" ELSE "batch"
  BY DEF RunTool
<1>4. results' \in Seq({"result", "string"})
  BY <1>2, <1>3
<1>5. TypeOK' /\ HistInv' /\ FreshInv' /\ ShownInv' /\ RunInv' /\ InstructionKept'
  BY <1>1, <1>4 DEF TurnInv, TypeOK, HistInv, FreshInv, ShownInv, RunInv, InstructionKept
<1>6. /\ pc' = "batch" => Len(results') < Len(pending)
      /\ pc' = "answer" => Len(results') = Len(pending) /\ pending # <<>>
  <2>1. Len(results) \in Nat /\ Len(pending) \in Nat /\ (pending = <<>> => Len(pending) = 0)
    BY <1>2
  <2>2. CASE pc' = "ending"
    BY <2>2
  <2>3. CASE pc' # "ending"
    <3>1. PICK x \in {"result", "string"} : /\ results' = Append(results, x)
                                            /\ pc' = IF Len(results') = Len(pending) THEN "answer" ELSE "batch"
      BY <1>3, <2>3
    <3>2. Len(results') = Len(results) + 1
      BY <1>2, <3>1
    <3> QED
      BY <1>2, <2>1, <3>1, <3>2
  <2> QED
    BY <2>2, <2>3
<1>7. PendingInv'
  BY <1>1, <1>6 DEF TurnInv, PendingInv
<1> QED
  BY <1>5, <1>7 DEF TurnInv

\* The first call that waits gets its result, and the others go on waiting.
LEMMA AnswerInv ==
  ASSUME TurnInv, Answer
  PROVE  TurnInv'
PROOF
<1> DEFINE Waiter == [id : CallIds, tool : Tools]
           c == Head(pending).id
           t == {Result(c)}
<1>1. /\ hist \in Seq(Turn) /\ Ordered(hist) /\ hist # <<>> /\ said \subseteq Prompts(hist)
      /\ Fresh(hist, run, 0) /\ Fresh(hist, run, left)
      /\ Len(results) = Len(pending) /\ pending # <<>>
      /\ \A m, n \in DOMAIN pending : pending[m].id = pending[n].id => m = n
      /\ shown \subseteq {pending[n].id : n \in DOMAIN pending}
      /\ results \in Seq({"result", "string"})
  BY DEF Answer, TurnInv, TypeOK, Turn, HistInv, FreshInv, PendingInv, ShownInv, InstructionKept
<1>2. pending \in Seq(Waiter)
  BY DEF TurnInv, TypeOK
<1>3. pc = "answer" /\ UNCHANGED <<saved, run, left, aborted, said>>
  BY DEF Answer
<1>4. PICK at \in DOMAIN hist : Waiting(hist, at, pending)
  BY <1>1, <1>3 DEF TurnInv, PendingInv, Waiting
<1>5. CASE Head(results) = "string"
  <2>1. pc' = "ending" /\ UNCHANGED <<hist, shown, pending, results>>
    BY <1>5 DEF Answer
  <2> QED
    BY <1>1, <1>3, <2>1 DEF TurnInv, TypeOK, HistInv, FreshInv, PendingInv, ShownInv, RunInv, InstructionKept
<1>6. CASE Head(results) # "string"
  <2>1. /\ hist' = AddResult(hist, c) /\ shown' = shown \ {c}
        /\ pending' = Tail(pending) /\ results' = Tail(results)
        /\ pc' \in {"ending", "top", "answer"}
        /\ pc' = "top" => Len(pending) = 1
        /\ pc' = "answer" => Len(pending) # 1
    BY <1>6 DEF Answer
  <2>2. /\ Len(pending) \in Nat \ {0} /\ DOMAIN pending = 1 .. Len(pending) /\ Head(pending) = pending[1]
        /\ Tail(pending) \in Seq(Waiter) /\ Len(Tail(pending)) = Len(pending) - 1
        /\ DOMAIN Tail(pending) = 1 .. Len(pending) - 1
        /\ \A n \in 1 .. Len(pending) - 1 : Tail(pending)[n] = pending[n + 1]
        /\ pending[1] \in Waiter
    <3> HIDE DEF Waiter
    <3> QED
      BY <1>1, <1>2
  <2>3. results' \in Seq({"result", "string"}) /\ Len(results') = Len(pending) - 1 /\ (Len(pending) = 1 => results' = <<>>)
    <3>1. results # <<>>
      BY <1>1, <2>2
    <3>2. Tail(results) \in Seq({"result", "string"}) /\ Len(Tail(results)) = Len(results) - 1
      BY <1>1, <3>1
    <3>3. Len(Tail(results)) = 0 => Tail(results) = <<>>
      BY <3>2, EmptyHasNoLength
    <3> QED
      BY <1>1, <2>1, <3>2, <3>3
  <2>4. c \in CallIds
    BY <2>2
  <2>5. t \in Turn /\ IsResult(t)
    BY <2>4, BlockKinds DEF Turn, IsResult
  <2>6. hist' = AddResults(hist, <<pending[1]>>)
    <3>1. [i \in DOMAIN <<pending[1]>> |-> {Result(<<pending[1]>>[i].id)}] = <<t>>
      BY <2>2
    <3>2. hist \o <<t>> = Append(hist, t)
      BY <1>1, <2>5
    <3> QED
      BY <2>1, <3>1, <3>2 DEF AddResult, AddResults
  <2>7. Waiting(hist, at, <<pending[1]>>)
    BY <1>4, <2>2 DEF Waiting
  <2>8. <<pending[1]>> \in Seq(Waiter)
    <3> HIDE DEF Waiter
    <3> QED
      BY <2>2
  <2>9. /\ hist' \in Seq(Turn) /\ Ordered(hist') /\ hist' # <<>> /\ Prompts(hist) \subseteq Prompts(hist')
        /\ Fresh(hist', run, 0) /\ Fresh(hist', run, left)
    BY <1>1, <2>6, <2>7, <2>8, ResultsAppended
  <2>10. /\ DOMAIN hist' = DOMAIN hist \union {Len(hist) + 1} /\ (\A i \in DOMAIN hist : hist'[i] = hist[i])
         /\ hist'[Len(hist) + 1] = t /\ Len(hist') = Len(hist) + 1
    <3>1. hist' = Append(hist, t)
      BY <2>1 DEF AddResult
    <3>2. Len(Append(hist, t)) = Len(hist) + 1
      BY <1>1
    <3> HIDE DEF t
    <3> QED
      BY <1>1, <2>5, <3>1, <3>2, HistoryAppended
  <2>11. Waiting(hist', at, Tail(pending))
    <3>0. DOMAIN hist = 1 .. Len(hist) /\ Len(hist) \in Nat
      BY <1>1
    <3>1. at \in DOMAIN hist' /\ hist'[at] = hist[at]
      BY <2>10
    <3>2. ASSUME NEW k \in at + 1 .. Len(hist') PROVE IsResult(hist'[k])
      <4>1. CASE k = Len(hist) + 1
        BY <2>5, <2>10, <4>1
      <4>2. CASE k # Len(hist) + 1
        <5>1. k \in at + 1 .. Len(hist) /\ k \in DOMAIN hist
          BY <2>10, <3>0, <4>2
        <5> QED
          BY <1>4, <2>10, <5>1 DEF Waiting
      <4> QED
        BY <4>1, <4>2
    <3>3. \A n \in DOMAIN Tail(pending) : n + 1 \in DOMAIN pending /\ Tail(pending)[n] = pending[n + 1] /\ n + 1 # 1
      BY <2>2
    <3>4. \A n \in DOMAIN Tail(pending) : Tail(pending)[n].id # c
      <4>1. 1 \in DOMAIN pending
        BY <2>2
      <4> QED
        BY <1>1, <2>2, <3>3, <4>1
    <3>5. \A n \in DOMAIN Tail(pending) : Tail(pending)[n].id \in CallIds
      <4>1. \A n \in DOMAIN pending : pending[n] \in Waiter
        <5> HIDE DEF Waiter
        <5> QED
          BY <1>2
      <4> QED
        BY <3>3, <4>1
    <3>6. \A n \in DOMAIN Tail(pending), j \in DOMAIN hist' : Result(Tail(pending)[n].id) \notin hist'[j]
      <4> SUFFICES ASSUME NEW n \in DOMAIN Tail(pending), NEW j \in DOMAIN hist', Result(Tail(pending)[n].id) \in hist'[j]
                   PROVE  FALSE
        OBVIOUS
      <4>1. CASE j \in DOMAIN hist
        BY <1>4, <2>10, <3>3, <4>1 DEF Waiting
      <4>2. CASE j = Len(hist) + 1
        BY <2>4, <2>10, <3>4, <3>5, <4>2, BlockKinds
      <4> QED
        BY <2>10, <4>1, <4>2
    <3>7. \A n \in DOMAIN Tail(pending) : Call(Tail(pending)[n].id) \in hist'[at]
      BY <1>4, <3>1, <3>3 DEF Waiting
    <3>8. \A m, n \in DOMAIN Tail(pending) : Tail(pending)[m].id = Tail(pending)[n].id => m = n
      <4> SUFFICES ASSUME NEW m \in DOMAIN Tail(pending), NEW n \in DOMAIN Tail(pending),
                          Tail(pending)[m].id = Tail(pending)[n].id
                   PROVE  m = n
        OBVIOUS
      <4>1. m + 1 = n + 1
        BY <1>1, <3>3
      <4>2. m \in Int /\ n \in Int
        BY <2>2
      <4> QED
        BY <4>1, <4>2
    <3> QED
      BY <3>1, <3>2, <3>6, <3>7, <3>8 DEF Waiting
  <2>12. TypeOK'
    BY <1>3, <2>1, <2>2, <2>3, <2>9 DEF TurnInv, TypeOK, Turn
  <2>13. HistInv' /\ FreshInv' /\ RunInv' /\ InstructionKept'
    BY <1>1, <1>3, <2>1, <2>9 DEF TurnInv, HistInv, FreshInv, RunInv, InstructionKept
  <2>14. PendingInv'
    <3>1. Len(pending) = 1 => pending' = <<>>
      BY <2>1, <2>2
    <3>2. Len(pending) # 1 => pending' # <<>>
      <4> HIDE DEF Waiter
      <4>1. Len(pending) # 1 => Len(Tail(pending)) # 0
        BY <2>2
      <4>2. Tail(pending) = <<>> <=> Len(Tail(pending)) = 0
        BY <2>2, EmptyHasNoLength
      <4> QED
        BY <2>1, <4>1, <4>2
    <3> QED
      BY <2>1, <2>2, <2>3, <2>11, <3>1, <3>2 DEF PendingInv, Waiting
  <2>15. ShownInv'
    <3>1. ASSUME NEW x \in shown' PROVE \E n \in DOMAIN Tail(pending) : x = Tail(pending)[n].id
      <4>1. PICK n \in DOMAIN pending : x = pending[n].id /\ x # c
        BY <1>1, <2>1
      <4>2. n # 1
        BY <2>2, <4>1
      <4>3. n - 1 \in 1 .. Len(pending) - 1 /\ (n - 1) + 1 = n
        BY <2>2, <4>2
      <4> QED
        BY <2>2, <4>1, <4>3
    <3>2. Len(pending) = 1 => shown' = {}
      BY <2>2, <3>1
    <3> QED
      BY <2>1, <3>1, <3>2 DEF ShownInv
  <2> QED
    BY <2>12, <2>13, <2>14, <2>15 DEF TurnInv
<1> QED
  BY <1>5, <1>6

\* The steps that leave the history and what waits for an answer alone.
LEMMA QuietInv ==
  ASSUME TurnInv, LlmFails \/ MaxTurnsReached \/ Abort
  PROVE  TurnInv'
PROOF
<1>1. /\ pc' \in {pc, "ending"} /\ aborted' \in BOOLEAN
      /\ UNCHANGED <<hist, saved, run, left, pending, results, shown, said>>
      /\ pc # "idle"
  BY DEF LlmFails, MaxTurnsReached, Abort, TurnInv, TypeOK
<1>2. CASE pc' = pc
  BY <1>1, <1>2 DEF TurnInv, TypeOK, HistInv, FreshInv, PendingInv, ShownInv, RunInv, InstructionKept
<1>3. CASE pc' = "ending"
  BY <1>1, <1>3 DEF TurnInv, TypeOK, HistInv, FreshInv, PendingInv, ShownInv, RunInv, InstructionKept
<1> QED
  BY <1>1, <1>2, <1>3

\* What is saved at the end of a run is ordered, and the next run's calls differ from its calls.
LEMMA EndInv ==
  ASSUME TurnInv, End
  PROVE  TurnInv'
PROOF
<1>1. /\ pc' = "idle" /\ saved' \in {saved, hist} /\ hist' \in {hist, <<>>}
      /\ pending' = <<>> /\ results' = <<>> /\ shown' = {} /\ said' = {}
      /\ UNCHANGED <<run, left, aborted>>
  BY DEF End
<1>2. DOMAIN <<>> = {} /\ <<>> \in Seq(SUBSET Block) /\ <<>> \in Seq([id : CallIds, tool : Tools])
      /\ <<>> \in Seq({"result", "string"})
  OBVIOUS
<1>3. TypeOK'
  BY <1>1, <1>2 DEF TurnInv, TypeOK
<1>4. Ordered(<<>>) /\ Fresh(<<>>, run, 0)
  BY <1>2 DEF Ordered, Fresh
<1>5. HistInv' /\ FreshInv'
  BY <1>1, <1>4 DEF TurnInv, HistInv, FreshInv
<1>6. DOMAIN pending' = {}
  BY <1>1, <1>2
<1>7. PendingInv' /\ ShownInv' /\ RunInv' /\ InstructionKept'
  BY <1>1, <1>6 DEF PendingInv, ShownInv, RunInv, InstructionKept
<1> QED
  BY <1>3, <1>5, <1>7 DEF TurnInv

\* A crash leaves what was saved.
LEMMA CrashInv ==
  ASSUME TurnInv, Crash
  PROVE  TurnInv'
PROOF
<1>1. /\ pc' = "idle" /\ hist' = <<>>
      /\ pending' = <<>> /\ results' = <<>> /\ shown' = {} /\ said' = {}
      /\ UNCHANGED <<saved, run, left, aborted>>
  BY DEF Crash
<1>2. DOMAIN <<>> = {} /\ <<>> \in Seq(SUBSET Block) /\ <<>> \in Seq([id : CallIds, tool : Tools])
      /\ <<>> \in Seq({"result", "string"})
  OBVIOUS
<1>3. TypeOK'
  BY <1>1, <1>2 DEF TurnInv, TypeOK
<1>4. Ordered(<<>>) /\ Fresh(<<>>, run, 0)
  BY <1>2 DEF Ordered, Fresh
<1>5. HistInv' /\ FreshInv'
  BY <1>1, <1>4 DEF TurnInv, HistInv, FreshInv
<1>6. DOMAIN pending' = {}
  BY <1>1, <1>2
<1>7. PendingInv' /\ ShownInv' /\ RunInv' /\ InstructionKept'
  BY <1>1, <1>6 DEF PendingInv, ShownInv, RunInv, InstructionKept
<1> QED
  BY <1>3, <1>5, <1>7 DEF TurnInv

LEMMA NextInv ==
  TurnInv /\ [Next]_vars => TurnInv'
PROOF
<1> SUFFICES ASSUME TurnInv, [Next]_vars PROVE TurnInv'
  OBVIOUS
<1>1. ASSUME NEW over \in BOOLEAN, Truncate(over) PROVE TurnInv'
  BY <1>1, TruncateInv
<1>2. ASSUME NEW text \in BOOLEAN, NEW tools \in BoundedSeq(Tools, MaxCalls), Respond(text, tools) PROVE TurnInv'
  BY <1>2, RespondInv
<1>3. ASSUME NEW resume \in BOOLEAN, NEW fetched \in BOOLEAN, Start(resume, fetched) PROVE TurnInv'
  BY <1>3, StartInv
<1>1a. CASE Summarise
  BY <1>1a, SummariseInv
<1>4. CASE LlmFails \/ MaxTurnsReached \/ Abort
  BY <1>4, QuietInv
<1>5. CASE CheckTurn \/ Retry \/ CheckTools
  BY <1>5, CheckTurnInv, RetryInv, CheckToolsInv
<1>6. CASE RunTool \/ Answer \/ End \/ Crash
  BY <1>6, RunToolInv, AnswerInv, EndInv, CrashInv
<1>7. CASE UNCHANGED vars
  BY <1>7 DEF vars, TurnInv, TypeOK, HistInv, FreshInv, PendingInv, ShownInv, RunInv, InstructionKept
<1> QED
  BY <1>1, <1>1a, <1>2, <1>3, <1>4, <1>5, <1>6, <1>7 DEF Next, Step

\* The invariant: histories are ordered, new calls have new ids, what waits for an answer can still be answered.
THEOREM TurnInvariant ==
  Spec => []TurnInv
PROOF
<1> QED
  BY InitInv, NextInv, PTL DEF Spec

\* Every variable keeps its type.
THEOREM TypeCorrect ==
  Spec => []TypeOK
PROOF
<1>1. TurnInv => TypeOK
  BY DEF TurnInv
<1> QED
  BY <1>1, TurnInvariant, PTL

\* An ordered history in which every call has its result is one a provider accepts.
LEMMA OrderedIsWellFormed ==
  ASSUME NEW h \in Seq(Turn), Ordered(h), Closed(h), h # <<>>
  PROVE  WellFormed(h)
PROOF
<1>0. DOMAIN h = 1 .. Len(h) /\ Len(h) \in Nat /\ 1 \in DOMAIN h /\ \A i \in DOMAIN h : h[i] \in Turn
  BY EmptyHasNoLength
<1>1. Of("prompt", h[1]) # {}
  <2>1. PICK S \in SUBSET (1 .. Runs) : h[1] = {Summary(S)}
    BY DEF Ordered, IsPrompt
  <2> QED
    BY <2>1, BlockKinds DEF Of
<1>2. ASSUME NEW i \in DOMAIN h, NEW b \in Of("call", h[i])
      PROVE  \E j \in i + 1 .. Len(h) : /\ Result(b.id) \in h[j]
                                        /\ \A k \in i + 1 .. j : Of("result", h[k]) = h[k]
                                        /\ \A k \in DOMAIN h \ {j} : Result(b.id) \notin h[k]
  <2>1. b.id \in CallIds /\ Call(b.id) \in h[i]
    BY <1>0, BlockKinds DEF Of, Turn
  <2> DEFINE c == b.id
  <2>2. PICK j \in DOMAIN h : Result(c) \in h[j]
    BY <2>1 DEF Closed
  <2>3. PICK m \in 1 .. j - 1 : Call(c) \in h[m] /\ \A k \in m + 1 .. j : IsResult(h[k])
    BY <2>1, <2>2 DEF Ordered
  <2>4. m \in DOMAIN h
    BY <1>0, <2>2
  <2>5. m = i
    BY <2>1, <2>3, <2>4 DEF Ordered
  <2>6. j \in i + 1 .. Len(h)
    BY <1>0, <2>2, <2>5
  <2>7. ASSUME NEW k \in i + 1 .. j PROVE Of("result", h[k]) = h[k]
    <3>1. IsResult(h[k]) /\ k \in DOMAIN h
      BY <1>0, <2>2, <2>3, <2>5
    <3> QED
      BY <1>0, <3>1, TurnKinds
  <2>8. \A k \in DOMAIN h \ {j} : Result(c) \notin h[k]
    BY <2>1, <2>2 DEF Ordered
  <2> QED
    BY <2>2, <2>6, <2>7, <2>8
<1>3. Ids("result", h) \subseteq Ids("call", h)
  <2> SUFFICES ASSUME NEW c \in Ids("result", h) PROVE c \in Ids("call", h)
    OBVIOUS
  <2>1. c \in CallIds /\ \E j \in DOMAIN h : Result(c) \in h[j]
    BY InHistory
  <2>2. PICK j \in DOMAIN h : Result(c) \in h[j]
    BY <2>1
  <2>3. PICK m \in 1 .. j - 1 : Call(c) \in h[m]
    BY <2>1, <2>2 DEF Ordered
  <2>4. m \in DOMAIN h
    BY <1>0, <2>2
  <2> QED
    BY <2>1, <2>3, <2>4, InHistory
<1> QED
  BY <1>1, <1>2, <1>3 DEF WellFormed

\* An ordered history has no result that a provider refuses.
LEMMA OrderedIsOpenAtMost ==
  ASSUME NEW h \in Seq(Turn), Ordered(h), h # <<>>
  PROVE  OpenAtMost(h)
PROOF
<1>0. DOMAIN h = 1 .. Len(h) /\ Len(h) \in Nat /\ 1 \in DOMAIN h /\ \A i \in DOMAIN h : h[i] \in Turn
  BY EmptyHasNoLength
<1>1. Of("prompt", h[1]) # {}
  <2>1. PICK S \in SUBSET (1 .. Runs) : h[1] = {Summary(S)}
    BY DEF Ordered, IsPrompt
  <2> QED
    BY <2>1, BlockKinds DEF Of
<1>2. ASSUME NEW j \in DOMAIN h, NEW r \in Of("result", h[j])
      PROVE  /\ \E i \in 1 .. j - 1 : /\ Call(r.id) \in h[i]
                                      /\ \A k \in i + 1 .. j : Of("result", h[k]) = h[k]
             /\ \A k \in DOMAIN h \ {j} : r \notin h[k]
  <2>1. r.id \in CallIds /\ r = Result(r.id) /\ Result(r.id) \in h[j]
    BY <1>0, BlockKinds DEF Of, Turn
  <2> DEFINE c == r.id
  <2>2. PICK i \in 1 .. j - 1 : Call(c) \in h[i] /\ \A k \in i + 1 .. j : IsResult(h[k])
    BY <2>1 DEF Ordered
  <2>3. ASSUME NEW k \in i + 1 .. j PROVE Of("result", h[k]) = h[k]
    <3>1. IsResult(h[k]) /\ k \in DOMAIN h
      BY <1>0, <2>2
    <3> QED
      BY <1>0, <3>1, TurnKinds
  <2>4. \A k \in DOMAIN h \ {j} : r \notin h[k]
    BY <2>1 DEF Ordered
  <2> QED
    BY <2>2, <2>3, <2>4
<1> QED
  BY <1>1, <1>2 DEF OpenAtMost

\* LlmSeesWellFormed: a provider accepts every history the loop calls the LLM with for a turn, and in the one
\* a compaction sends it finds nothing amiss but calls without result (agent_controller.py:131-149, 533-559).
THEOREM LlmAcceptsHistory ==
  Spec => []LlmSeesWellFormed
PROOF
<1>1. ASSUME TurnInv PROVE LlmSeesWellFormed
  <2>1. hist \in Seq(Turn) /\ Ordered(hist)
    BY <1>1 DEF TurnInv, TypeOK, HistInv, Turn
  <2>2. CASE pc = "llm"
    <3>1. Closed(hist) /\ hist # <<>>
      BY <1>1, <2>2 DEF TurnInv, HistInv
    <3> QED
      BY <2>1, <2>2, <3>1, OrderedIsWellFormed DEF LlmSeesWellFormed
  <2>3. CASE pc = "compact"
    <3>1. hist # <<>>
      BY <1>1, <2>3 DEF TurnInv, HistInv
    <3> QED
      BY <2>1, <2>3, <3>1, OrderedIsOpenAtMost DEF LlmSeesWellFormed
  <2> QED
    BY <2>2, <2>3 DEF LlmSeesWellFormed
<1> QED
  BY <1>1, TurnInvariant, PTL

\* ShownIsAnswered: the user sees the end of every call before the next turn (agent_controller.py:276-345).
THEOREM AnnouncedCallsAreAnswered ==
  Spec => []ShownIsAnswered
PROOF
<1>1. TurnInv => ShownIsAnswered
  BY DEF TurnInv, ShownInv, ShownIsAnswered
<1> QED
  BY <1>1, TurnInvariant, PTL

\* InstructionKept: no repair, compaction, retry or interruption loses an instruction (state.py:27-101).
THEOREM InstructionsAreKept ==
  Spec => []InstructionKept
PROOF
<1>1. TurnInv => InstructionKept
  BY DEF TurnInv
<1> QED
  BY <1>1, TurnInvariant, PTL

-----------------------------------------------------------------------------
\* The ranks of the places, before and after a step.
LEMMA RankOf ==
  /\ pc = "idle" => PlaceRank = 0
  /\ pc = "ending" => PlaceRank = 1
  /\ pc = "compact" => PlaceRank = 2
  /\ pc = "top" => PlaceRank = 3
  /\ pc = "answer" => PlaceRank = 4
  /\ pc = "batch" => PlaceRank = 5
  /\ pc = "precheck" => PlaceRank = 6
  /\ pc = "llm" => PlaceRank = 7
  /\ pc = "check" => PlaceRank = 8
PROOF BY DEF PlaceRank

LEMMA RankOfNext ==
  /\ pc' = "idle" => PlaceRank' = 0
  /\ pc' = "ending" => PlaceRank' = 1
  /\ pc' = "compact" => PlaceRank' = 2
  /\ pc' = "top" => PlaceRank' = 3
  /\ pc' = "answer" => PlaceRank' = 4
  /\ pc' = "batch" => PlaceRank' = 5
  /\ pc' = "precheck" => PlaceRank' = 6
  /\ pc' = "llm" => PlaceRank' = 7
  /\ pc' = "check" => PlaceRank' = 8
PROOF BY DEF PlaceRank

\* A tool that is run leaves one result less to come.
LEMMA RunToolLowers ==
  ASSUME TypeOK, PendingInv, RunTool
  PROVE  LessToDo
PROOF
<1>0. /\ pc = "batch" /\ left' = left /\ pending' = pending /\ Len(pending) \in Nat /\ Len(results) \in Nat
      /\ Len(results) < Len(pending)
  BY DEF RunTool, TypeOK, PendingInv
<1>1. CASE pc' \in {"ending", "answer"}
  BY <1>0, <1>1, RankOf, RankOfNext DEF LessToDo
<1>2. CASE pc' = "batch"
  <2>1. results' = Append(results, IF pending[Len(results) + 1].tool = "raise" THEN "string" ELSE "result")
    BY <1>2 DEF RunTool
  <2>2. Len(results') = Len(results) + 1
    BY <2>1 DEF TypeOK
  <2>3. BatchLeft' = BatchLeft - 1 /\ BatchLeft \in Int /\ BatchLeft' >= 0
    BY <1>0, <2>2 DEF BatchLeft
  <2>4. PlaceRank' = PlaceRank
    BY <1>0, <1>2, RankOf, RankOfNext
  <2> QED
    BY <1>0, <2>3, <2>4 DEF LessToDo
<1> QED
  BY <1>1, <1>2 DEF RunTool

\* A result that is added leaves one answer less to give.
LEMMA AnswerLowers ==
  ASSUME TypeOK, PendingInv, Answer
  PROVE  LessToDo
PROOF
<1>0. pc = "answer" /\ left' = left
  BY DEF Answer
<1>1. CASE pc' \in {"ending", "top"}
  BY <1>0, <1>1, RankOf, RankOfNext DEF LessToDo
<1>2. CASE pc' = "answer"
  <2>1. pending' = Tail(pending) /\ results' = Tail(results)
    BY <1>2 DEF Answer
  <2>2. Len(results) = Len(pending) /\ pending # <<>> /\ Len(pending) \in Nat
    BY <1>0 DEF PendingInv, TypeOK
  <2>3. Len(pending) # 0
    <3> DEFINE Calls == [id : CallIds, tool : Tools]
    <3>1. pending \in Seq(Calls)
      BY DEF TypeOK
    <3> HIDE DEF Calls
    <3> QED
      BY <2>2, <3>1, EmptyHasNoLength
  <2>4. Len(pending') = Len(pending) - 1 /\ Len(results') = Len(results) - 1
    <3> DEFINE Calls == [id : CallIds, tool : Tools]
    <3>1. pending \in Seq(Calls) /\ results \in Seq({"result", "string"})
      BY DEF TypeOK
    <3>2. results # <<>>
      BY <2>2, <2>3, <3>1, EmptyHasNoLength
    <3> HIDE DEF Calls
    <3> QED
      BY <2>1, <2>2, <3>1, <3>2
  <2>5. BatchLeft' = BatchLeft - 1 /\ BatchLeft \in Int /\ BatchLeft' >= 0
    BY <2>2, <2>3, <2>4 DEF BatchLeft
  <2>6. PlaceRank' = PlaceRank
    BY <1>0, <1>2, RankOf, RankOfNext
  <2> QED
    BY <1>0, <2>5, <2>6 DEF LessToDo
<1> QED
  BY <1>1, <1>2 DEF Answer

\* No run goes on for ever: every step of the agent lowers what is left of it, and nothing else raises that.
THEOREM RunsCountDown == Spec => RunCountsDown
PROOF
<1>1. ASSUME TypeOK, PendingInv, Step PROVE LessToDo
  <2>1. CASE \E over \in BOOLEAN : Truncate(over)
    BY <1>1, <2>1, RankOf, RankOfNext DEF Truncate, LessToDo, TypeOK
  <2>1a. CASE Summarise
    BY <1>1, <2>1a DEF Summarise, LessToDo, TypeOK
  <2>2. CASE LlmFails \/ MaxTurnsReached \/ CheckTurn \/ Retry
    BY <2>2, RankOf, RankOfNext DEF LlmFails, MaxTurnsReached, CheckTurn, Retry, LessToDo
  <2>3. CASE \E text \in BOOLEAN, tools \in BoundedSeq(Tools, MaxCalls) : Respond(text, tools)
    BY <2>3, RankOf, RankOfNext DEF Respond, LessToDo
  <2>4. CASE CheckTools \/ End
    BY <2>4, RankOf, RankOfNext DEF CheckTools, End, LessToDo
  <2> QED
    BY <1>1, <2>1, <2>1a, <2>2, <2>3, <2>4, RunToolLowers, AnswerLowers DEF Step
<1>2. ASSUME [Next]_vars, ~ Step, pc # "idle" PROVE pc' = "idle" \/ UNCHANGED <<left, pc, pending, results>>
  BY <1>2 DEF Next, Start, Abort, Crash, vars
<1>3. TurnInv /\ [Next]_vars =>
        [/\ Step => LessToDo
         /\ pc # "idle" /\ ~ Step => pc' = "idle" \/ UNCHANGED <<left, pc, pending, results>>]_vars
  BY <1>1, <1>2 DEF TurnInv
<1>4. Spec => [][/\ Step => LessToDo
                 /\ pc # "idle" /\ ~ Step => pc' = "idle" \/ UNCHANGED <<left, pc, pending, results>>]_vars
  BY <1>3, TurnInvariant, PTL DEF Spec
<1> QED
  BY <1>4 DEF RunCountsDown

=============================================================================
