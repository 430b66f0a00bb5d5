--------------------------- MODULE PerceptionProofs ---------------------------
(***************************************************************************)
(* What of a step's view of the page holds in general: of the offscreen    *)
(* document that keeps its frame and runs the model, for any number of     *)
(* steps, whatever room it has for frames and documents, and however often *)
(* it is closed or the background is evicted; and of the pipeline that the *)
(* page goes through, for all pages, visions and rules (what is left of a  *)
(* text, and told of a table, is the subject of RedactionProofs).          *)
(***************************************************************************)
EXTENDS Perception, RedactionPipeline, SequenceTheorems, FiniteSetTheorems, TLAPS

-----------------------------------------------------------------------------
(* The offscreen document.                                                   *)

(* Where a step is while it has a request, a release, a frame.               *)
StepsPlaced ==
    /\ ToSet(queue) \subseteq {s \in Steps : step[s] = "capture"}
    /\ asked \cap cut = {}
    /\ \A s \in Steps : s \in asked \cup cut => step[s] = "accept"
    /\ \A s \in releasing : step[s] = "done"
    /\ \A s \in retained : step[s] \notin {"off", "capture", "accept"}
    /\ stops = 0 => cut = {}

(* A frame is decoded for a step that awaits it, unless that was cut off.    *)
Owned == FramesOwned /\ decoding \subseteq asked \cup cutoff

(* The model is in the document that is there; while one background asks,    *)
(* its request is the only load; what it believes and what it told is true   *)
(* unless the document was closed since.                                     *)
Loaded ==
    /\ loads > 0 \/ loaded => document = "up"
    /\ Loader \in asked => loads > 0
    /\ restarts = 0 =>
           /\ loads = IF Loader \in asked THEN 1 ELSE 0
           /\ backends = IF loaded THEN 1 ELSE 0
           /\ Loader \in asked => ~loaded
    /\ phase = "loaded" /\ ~untold => loaded
    /\ shown /\ ~untold => loaded

IInv == StepsPlaced /\ Owned /\ HeldStays /\ Loaded
-----------------------------------------------------------------------------
(* Maps in the order their entries were set: what they hold is a set.        *)

LEMMA Elements ==
    ASSUME NEW S, NEW seq \in Seq(S)
    PROVE  /\ ToSet(seq) \subseteq S
           /\ ToSet(seq) = {seq[i] : i \in 1 .. Len(seq)}
           /\ \A s : Contains(seq, s) <=> s \in ToSet(seq)
<1>1. seq \in [1 .. Len(seq) -> S] /\ DOMAIN seq = 1 .. Len(seq)
  BY LenProperties
<1> QED BY <1>1 DEF ToSet, Contains

LEMMA NothingOf ==
    /\ <<>> \in Seq(Steps) /\ Len(<<>>) = 0 /\ IsInjective(<<>>) /\ ToSet(<<>>) = {}
<1>1. <<>> \in Seq(Steps) /\ Len(<<>>) = 0 /\ DOMAIN <<>> = {}
  OBVIOUS
<1> QED BY <1>1 DEF IsInjective, ToSet

(* What follows on a sequence of known length.                               *)
LEMMA JoinedLast ==
    ASSUME NEW S, NEW a \in Seq(S), NEW b \in Seq(S), NEW m, NEW n, Len(a) = m, Len(b) = n
    PROVE  /\ a \o b \in Seq(S) /\ Len(a \o b) = m + n
           /\ \A i \in 1 .. m + n : (a \o b)[i] = IF i <= m THEN a[i] ELSE b[i - m]
<1>1. /\ a \o b \in Seq(S) /\ Len(a \o b) = Len(a) + Len(b)
      /\ \A i \in 1 .. Len(a) + Len(b) : (a \o b)[i] = IF i <= Len(a) THEN a[i] ELSE b[i - Len(a)]
  BY ONLY S = S, a \in Seq(S), b \in Seq(S), ConcatProperties
<1> QED BY <1>1

(* Taking an entry out leaves the others.                                    *)
LEMMA TakenOut ==
    ASSUME NEW S, NEW seq \in Seq(S), IsInjective(seq), NEW s
    PROVE  /\ Without(seq, s) \in Seq(S)
           /\ IsInjective(Without(seq, s))
           /\ ToSet(Without(seq, s)) = ToSet(seq) \ {s}
           /\ Len(Without(seq, s)) <= Len(seq)
           /\ Len(Without(seq, s)) \in Nat
<1>1. Len(seq) \in Nat /\ DOMAIN seq = 1 .. Len(seq) /\ seq \in [1 .. Len(seq) -> S]
  BY LenProperties
<1>2. CASE ~Contains(seq, s)
  BY <1>1, <1>2, Elements DEF Without
<1>3. CASE Contains(seq, s)
  <2> DEFINE at  == CHOOSE i \in 1 .. Len(seq) : seq[i] = s
             out == SubSeq(seq, 1, at - 1) \o SubSeq(seq, at + 1, Len(seq))
  <2>1. at \in 1 .. Len(seq) /\ seq[at] = s
    BY <1>3 DEF Contains
  <2>2. Without(seq, s) = out
    BY <1>3 DEF Without, RemoveAt
  <2> HIDE DEF at
  <2>3. /\ SubSeq(seq, 1, at - 1) \in Seq(S) /\ Len(SubSeq(seq, 1, at - 1)) = at - 1
        /\ \A i \in 1 .. at - 1 : SubSeq(seq, 1, at - 1)[i] = seq[i]
    <3>1. 1 \in Int /\ at - 1 \in Int /\ \A i \in 1 .. at - 1 : seq[i] \in S
      BY <1>1, <2>1
    <3> QED BY <2>1, <3>1, SubSeqProperties
  <2>4. /\ SubSeq(seq, at + 1, Len(seq)) \in Seq(S)
        /\ Len(SubSeq(seq, at + 1, Len(seq))) = Len(seq) - at
        /\ \A i \in 1 .. Len(seq) - at : SubSeq(seq, at + 1, Len(seq))[i] = seq[at + i]
    <3>1. at + 1 \in Int /\ Len(seq) \in Int /\ \A i \in at + 1 .. Len(seq) : seq[i] \in S
      BY <1>1, <2>1
    <3> QED BY <1>1, <2>1, <3>1, SubSeqProperties
  <2>5. /\ out \in Seq(S) /\ Len(out) = Len(seq) - 1
        /\ \A i \in 1 .. Len(seq) - 1 : out[i] = IF i < at THEN seq[i] ELSE seq[i + 1]
    <3>1. /\ out \in Seq(S) /\ Len(out) = (at - 1) + (Len(seq) - at)
          /\ \A i \in 1 .. (at - 1) + (Len(seq) - at) :
                 out[i] = IF i <= at - 1 THEN SubSeq(seq, 1, at - 1)[i]
                          ELSE SubSeq(seq, at + 1, Len(seq))[i - (at - 1)]
      <4> DEFINE front == SubSeq(seq, 1, at - 1)
                 back  == SubSeq(seq, at + 1, Len(seq))
                 m     == at - 1
                 n     == Len(seq) - at
      <4>1. front \in Seq(S) /\ back \in Seq(S) /\ Len(front) = m /\ Len(back) = n
        BY <2>3, <2>4
      <4>2. out = front \o back
        OBVIOUS
      <4> HIDE DEF front, back, out, m, n
      <4>3. /\ front \o back \in Seq(S) /\ Len(front \o back) = m + n
            /\ \A i \in 1 .. m + n : (front \o back)[i] = IF i <= m THEN front[i] ELSE back[i - m]
        BY ONLY <4>1, JoinedLast
      <4>4. /\ out \in Seq(S) /\ Len(out) = m + n
            /\ \A i \in 1 .. m + n : out[i] = IF i <= m THEN front[i] ELSE back[i - m]
        BY <4>2, <4>3
      <4> QED BY <4>4 DEF m, n, front, back
    <3>2. (at - 1) + (Len(seq) - at) = Len(seq) - 1
      BY <1>1, <2>1
    <3>3. ASSUME NEW i \in 1 .. Len(seq) - 1
          PROVE  out[i] = IF i < at THEN seq[i] ELSE seq[i + 1]
      <4>1. CASE i < at
        <5>1. i \in 1 .. at - 1 /\ i <= at - 1
          BY <2>1, <4>1
        <5> QED BY <2>3, <3>1, <3>2, <4>1, <5>1
      <4>2. CASE ~(i < at)
        <5>1. /\ i - (at - 1) \in 1 .. Len(seq) - at /\ ~(i <= at - 1)
              /\ at + (i - (at - 1)) = i + 1
          BY <1>1, <2>1, <4>2
        <5> QED BY <2>4, <3>1, <3>2, <4>2, <5>1
      <4> QED BY <4>1, <4>2
    <3> QED BY <3>1, <3>2, <3>3
  <2> HIDE DEF out
  <2>6. DOMAIN out = 1 .. Len(seq) - 1 /\ ToSet(out) = {out[i] : i \in 1 .. Len(seq) - 1}
    BY <2>5, LenProperties, Elements
  <2>7. IsInjective(out)
    <3> DEFINE was(i) == IF i < at THEN i ELSE i + 1
    <3>1. \A i, j \in DOMAIN seq : seq[i] = seq[j] => i = j
      BY DEF IsInjective
    <3>2. \A i \in 1 .. Len(seq) - 1 : out[i] = seq[was(i)] /\ was(i) \in DOMAIN seq
      BY <1>1, <2>1, <2>5
    <3>3. \A i, j \in 1 .. Len(seq) - 1 : was(i) = was(j) => i = j
      BY <2>1
    <3> HIDE DEF was
    <3>4. \A i, j \in DOMAIN out : out[i] = out[j] => i = j
      BY <2>6, <3>1, <3>2, <3>3
    <3> QED BY <3>4 DEF IsInjective
  <2>8. ToSet(out) = ToSet(seq) \ {s}
    <3>1. ASSUME NEW i \in 1 .. Len(seq) - 1 PROVE out[i] \in ToSet(seq) \ {s}
      <4>1. (out[i] = seq[i] /\ i # at) \/ (out[i] = seq[i + 1] /\ i + 1 # at)
        BY <1>1, <2>1, <2>5
      <4>2. i \in DOMAIN seq /\ i + 1 \in DOMAIN seq /\ at \in DOMAIN seq
        BY <1>1, <2>1
      <4> QED BY <2>1, <4>1, <4>2 DEF ToSet, IsInjective
    <3>2. ASSUME NEW i \in 1 .. Len(seq), seq[i] # s PROVE seq[i] \in ToSet(out)
      <4>1. CASE i < at
        BY <1>1, <2>1, <2>5, <2>6, <4>1
      <4>2. CASE i > at
        <5>1. i - 1 \in 1 .. Len(seq) - 1 /\ out[i - 1] = seq[i]
          BY <1>1, <2>1, <2>5, <4>2
        <5> QED BY <2>6, <5>1
      <4> QED BY <1>1, <2>1, <3>2, <4>1, <4>2
    <3> QED BY <1>1, <2>6, <3>1, <3>2 DEF ToSet
  <2> QED BY <1>1, <2>1, <2>2, <2>5, <2>7, <2>8
<1> QED BY <1>2, <1>3

(* What is put last is added.                                                *)
LEMMA PutLast ==
    ASSUME NEW S, NEW seq \in Seq(S), IsInjective(seq), NEW s \in S, s \notin ToSet(seq)
    PROVE  /\ Append(seq, s) \in Seq(S)
           /\ IsInjective(Append(seq, s))
           /\ ToSet(Append(seq, s)) = ToSet(seq) \cup {s}
           /\ Len(Append(seq, s)) = Len(seq) + 1
<1> DEFINE added == Append(seq, s)
<1>1. Len(seq) \in Nat /\ DOMAIN seq = 1 .. Len(seq) /\ ToSet(seq) = {seq[i] : i \in 1 .. Len(seq)}
  BY LenProperties, Elements
<1>2. /\ added \in Seq(S) /\ Len(added) = Len(seq) + 1
      /\ \A i \in 1 .. Len(seq) : added[i] = seq[i]
      /\ added[Len(seq) + 1] = s
  BY AppendProperties
<1> HIDE DEF added
<1>3. DOMAIN added = 1 .. Len(seq) + 1 /\ ToSet(added) = {added[i] : i \in 1 .. Len(seq) + 1}
  BY <1>2, LenProperties, Elements
<1>4. ToSet(added) = ToSet(seq) \cup {s}
  BY <1>1, <1>2, <1>3
<1>5. \A i \in 1 .. Len(seq) : added[i] # s
  BY <1>1, <1>2
<1>6. IsInjective(added)
  BY <1>1, <1>2, <1>3, <1>5 DEF IsInjective
<1> QED BY <1>2, <1>4, <1>6 DEF added

(* What is first is taken away.                                              *)
LEMMA TakenFirst ==
    ASSUME NEW S, NEW seq \in Seq(S), IsInjective(seq), seq # <<>>
    PROVE  /\ Head(seq) \in S /\ Head(seq) \in ToSet(seq)
           /\ Tail(seq) \in Seq(S)
           /\ IsInjective(Tail(seq))
           /\ ToSet(Tail(seq)) = ToSet(seq) \ {Head(seq)}
           /\ Len(Tail(seq)) = Len(seq) - 1
<1> DEFINE tail == Tail(seq)
<1>1. /\ Len(seq) \in Nat \ {0} /\ DOMAIN seq = 1 .. Len(seq)
      /\ ToSet(seq) = {seq[i] : i \in 1 .. Len(seq)}
  BY LenProperties, EmptySeq, Elements
<1>2. Head(seq) = seq[1]
  OBVIOUS
<1>3. /\ Head(seq) \in S
      /\ tail \in Seq(S) /\ Len(tail) = Len(seq) - 1
      /\ \A i \in 1 .. Len(tail) : tail[i] = seq[i + 1]
  BY HeadTailProperties
<1> HIDE DEF tail
<1>4. DOMAIN tail = 1 .. Len(seq) - 1 /\ ToSet(tail) = {tail[i] : i \in 1 .. Len(seq) - 1}
  BY <1>3, LenProperties, Elements
<1>5. \A i \in 1 .. Len(seq) - 1 : tail[i] = seq[i + 1] /\ i + 1 \in DOMAIN seq /\ i + 1 # 1
  BY <1>1, <1>3
<1>6. IsInjective(tail)
  BY <1>4, <1>5 DEF IsInjective
<1>7. ToSet(tail) = ToSet(seq) \ {Head(seq)}
  <2>1. ASSUME NEW i \in 1 .. Len(seq) - 1 PROVE tail[i] \in ToSet(seq) \ {Head(seq)}
    <3>1. 1 \in DOMAIN seq
      BY <1>1
    <3> QED BY <1>2, <1>5, <2>1, <3>1 DEF ToSet, IsInjective
  <2>2. ASSUME NEW i \in 1 .. Len(seq), seq[i] # Head(seq) PROVE seq[i] \in ToSet(tail)
    <3>1. i - 1 \in 1 .. Len(seq) - 1 /\ tail[i - 1] = seq[i]
      BY <1>1, <1>2, <1>5, <2>2
    <3> QED BY <1>4, <3>1
  <2> QED BY <1>1, <1>4, <2>1, <2>2
<1> QED BY <1>1, <1>2, <1>3, <1>6, <1>7 DEF tail

(* An entry set last is held; the oldest one goes when there is no room.     *)
LEMMA PushedIn ==
    ASSUME NEW S, NEW seq \in Seq(S), IsInjective(seq), NEW s \in S,
           NEW n \in Nat \ {0}, Len(seq) <= n
    PROVE  /\ Pushed(seq, s, n) \in Seq(S)
           /\ IsInjective(Pushed(seq, s, n))
           /\ Len(Pushed(seq, s, n)) <= n
           /\ ToSet(Pushed(seq, s, n)) \subseteq ToSet(seq) \cup {s}
           /\ s \in ToSet(Pushed(seq, s, n))
           /\ Len(seq) # n => ToSet(seq) \subseteq ToSet(Pushed(seq, s, n))
<1> DEFINE rest  == Without(seq, s)
           added == Append(rest, s)
<1>1. /\ rest \in Seq(S) /\ IsInjective(rest) /\ ToSet(rest) = ToSet(seq) \ {s}
      /\ Len(rest) <= Len(seq) /\ Len(rest) \in Nat /\ Len(seq) \in Nat
  BY TakenOut, LenProperties
<1>2. Pushed(seq, s, n) = IF Len(added) > n THEN Tail(added) ELSE added
  BY DEF Pushed
<1> HIDE DEF rest
<1>3. /\ added \in Seq(S) /\ IsInjective(added) /\ Len(added) = Len(rest) + 1
      /\ ToSet(added) = ToSet(seq) \cup {s}
  BY <1>1, PutLast
<1>4. added # <<>> /\ (rest # <<>> => Head(added) = Head(rest))
  BY <1>1, AppendProperties, HeadTailAppend
<1> HIDE DEF added
<1>5. CASE Len(added) <= n
  BY <1>1, <1>2, <1>3, <1>5
<1>6. CASE Len(added) > n
  <2>1. Len(rest) = n /\ Len(seq) = n /\ rest # <<>>
    BY <1>1, <1>3, <1>6, EmptySeq
  <2>2. Head(added) # s
    BY <1>1, <1>4, <2>1, TakenFirst
  <2>3. /\ Tail(added) \in Seq(S) /\ IsInjective(Tail(added)) /\ Len(Tail(added)) = n
        /\ ToSet(Tail(added)) = ToSet(added) \ {Head(added)}
    BY <1>1, <1>3, <1>4, <2>1, TakenFirst
  <2> QED BY <1>2, <1>3, <1>6, <2>1, <2>2, <2>3
<1> QED BY <1>1, <1>3, <1>5, <1>6

-----------------------------------------------------------------------------
(* Types, and where the steps are.                                           *)

(* The steps of the background and of the document that no agent step takes. *)
ModelSteps ==
    \/ EnsureStarted \/ DocumentCreated \/ InitAsked \/ InitReceived \/ LoadCut
    \/ \E ok \in BOOLEAN : BackendCreated(ok)
    \/ StatusAsked \/ StatusAnswered \/ StatusCut

LEMMA NextSteps ==
    ASSUME Next
    PROVE  \/ ModelSteps \/ StopHost
           \/ \E s \in Steps : StepBegins(s)
           \/ \E ok \in BOOLEAN : CaptureAnswered(ok)
           \/ \E s \in Steps : AcceptReceived(s)
           \/ \E s \in Steps, ok \in BOOLEAN : Decoded(s, ok)
           \/ \E s \in Steps : RedactReceived(s)
           \/ \E s \in Steps : BakeReceived(s)
           \/ \E s \in Steps : SanitizeReceived(s)
           \/ \E s \in Steps : StepCut(s)
           \/ \E s \in Steps : StepEnds(s)
           \/ \E s \in Steps : ReleaseReceived(s)
           \/ Restart
<1>1. ModelNext => ModelSteps \/ StopHost
  BY DEF ModelNext, ModelSteps
<1> QED BY <1>1 DEF Next, CaptureNext, FrameNext

(* They leave the agent steps and what is held for them alone; of requests   *)
(* they send and drop the one of the loader only.                            *)
LEMMA ModelStepsLeave ==
    ASSUME ModelSteps
    PROVE  /\ UNCHANGED <<actors, queue, buffers, cutoff, bounds>>
           /\ \/ UNCHANGED requests
              \/ asked' = asked \cup {Loader} /\ Loader \notin asked \cup cut /\ cut' = cut
              \/ asked' = asked \ {Loader} /\ cut' = cut
              \/ cut' = cut \ {Loader} /\ asked' = asked
<1> USE DEF background, actors, requests, model, buffers, panel, bounds
<1>1. CASE EnsureStarted \/ DocumentCreated
  BY <1>1 DEF EnsureStarted, DocumentCreated
<1>2. CASE InitAsked
  BY <1>2 DEF InitAsked, StartLoad
<1>3. CASE InitReceived
  BY <1>3 DEF InitReceived
<1>4. CASE LoadCut
  BY <1>4 DEF LoadCut
<1>5. CASE \E ok \in BOOLEAN : BackendCreated(ok)
  BY <1>5 DEF BackendCreated
<1>6. CASE StatusAsked \/ StatusAnswered \/ StatusCut
  BY <1>6 DEF StatusAsked, StatusAnswered, StatusCut
<1> QED BY <1>1, <1>2, <1>3, <1>4, <1>5, <1>6 DEF ModelSteps

LEMMA InitType == Init => TypeOK /\ IInv
<1> SUFFICES ASSUME Init PROVE TypeOK /\ IInv
    OBVIOUS
<1>1. BackgroundOK /\ StepsOK
  BY NothingOf DEF Init, BackgroundOK, StepsOK
<1>2. DocumentOK /\ ObservedOK
  <2>1. 0 <= MaxRetained /\ 0 <= MaxHeld /\ 0 \in 0..MaxStops /\ 0 \in 0..MaxRestarts
    BY PerceptionAssumption
  <2>2. DocumentOK
    BY <2>1, NothingOf DEF Init, DocumentOK
  <2>3. ObservedOK
    BY <2>1 DEF Init, ObservedOK
  <2> QED BY <2>2, <2>3
<1>3. StepsPlaced /\ Owned
  BY NothingOf DEF Init, StepsPlaced, Owned, FramesOwned
<1>4. HeldStays /\ Loaded
  BY DEF Init, HeldStays, Loaded, Waiting
<1> QED BY <1>1, <1>2, <1>3, <1>4 DEF TypeOK, IInv

LEMMA BackgroundType ==
    ASSUME TypeOK, Next PROVE BackgroundOK'
<1> USE DEF background, actors, requests, model, buffers, panel, bounds, TypeOK, BackgroundOK
<1>1. CASE EnsureStarted \/ DocumentCreated
  BY <1>1 DEF EnsureStarted, DocumentCreated
<1>2. CASE InitAsked
  BY <1>2 DEF InitAsked, StartLoad
<1>3. CASE InitReceived
  BY <1>3 DEF InitReceived
<1>4. CASE LoadCut
  BY <1>4 DEF LoadCut
<1>5. ASSUME NEW ok \in BOOLEAN, BackendCreated(ok) PROVE BackgroundOK'
  <2>1. /\ \/ phase' = phase /\ loading' = loading
           \/ phase' \in {"loaded", "failed"} /\ loading' = FALSE
        /\ asked' \subseteq asked /\ cut' = cut /\ status' = status
    BY <1>5 DEF BackendCreated
  <2>2. (phase' = "loading" => loading') /\ loading' \in BOOLEAN
    <3>1. CASE phase' = phase /\ loading' = loading
      BY <3>1, ZenonT(60)
    <3>2. CASE phase' \in {"loaded", "failed"} /\ loading' = FALSE
      BY <3>2
    <3> QED BY <2>1, <3>1, <3>2
  <2>3. phase' \in {"idle", "loading", "loaded", "failed"}
    BY <2>1
  <2> QED BY <2>1, <2>2, <2>3
<1>6. CASE StatusAsked \/ StatusAnswered \/ StatusCut
  BY <1>6 DEF StatusAsked, StatusAnswered, StatusCut, ReconcileModelState
<1>7. CASE StopHost
  BY <1>7 DEF StopHost, CutRequests
<1>8. CASE Restart
  BY <1>8 DEF Restart
<1>9. ASSUME UNCHANGED background, asked' \subseteq asked \cup Steps, cut' \subseteq cut
      PROVE  BackgroundOK'
  BY <1>9
<1>10. CASE \/ \E s \in Steps : StepBegins(s)
            \/ \E ok \in BOOLEAN : CaptureAnswered(ok)
  BY <1>9, <1>10 DEF StepBegins, CaptureAnswered
<1>11. CASE \/ \E s \in Steps : AcceptReceived(s)
            \/ \E s \in Steps, ok \in BOOLEAN : Decoded(s, ok)
  BY <1>9, <1>11 DEF AcceptReceived, Decoded
<1>12. CASE \E s \in Steps : RedactReceived(s) \/ BakeReceived(s) \/ SanitizeReceived(s)
  BY <1>9, <1>12 DEF RedactReceived, BakeReceived, SanitizeReceived
<1>13. CASE \E s \in Steps : StepCut(s) \/ StepEnds(s) \/ ReleaseReceived(s)
  BY <1>9, <1>13 DEF StepCut, StepEnds, ReleaseReceived
<1> QED BY <1>1, <1>2, <1>3, <1>4, <1>5, <1>6, <1>7, <1>8, <1>10, <1>11, <1>12, <1>13, NextSteps
        DEF ModelSteps

(* What the document holds is bounded, once each.                            *)
LEMMA DocumentType ==
    ASSUME TypeOK, Next PROVE DocumentOK'
<1> USE DEF background, actors, requests, model, buffers, panel, bounds, TypeOK, DocumentOK
<1>0. MaxRetained \in Nat \ {0} /\ MaxHeld \in Nat \ {0} /\ Len(frames) \in Nat /\ Len(held) \in Nat
  BY PerceptionAssumption, LenProperties
<1>1. CASE EnsureStarted \/ DocumentCreated
  BY <1>1 DEF EnsureStarted, DocumentCreated
<1>2. CASE InitAsked \/ LoadCut
  BY <1>2 DEF InitAsked, LoadCut
<1>3. CASE InitReceived
  <2>1. loads' = loads \/ loads' = loads + 1
    BY <1>3 DEF InitReceived
  <2> QED BY <1>3, <2>1 DEF InitReceived
<1>4. ASSUME NEW ok \in BOOLEAN, BackendCreated(ok) PROVE DocumentOK'
  BY <1>4 DEF BackendCreated
<1>5. CASE StatusAsked \/ StatusAnswered \/ StatusCut
  BY <1>5 DEF StatusAsked, StatusAnswered, StatusCut
<1>6. CASE StopHost
  <2>1. 0 <= MaxRetained /\ 0 <= MaxHeld
    BY <1>0
  <2> QED BY <1>6, <2>1, NothingOf DEF StopHost
<1>7. CASE Restart
  BY <1>7 DEF Restart
<1>8. CASE \/ \E s \in Steps : StepBegins(s)
           \/ \E ok \in BOOLEAN : CaptureAnswered(ok)
  BY <1>8 DEF StepBegins, CaptureAnswered
<1>9. CASE \E s \in Steps : AcceptReceived(s)
  BY <1>9 DEF AcceptReceived
<1>10. ASSUME NEW s \in Steps, NEW ok \in BOOLEAN, Decoded(s, ok) PROVE DocumentOK'
  <2>1. frames' = frames \/ frames' = Pushed(frames, s, MaxRetained)
    BY <1>10 DEF Decoded
  <2>2. frames' \in Seq(Steps) /\ IsInjective(frames') /\ Len(frames') <= MaxRetained
    BY <1>0, <2>1, PushedIn
  <2> QED BY <1>10, <2>2 DEF Decoded
<1>11. ASSUME NEW s \in Steps, RedactReceived(s) PROVE DocumentOK'
  <2>1. held' = held \/ held' = Pushed(held, s, MaxHeld)
    BY <1>11 DEF RedactReceived
  <2>2. held' \in Seq(Steps) /\ IsInjective(held') /\ Len(held') <= MaxHeld
    BY <1>0, <2>1, PushedIn
  <2> QED BY <1>11, <2>2 DEF RedactReceived
<1>12. ASSUME NEW s \in Steps, SanitizeReceived(s) PROVE DocumentOK'
  <2>1. held' \in Seq(Steps) /\ IsInjective(held') /\ Len(held') <= MaxHeld
    BY <1>0, <1>12, TakenOut DEF SanitizeReceived
  <2> QED BY <1>12, <2>1 DEF SanitizeReceived
<1>13. ASSUME NEW s \in Steps, ReleaseReceived(s) PROVE DocumentOK'
  <2>1. frames' \in Seq(Steps) /\ IsInjective(frames') /\ Len(frames') <= MaxRetained
    BY <1>0, <1>13, TakenOut DEF ReleaseReceived
  <2> QED BY <1>13, <2>1 DEF ReleaseReceived
<1>14. CASE \E s \in Steps : BakeReceived(s) \/ StepCut(s) \/ StepEnds(s)
  BY <1>14 DEF BakeReceived, StepCut, StepEnds
<1> QED BY <1>1, <1>2, <1>3, <1>4, <1>5, <1>6, <1>7, <1>8, <1>9, <1>10, <1>11, <1>12, <1>13,
           <1>14, NextSteps DEF ModelSteps

LEMMA ObservedType ==
    ASSUME TypeOK, Next PROVE ObservedOK'
<1> USE DEF background, actors, requests, model, buffers, panel, bounds
<1>1. \/ stops' = stops \/ (stops < MaxStops /\ stops' = stops + 1)
  BY NextSteps, ModelStepsLeave
     DEF StopHost, StepBegins, CaptureAnswered, AcceptReceived, Decoded, RedactReceived,
         BakeReceived, SanitizeReceived, StepCut, StepEnds, ReleaseReceived, Restart
<1>2. \/ restarts' = restarts \/ (restarts < MaxRestarts /\ restarts' = restarts + 1)
  BY NextSteps, ModelStepsLeave
     DEF StopHost, StepBegins, CaptureAnswered, AcceptReceived, Decoded, RedactReceived,
         BakeReceived, SanitizeReceived, StepCut, StepEnds, ReleaseReceived, Restart
<1>3. \/ cutoff' = cutoff \/ cutoff' = cutoff \cup Live \cup releasing
  BY NextSteps, ModelStepsLeave
     DEF StopHost, StepBegins, CaptureAnswered, AcceptReceived, Decoded, RedactReceived,
         BakeReceived, SanitizeReceived, StepCut, StepEnds, ReleaseReceived, Restart
<1>4. full' \subseteq full \cup {"frames", "docs"}
  BY NextSteps, ModelStepsLeave
     DEF StopHost, StepBegins, CaptureAnswered, AcceptReceived, Decoded, RedactReceived,
         BakeReceived, SanitizeReceived, StepCut, StepEnds, ReleaseReceived, Restart
<1>5. shown' \in BOOLEAN /\ untold' \in BOOLEAN
  <2>1. UNCHANGED panel \/ ModelSteps \/ (untold' = TRUE /\ shown' = shown)
    BY NextSteps
       DEF StopHost, StepBegins, CaptureAnswered, AcceptReceived, Decoded, RedactReceived,
           BakeReceived, SanitizeReceived, StepCut, StepEnds, ReleaseReceived, Restart
  <2>2. ModelSteps => UNCHANGED panel \/ (shown' \in BOOLEAN /\ untold' \in {FALSE, untold})
    BY DEF ModelSteps, EnsureStarted, DocumentCreated, InitAsked, InitReceived, LoadCut,
           BackendCreated, StatusAsked, StatusAnswered, StatusCut, Tell
  <2> QED BY <2>1, <2>2 DEF TypeOK, ObservedOK
<1> QED BY <1>1, <1>2, <1>3, <1>4, <1>5, PerceptionAssumption
        DEF TypeOK, ObservedOK, StepsOK, Live

(* The steps that leave where the steps are, and what they wait for.         *)
LEMMA PlacedUndisturbed ==
    ASSUME TypeOK, StepsPlaced, UNCHANGED <<actors, requests, queue, stops>>
    PROVE  StepsOK' /\ StepsPlaced'
BY DEF actors, requests, TypeOK, StepsOK, StepsPlaced

(* A step moves on: from a place where it has no request, or none any more.  *)
LEMMA MovesOn ==
    ASSUME TypeOK, StepsPlaced, NEW s \in Steps, NEW place \in {"done", "plan"} \cup Waiting,
           step[s] \notin {"off", "capture"}, place # "accept",
           step' = [step EXCEPT ![s] = place],
           asked' \subseteq asked \ {s}, cut' \subseteq cut \ {s},
           releasing' \in {releasing, releasing \cup {s}},
           releasing' # releasing \/ s \in releasing => place = "done",
           retained' \in {retained, retained \cup {s}},
           UNCHANGED <<mode, queue, stops>>
    PROVE  StepsOK' /\ StepsPlaced'
<1> USE DEF TypeOK, StepsOK, StepsPlaced
<1>1. /\ step'[s] = place /\ \A t \in Steps : t # s => step'[t] = step[t]
      /\ step' \in [Steps -> {"off", "capture", "done", "plan"} \cup Waiting]
  OBVIOUS
<1>2. StepsOK'
  BY <1>1
<1>3. ToSet(queue') \subseteq {t \in Steps : step'[t] = "capture"}
  BY <1>1
<1>4. asked' \cap cut' = {} /\ (stops' = 0 => cut' = {})
  OBVIOUS
<1>5. \A t \in Steps : t \in asked' \cup cut' => step'[t] = "accept"
  BY <1>1
<1>6. \A t \in releasing' : step'[t] = "done"
  BY <1>1
<1>7. \A t \in retained' : step'[t] \notin {"off", "capture", "accept"}
  BY <1>1 DEF Waiting
<1> QED BY <1>2, <1>3, <1>4, <1>5, <1>6, <1>7

LEMMA PlacedKept ==
    ASSUME TypeOK, StepsPlaced, Next PROVE StepsOK' /\ StepsPlaced'
<1> USE DEF actors, requests, bounds
<1>0. Loader \notin Steps
  BY PerceptionAssumption
<1>1. CASE ModelSteps
  <2>1. UNCHANGED <<actors, queue, stops>>
    BY <1>1, ModelStepsLeave
  <2>2. /\ asked' \cap Steps = asked \cap Steps /\ cut' \cap Steps = cut \cap Steps
        /\ asked' \cap cut' = {} /\ cut' \subseteq cut
    BY <1>0, <1>1, ModelStepsLeave DEF StepsPlaced
  <2>3. StepsOK'
    BY <2>1 DEF TypeOK, StepsOK
  <2>4. \A s \in Steps : s \in asked' \cup cut' => step'[s] = "accept"
    BY <2>1, <2>2 DEF StepsPlaced
  <2> QED BY <2>1, <2>2, <2>3, <2>4 DEF StepsPlaced
<1>2. CASE StopHost
  <2>1. UNCHANGED <<actors, queue>> /\ asked' = {} /\ cut' = cut \cup asked
    BY <1>2 DEF StopHost, CutRequests
  <2>2. stops' # 0
    BY <1>2 DEF StopHost, TypeOK, ObservedOK
  <2> QED BY <2>1, <2>2 DEF TypeOK, StepsOK, StepsPlaced
<1>3. ASSUME NEW s \in Steps, StepBegins(s) PROVE StepsOK' /\ StepsPlaced'
  <2>1. step[s] = "off" /\ step' = [step EXCEPT ![s] = "capture"] /\ queue' = Append(queue, s)
    BY <1>3 DEF StepBegins
  <2>2. PICK m \in {"detect", "retain", "none"} : mode' = [mode EXCEPT ![s] = m]
    BY <1>3 DEF StepBegins
  <2>3. UNCHANGED <<retained, releasing, requests, stops>>
    BY <1>3 DEF StepBegins
  <2>4. s \notin ToSet(queue)
    BY <2>1 DEF StepsPlaced
  <2>5. /\ queue' \in Seq(Steps) /\ IsInjective(queue') /\ ToSet(queue') = ToSet(queue) \cup {s}
    BY <2>1, <2>4, PutLast DEF TypeOK, StepsOK
  <2>6. /\ step'[s] = "capture" /\ \A t \in Steps : t # s => step'[t] = step[t]
        /\ step' \in [Steps -> {"off", "capture", "done", "plan"} \cup Waiting]
    BY <2>1 DEF TypeOK, StepsOK
  <2>7. StepsOK'
    BY <2>2, <2>3, <2>5, <2>6 DEF TypeOK, StepsOK
  <2> QED BY <2>1, <2>3, <2>5, <2>6, <2>7 DEF TypeOK, StepsOK, StepsPlaced
<1>4. ASSUME NEW ok \in BOOLEAN, CaptureAnswered(ok) PROVE StepsOK' /\ StepsPlaced'
  <2> DEFINE s == Head(queue)
  <2>1. /\ s \in Steps /\ s \in ToSet(queue)
        /\ queue' \in Seq(Steps) /\ IsInjective(queue') /\ ToSet(queue') = ToSet(queue) \ {s}
    BY <1>4, TakenFirst DEF CaptureAnswered, TypeOK, StepsOK
  <2>2. step[s] = "capture"
    BY <2>1 DEF StepsPlaced
  <2>3. PICK place \in {"done", "redact", "accept"} : step' = [step EXCEPT ![s] = place]
    BY <1>4 DEF CaptureAnswered
  <2>4. UNCHANGED <<mode, retained, releasing, requests, stops>>
    BY <1>4 DEF CaptureAnswered
  <2> HIDE DEF s
  <2>5. /\ step'[s] = place /\ \A t \in Steps : t # s => step'[t] = step[t]
        /\ step' \in [Steps -> {"off", "capture", "done", "plan"} \cup Waiting]
    BY <2>1, <2>3 DEF TypeOK, StepsOK, Waiting
  <2>6. StepsOK'
    BY <2>1, <2>4, <2>5 DEF TypeOK, StepsOK
  <2>7. s \notin asked \cup cut \cup releasing \cup retained
    BY <2>1, <2>2 DEF StepsPlaced
  <2> QED BY <2>1, <2>2, <2>4, <2>5, <2>6, <2>7 DEF TypeOK, StepsOK, StepsPlaced
<1>5. ASSUME NEW s \in Steps, AcceptReceived(s) PROVE StepsOK' /\ StepsPlaced'
  <2>1. step[s] = "accept" /\ s \notin asked \cup cut
    BY <1>5 DEF AcceptReceived, Received
  <2>2. UNCHANGED <<mode, releasing, cut, queue, stops>>
    BY <1>5 DEF AcceptReceived
  <2>3. CASE /\ step' = [step EXCEPT ![s] = "redact"] /\ retained' = retained \cup {s}
             /\ asked' = asked
    <3>1. asked' \subseteq asked \ {s} /\ cut' \subseteq cut \ {s} /\ s \notin releasing
      BY <2>1, <2>2, <2>3 DEF StepsPlaced
    <3> QED BY <2>1, <2>2, <2>3, <3>1, MovesOn DEF Waiting
  <2>4. CASE step' = step /\ retained' = retained /\ asked' = asked \cup {s}
    BY <2>1, <2>2, <2>4 DEF TypeOK, StepsOK, StepsPlaced
  <2> QED BY <1>5, <2>3, <2>4 DEF AcceptReceived
<1>6. ASSUME NEW s \in Steps, NEW ok \in BOOLEAN, Decoded(s, ok) PROVE StepsOK' /\ StepsPlaced'
  <2>1. asked' = asked \ {s} /\ UNCHANGED <<mode, releasing, cut, queue, stops>>
    BY <1>6 DEF Decoded
  <2>2. CASE s \in asked
    <3>1. step[s] = "accept" /\ s \notin cut
      BY <2>2 DEF StepsPlaced
    <3>2. /\ step' = [step EXCEPT ![s] = "redact"]
          /\ retained' \in {retained, retained \cup {s}}
      BY <1>6, <2>2 DEF Decoded
    <3>3. asked' \subseteq asked \ {s} /\ cut' \subseteq cut \ {s} /\ s \notin releasing
      BY <2>1, <3>1 DEF StepsPlaced
    <3> QED BY <2>1, <3>1, <3>2, <3>3, MovesOn DEF Waiting
  <2>3. CASE s \notin asked
    BY <1>6, <2>1, <2>3, PlacedUndisturbed DEF Decoded
  <2> QED BY <2>2, <2>3
<1>7. ASSUME NEW s \in Steps, RedactReceived(s) PROVE StepsOK' /\ StepsPlaced'
  <2>1. step[s] = "redact" /\ s \notin asked \cup cut
    BY <1>7 DEF RedactReceived, Received
  <2>2. UNCHANGED <<mode, retained, requests, queue, stops>>
    BY <1>7 DEF RedactReceived
  <2>3. s \notin releasing
    BY <2>1 DEF StepsPlaced
  <2>4. CASE releasing' = releasing /\ \E place \in {"sanitize", "bake"} :
                                        step' = [step EXCEPT ![s] = place]
    <3>1. PICK place \in {"sanitize", "bake"} : step' = [step EXCEPT ![s] = place]
      BY <2>4
    <3> QED BY <2>1, <2>2, <2>3, <2>4, <3>1, MovesOn DEF Waiting
  <2>5. CASE End(s)
    BY <2>1, <2>2, <2>5, MovesOn DEF End
  <2> QED BY <1>7, <2>4, <2>5 DEF RedactReceived
<1>8. ASSUME NEW s \in Steps, BakeReceived(s) PROVE StepsOK' /\ StepsPlaced'
  <2>1. /\ step[s] = "bake" /\ s \notin asked \cup cut
        /\ step' = [step EXCEPT ![s] = "sanitize"]
    BY <1>8 DEF BakeReceived, Received
  <2>2. UNCHANGED <<mode, retained, releasing, requests, queue, stops>>
    BY <1>8 DEF BakeReceived
  <2>3. s \notin releasing
    BY <2>1 DEF StepsPlaced
  <2> QED BY <2>1, <2>2, <2>3, MovesOn DEF Waiting
<1>9. ASSUME NEW s \in Steps, SanitizeReceived(s) PROVE StepsOK' /\ StepsPlaced'
  <2>1. step[s] = "sanitize" /\ s \notin asked \cup cut
    BY <1>9 DEF SanitizeReceived, Received
  <2>2. UNCHANGED <<mode, retained, requests, queue, stops>>
    BY <1>9 DEF SanitizeReceived
  <2>3. s \notin releasing
    BY <2>1 DEF StepsPlaced
  <2>4. CASE step' = [step EXCEPT ![s] = "plan"] /\ releasing' = releasing
    BY <2>1, <2>2, <2>3, <2>4, MovesOn
  <2>5. CASE End(s)
    BY <2>1, <2>2, <2>5, MovesOn DEF End
  <2> QED BY <1>9, <2>4, <2>5 DEF SanitizeReceived
<1>10. ASSUME NEW s \in Steps, StepCut(s) PROVE StepsOK' /\ StepsPlaced'
  <2>1. step[s] = "accept" /\ s \notin asked
    BY <1>10 DEF StepCut, StepsPlaced
  <2>2. /\ step' = [step EXCEPT ![s] = "redact"]
        /\ retained' \in {retained, retained \cup {s}} /\ releasing' = releasing
    BY <1>10, <2>1 DEF StepCut
  <2>3. cut' = cut \ {s} /\ UNCHANGED <<mode, asked, queue, stops>>
    BY <1>10 DEF StepCut
  <2>4. asked' \subseteq asked \ {s} /\ cut' \subseteq cut \ {s} /\ s \notin releasing
    BY <2>1, <2>3 DEF StepsPlaced
  <2> QED BY <2>1, <2>2, <2>3, <2>4, MovesOn DEF Waiting
<1>11. ASSUME NEW s \in Steps, StepEnds(s) PROVE StepsOK' /\ StepsPlaced'
  <2>1. step[s] = "plan" /\ End(s) /\ UNCHANGED <<mode, retained, requests, queue, stops>>
    BY <1>11 DEF StepEnds
  <2>2. s \notin asked \cup cut
    BY <2>1 DEF StepsPlaced
  <2> QED BY <2>1, <2>2, MovesOn DEF End
<1>12. ASSUME NEW s \in Steps, ReleaseReceived(s) PROVE StepsOK' /\ StepsPlaced'
  <2>1. /\ releasing' \subseteq releasing
        /\ UNCHANGED <<step, mode, retained, requests, queue, stops>>
    BY <1>12 DEF ReleaseReceived
  <2> QED BY <2>1 DEF TypeOK, StepsOK, StepsPlaced
<1>13. CASE Restart
  <2>1. /\ step' = [s \in Steps |-> IF step[s] = "off" THEN "off" ELSE "done"]
        /\ retained' = {} /\ releasing' = {} /\ asked' = {} /\ cut' = {} /\ queue' = <<>>
        /\ mode' = mode
    BY <1>13 DEF Restart
  <2> QED BY <2>1, NothingOf DEF TypeOK, StepsOK, StepsPlaced
<1> QED BY <1>1, <1>2, <1>3, <1>4, <1>5, <1>6, <1>7, <1>8, <1>9, <1>10, <1>11, <1>12, <1>13,
           NextSteps

-----------------------------------------------------------------------------
(* Whose frames are held.                                                    *)

LEMMA OwnedUnderway ==
    ASSUME Owned,
           ToSet(frames') \subseteq ToSet(frames), decoding' \subseteq decoding,
           Live \cup releasing \cup cutoff \subseteq Live' \cup releasing' \cup cutoff',
           cutoff \subseteq cutoff', decoding \cap asked \subseteq asked' \cup cutoff'
    PROVE  Owned'
BY DEF Owned, FramesOwned

(* A step that moves on while it is live stays so, or is cleaned up after.   *)
LEMMA LiveMoves ==
    ASSUME StepsOK, NEW s \in Steps, NEW place, step' = [step EXCEPT ![s] = place],
           releasing \subseteq releasing',
           \/ place \in {"accept", "redact", "bake", "sanitize", "plan"}
           \/ s \in releasing'
           \/ step[s] \in {"off", "capture"}
    PROVE  /\ Live \cup releasing \subseteq Live' \cup releasing'
           /\ place \in {"accept", "redact", "bake", "sanitize", "plan"} => s \in Live'
<1>1. step'[s] = place /\ \A t \in Steps : t # s => step'[t] = step[t]
  BY DEF StepsOK
<1> QED BY <1>1 DEF Live

LEMMA OwnedKept ==
    ASSUME TypeOK, StepsPlaced, Owned, Next PROVE Owned'
<1> USE DEF actors, requests, buffers
<1>0. StepsOK /\ frames \in Seq(Steps) /\ IsInjective(frames) /\ decoding \subseteq Steps
  BY DEF TypeOK, DocumentOK
<1>1. CASE ModelSteps
  <2>1. UNCHANGED <<actors, buffers, cutoff>>
    BY <1>1, ModelStepsLeave
  <2>2. asked \cap Steps \subseteq asked'
    BY <1>1, ModelStepsLeave, PerceptionAssumption
  <2> QED BY <1>0, <2>1, <2>2, OwnedUnderway DEF Live
<1>2. CASE StopHost
  BY <1>2, NothingOf DEF StopHost, Owned, FramesOwned
<1>3. ASSUME NEW s \in Steps, StepBegins(s) PROVE Owned'
  <2>1. step[s] = "off" /\ step' = [step EXCEPT ![s] = "capture"]
        /\ UNCHANGED <<frames, decoding, asked, releasing, cutoff>>
    BY <1>3 DEF StepBegins
  <2> QED BY <1>0, <2>1, LiveMoves, OwnedUnderway
<1>4. ASSUME NEW ok \in BOOLEAN, CaptureAnswered(ok) PROVE Owned'
  <2>1. Head(queue) \in Steps /\ step[Head(queue)] = "capture"
    BY <1>4, TakenFirst DEF CaptureAnswered, TypeOK, StepsOK, StepsPlaced
  <2>2. /\ \E place : step' = [step EXCEPT ![Head(queue)] = place]
        /\ UNCHANGED <<frames, decoding, asked, releasing, cutoff>>
    BY <1>4 DEF CaptureAnswered
  <2> QED BY <1>0, <2>1, <2>2, LiveMoves, OwnedUnderway
<1>5. ASSUME NEW s \in Steps, AcceptReceived(s) PROVE Owned'
  <2>1. UNCHANGED <<frames, releasing, cutoff>>
    BY <1>5 DEF AcceptReceived
  <2>2. CASE step' = [step EXCEPT ![s] = "redact"] /\ UNCHANGED <<asked, decoding>>
    BY <1>0, <2>1, <2>2, LiveMoves, OwnedUnderway
  <2>3. CASE /\ asked' = asked \cup {s} /\ decoding' = decoding \cup {s}
             /\ UNCHANGED step
    BY <2>1, <2>3 DEF Owned, FramesOwned, Live
  <2> QED BY <1>5, <2>2, <2>3 DEF AcceptReceived
<1>6. ASSUME NEW s \in Steps, NEW ok \in BOOLEAN, Decoded(s, ok) PROVE Owned'
  <2>1. /\ s \in decoding /\ decoding' = decoding \ {s} /\ asked' = asked \ {s}
        /\ UNCHANGED <<releasing, cutoff>>
    BY <1>6 DEF Decoded
  <2>2. ToSet(frames') \subseteq ToSet(frames) \cup {s}
    <3>1. frames' = frames \/ frames' = Pushed(frames, s, MaxRetained)
      BY <1>6 DEF Decoded
    <3> QED BY <1>0, <3>1, PushedIn, PerceptionAssumption DEF TypeOK, DocumentOK
  <2>3. Live \cup releasing \subseteq Live' \cup releasing' /\ s \in Live' \cup cutoff
    <3>1. CASE s \in asked
      <4>1. step' = [step EXCEPT ![s] = "redact"]
        BY <1>6, <3>1 DEF Decoded
      <4> QED BY <1>0, <2>1, <4>1, LiveMoves
    <3>2. CASE s \notin asked
      BY <1>6, <2>1, <3>2 DEF Decoded, Owned, Live
    <3> QED BY <3>1, <3>2
  <2> QED BY <2>1, <2>2, <2>3 DEF Owned, FramesOwned
<1>7. ASSUME NEW s \in Steps, RedactReceived(s) PROVE Owned'
  <2>1. UNCHANGED <<frames, decoding, asked, cutoff>>
    BY <1>7 DEF RedactReceived
  <2>2. CASE UNCHANGED releasing /\ \E place \in {"bake", "sanitize"} :
                                       step' = [step EXCEPT ![s] = place]
    BY <1>0, <2>1, <2>2, LiveMoves, OwnedUnderway
  <2>3. CASE End(s)
    BY <1>0, <2>1, <2>3, LiveMoves, OwnedUnderway DEF End
  <2> QED BY <1>7, <2>2, <2>3 DEF RedactReceived
<1>8. ASSUME NEW s \in Steps, BakeReceived(s) PROVE Owned'
  <2>1. /\ step' = [step EXCEPT ![s] = "sanitize"]
        /\ UNCHANGED <<frames, decoding, asked, releasing, cutoff>>
    BY <1>8 DEF BakeReceived
  <2> QED BY <1>0, <2>1, LiveMoves, OwnedUnderway
<1>9. ASSUME NEW s \in Steps, SanitizeReceived(s) PROVE Owned'
  <2>1. UNCHANGED <<frames, decoding, asked, cutoff>>
    BY <1>9 DEF SanitizeReceived
  <2>2. CASE step' = [step EXCEPT ![s] = "plan"] /\ UNCHANGED releasing
    BY <1>0, <2>1, <2>2, LiveMoves, OwnedUnderway
  <2>3. CASE End(s)
    BY <1>0, <2>1, <2>3, LiveMoves, OwnedUnderway DEF End
  <2> QED BY <1>9, <2>2, <2>3 DEF SanitizeReceived
<1>10. ASSUME NEW s \in Steps, StepCut(s) PROVE Owned'
  <2>1. /\ step' = [step EXCEPT ![s] = "redact"] /\ UNCHANGED releasing
        /\ UNCHANGED <<frames, decoding, asked, cutoff>>
    BY <1>10 DEF StepCut, StepsPlaced
  <2> QED BY <1>0, <2>1, LiveMoves, OwnedUnderway
<1>11. ASSUME NEW s \in Steps, StepEnds(s) PROVE Owned'
  <2>1. End(s) /\ UNCHANGED <<frames, decoding, asked, cutoff>>
    BY <1>11 DEF StepEnds
  <2> QED BY <1>0, <2>1, LiveMoves, OwnedUnderway DEF End
<1>12. ASSUME NEW s \in Steps, ReleaseReceived(s) PROVE Owned'
  <2>1. /\ releasing' = releasing \ {s} /\ frames' = Without(frames, s)
        /\ UNCHANGED <<step, decoding, asked, cutoff>>
    BY <1>12 DEF ReleaseReceived
  <2>2. ToSet(frames') = ToSet(frames) \ {s}
    BY <1>0, <2>1, TakenOut
  <2> QED BY <2>1, <2>2 DEF Owned, FramesOwned, Live
<1>13. CASE Restart
  <2>1. /\ cutoff' = cutoff \cup Live \cup releasing
        /\ UNCHANGED <<frames, decoding>>
    BY <1>13 DEF Restart
  <2>2. decoding \cap asked \subseteq Live
    BY <1>0 DEF StepsPlaced, Live
  <2> QED BY <2>1, <2>2, OwnedUnderway
<1> QED BY <1>1, <1>2, <1>3, <1>4, <1>5, <1>6, <1>7, <1>8, <1>9, <1>10, <1>11, <1>12, <1>13,
           NextSteps

-----------------------------------------------------------------------------
(* What a step left in the document is there when it comes back for it.      *)

HasFrame(s) ==
    s \in retained /\ step[s] \in {"redact", "bake"} /\ mode[s] = "retain"
        => "frames" \in full \/ s \in ToSet(frames)

HasDoc(s) ==
    step[s] \in {"bake", "sanitize"} => "docs" \in full \/ s \in ToSet(held)

LEMMA StaysIfHas ==
    ASSUME TypeOK
    PROVE  HeldStays <=> (stops = 0 => \A s \in Steps : HasFrame(s) /\ HasDoc(s))
<1>1. /\ \A s : Contains(frames, s) <=> s \in ToSet(frames)
      /\ \A s : Contains(held, s) <=> s \in ToSet(held)
  BY Elements DEF TypeOK, DocumentOK
<1>2. retained \subseteq Steps
  BY DEF TypeOK, StepsOK
<1> QED BY <1>1, <1>2 DEF HeldStays, HasFrame, HasDoc

(* Nobody but s moves, and nothing of the others goes unless room was short. *)
LEMMA StaysButFor ==
    ASSUME TypeOK, HeldStays, stops' = stops, stops = 0, full \subseteq full',
           NEW s,
           \A t \in Steps \ {s} :
               /\ step'[t] = step[t] /\ mode'[t] = mode[t] /\ (t \in retained' => t \in retained)
               /\ t \in ToSet(frames) => t \in ToSet(frames') \/ "frames" \in full'
               /\ t \in ToSet(held) => t \in ToSet(held') \/ "docs" \in full',
           s \in Steps => HasFrame(s)' /\ HasDoc(s)'
    PROVE  \A t \in Steps : HasFrame(t)' /\ HasDoc(t)'
<1>1. \A t \in Steps : HasFrame(t) /\ HasDoc(t)
  BY StaysIfHas
<1> QED BY <1>1 DEF HasFrame, HasDoc

LEMMA HasKept ==
    ASSUME TypeOK, StepsPlaced, HeldStays, Next, stops' = 0
    PROVE  \A s \in Steps : HasFrame(s)' /\ HasDoc(s)'
<1> USE DEF actors, requests, buffers, bounds
<1>0. /\ StepsOK /\ frames \in Seq(Steps) /\ IsInjective(frames) /\ Len(frames) <= MaxRetained
      /\ held \in Seq(Steps) /\ IsInjective(held) /\ Len(held) <= MaxHeld
      /\ MaxRetained \in Nat \ {0} /\ MaxHeld \in Nat \ {0}
  BY PerceptionAssumption DEF TypeOK, DocumentOK
<1>1. CASE ModelSteps
  <2>1. UNCHANGED <<actors, buffers, stops>>
    BY <1>1, ModelStepsLeave
  <2>2. \A s \in Steps : HasFrame(s) /\ HasDoc(s)
    BY <2>1, StaysIfHas
  <2> QED BY <2>1, <2>2 DEF HasFrame, HasDoc
<1>2. CASE StopHost
  BY <1>2 DEF StopHost, TypeOK, ObservedOK
<1>3. CASE Restart
  <2>1. \A s \in Steps : step'[s] \in {"off", "done"}
    BY <1>3 DEF Restart
  <2> QED BY <2>1 DEF HasFrame, HasDoc
<1>4. ASSUME ~ModelSteps, ~StopHost, ~Restart
      PROVE  stops' = stops /\ stops = 0
  BY <1>4, NextSteps
     DEF StepBegins, CaptureAnswered, AcceptReceived, Decoded, RedactReceived,
         BakeReceived, SanitizeReceived, StepCut, StepEnds, ReleaseReceived
<1> SUFFICES ASSUME ~ModelSteps, ~StopHost, ~Restart
             PROVE  \A s \in Steps : HasFrame(s)' /\ HasDoc(s)'
    BY <1>1, <1>2, <1>3
<1>a. stops' = stops /\ stops = 0 /\ \A s \in Steps : HasFrame(s) /\ HasDoc(s)
  BY <1>4, StaysIfHas
<1>5. ASSUME NEW s \in Steps, NEW place, step' = [step EXCEPT ![s] = place]
      PROVE  step'[s] = place /\ \A t \in Steps : t # s => step'[t] = step[t]
  BY <1>0, <1>5 DEF StepsOK
<1>6. ASSUME NEW s \in Steps, StepBegins(s)
      PROVE  \A t \in Steps : HasFrame(t)' /\ HasDoc(t)'
  <2>1. step' = [step EXCEPT ![s] = "capture"] /\ UNCHANGED <<retained, frames, held, full>>
    BY <1>6 DEF StepBegins
  <2>2. \A t \in Steps : t # s => mode'[t] = mode[t]
    BY <1>0, <1>6 DEF StepBegins, StepsOK
  <2>3. step'[s] = "capture"
    BY <1>5, <2>1
  <2>4. HasFrame(s)' /\ HasDoc(s)'
    BY <2>3 DEF HasFrame, HasDoc
  <2> QED BY <1>5, <1>a, <2>1, <2>2, <2>4, StaysButFor
<1>7. ASSUME NEW ok \in BOOLEAN, CaptureAnswered(ok)
      PROVE  \A t \in Steps : HasFrame(t)' /\ HasDoc(t)'
  <2>1. PICK s \in Steps : s = Head(queue) /\ step[s] = "capture"
    BY <1>0, <1>7, TakenFirst DEF CaptureAnswered, StepsOK, StepsPlaced
  <2>2. PICK place \in {"done", "redact", "accept"} : step' = [step EXCEPT ![s] = place]
    BY <1>7, <2>1 DEF CaptureAnswered
  <2>3. UNCHANGED <<mode, retained, frames, held, full>>
    BY <1>7 DEF CaptureAnswered
  <2>4. s \notin retained' /\ step'[s] = place
    BY <1>5, <2>1, <2>2, <2>3 DEF StepsPlaced
  <2>5. HasFrame(s)' /\ HasDoc(s)'
    BY <2>4 DEF HasFrame, HasDoc
  <2> QED BY <1>5, <1>a, <2>2, <2>3, <2>5, StaysButFor
<1>8. ASSUME NEW s \in Steps, AcceptReceived(s)
      PROVE  \A t \in Steps : HasFrame(t)' /\ HasDoc(t)'
  <2>1. step[s] = "accept" /\ s \notin retained
    BY <1>8 DEF AcceptReceived, Received, StepsPlaced
  <2>2. UNCHANGED <<mode, frames, held, full>>
    BY <1>8 DEF AcceptReceived
  <2>3. CASE /\ mode[s] = "detect" /\ step' = [step EXCEPT ![s] = "redact"]
             /\ retained' = retained \cup {s}
    <3>1. HasFrame(s)' /\ HasDoc(s)'
      BY <1>5, <2>2, <2>3 DEF HasFrame, HasDoc
    <3> QED BY <1>5, <1>a, <2>2, <2>3, <3>1, StaysButFor
  <2>4. CASE UNCHANGED <<step, retained>>
    BY <1>a, <2>2, <2>4 DEF HasFrame, HasDoc
  <2> QED BY <1>8, <2>3, <2>4 DEF AcceptReceived
<1>9. ASSUME NEW s \in Steps, NEW ok \in BOOLEAN, Decoded(s, ok)
      PROVE  \A t \in Steps : HasFrame(t)' /\ HasDoc(t)'
  <2>1. UNCHANGED <<mode, held>> /\ full \subseteq full'
        /\ (ok /\ Len(frames) = MaxRetained => "frames" \in full')
    BY <1>9 DEF Decoded
  <2>2. /\ ok => s \in ToSet(frames')
        /\ \A t \in ToSet(frames) : t \in ToSet(frames') \/ "frames" \in full'
    <3>1. CASE ok
      BY <1>0, <1>9, <2>1, <3>1, PushedIn DEF Decoded
    <3>2. CASE ~ok
      BY <1>9, <3>2 DEF Decoded
    <3> QED BY <3>1, <3>2
  <2>3. CASE s \in asked
    <3>1. step[s] = "accept" /\ s \notin retained
      BY <2>3 DEF StepsPlaced
    <3>2. /\ step' = [step EXCEPT ![s] = "redact"]
          /\ retained' = IF ok \/ mode[s] = "detect" THEN retained \cup {s} ELSE retained
      BY <1>9, <2>3 DEF Decoded
    <3>3. HasFrame(s)' /\ HasDoc(s)'
      BY <1>5, <2>1, <2>2, <3>1, <3>2 DEF HasFrame, HasDoc
    <3> QED BY <1>5, <1>a, <2>1, <2>2, <3>2, <3>3, StaysButFor
  <2>4. CASE s \notin asked
    <3>1. UNCHANGED <<step, retained>>
      BY <1>9, <2>4 DEF Decoded
    <3> QED BY <1>a, <2>1, <2>2, <3>1 DEF HasFrame, HasDoc
  <2> QED BY <2>3, <2>4
<1>10. ASSUME NEW s \in Steps, RedactReceived(s)
       PROVE  \A t \in Steps : HasFrame(t)' /\ HasDoc(t)'
  <2>1. step[s] = "redact" /\ UNCHANGED <<mode, retained, frames>>
    BY <1>10 DEF RedactReceived, Received
  <2>2. CASE /\ held' = Pushed(held, s, MaxHeld)
             /\ full' = IF Len(held) = MaxHeld THEN full \cup {"docs"} ELSE full
             /\ \E place \in {"bake", "sanitize"} : step' = [step EXCEPT ![s] = place]
    <3>1. full \subseteq full' /\ (Len(held) = MaxHeld => "docs" \in full')
      BY <2>2
    <3>2. s \in ToSet(held') /\ \A t \in ToSet(held) : t \in ToSet(held') \/ "docs" \in full'
      BY <1>0, <2>2, <3>1, PushedIn
    <3>3. HasFrame(s)' /\ HasDoc(s)'
      BY <1>a, <2>1, <3>1, <3>2 DEF HasFrame, HasDoc
    <3> QED BY <1>5, <1>a, <2>1, <2>2, <3>1, <3>2, <3>3, StaysButFor
  <2>3. CASE step' = [step EXCEPT ![s] = "done"] /\ UNCHANGED <<held, full>>
    <3>1. HasFrame(s)' /\ HasDoc(s)'
      <4>1. step'[s] = "done"
        BY <1>5, <2>3
      <4> QED BY <4>1 DEF HasFrame, HasDoc
    <3>2. \A t \in Steps \ {s} : step'[t] = step[t] /\ mode'[t] = mode[t]
      BY <1>5, <2>1, <2>3
    <3>3. full \subseteq full' /\ UNCHANGED <<retained, frames, held>>
      BY <2>1, <2>3
    <3> QED BY <1>a, <3>1, <3>2, <3>3, StaysButFor
  <2> QED BY <1>10, <2>2, <2>3 DEF RedactReceived, End
<1>11. ASSUME NEW s \in Steps, BakeReceived(s)
       PROVE  \A t \in Steps : HasFrame(t)' /\ HasDoc(t)'
  <2>1. /\ step[s] = "bake" /\ step' = [step EXCEPT ![s] = "sanitize"]
        /\ UNCHANGED <<mode, retained, frames, held, full>>
    BY <1>11 DEF BakeReceived, Received
  <2>2. HasFrame(s)' /\ HasDoc(s)'
    BY <1>5, <1>a, <2>1 DEF HasFrame, HasDoc
  <2> QED BY <1>5, <1>a, <2>1, <2>2, StaysButFor
<1>12. ASSUME NEW s \in Steps, SanitizeReceived(s)
       PROVE  \A t \in Steps : HasFrame(t)' /\ HasDoc(t)'
  <2>1. UNCHANGED <<mode, retained, frames, full>> /\ held' = Without(held, s)
    BY <1>12 DEF SanitizeReceived
  <2>2. \E place \in {"plan", "done"} : step' = [step EXCEPT ![s] = place]
    BY <1>12 DEF SanitizeReceived, End
  <2>3. ToSet(held') = ToSet(held) \ {s}
    BY <1>0, <2>1, TakenOut
  <2>4. HasFrame(s)' /\ HasDoc(s)'
    BY <1>5, <2>2 DEF HasFrame, HasDoc
  <2> QED BY <1>5, <1>a, <2>1, <2>2, <2>3, <2>4, StaysButFor
<1>13. ASSUME NEW s \in Steps, StepEnds(s)
       PROVE  \A t \in Steps : HasFrame(t)' /\ HasDoc(t)'
  <2>1. /\ step' = [step EXCEPT ![s] = "done"]
        /\ UNCHANGED <<mode, retained, frames, held, full>>
    BY <1>13 DEF StepEnds, End
  <2>2. step'[s] = "done"
    BY <1>5, <2>1
  <2>3. HasFrame(s)' /\ HasDoc(s)'
    BY <2>2 DEF HasFrame, HasDoc
  <2> QED BY <1>5, <1>a, <2>1, <2>3, StaysButFor
<1>14. ASSUME NEW s \in Steps, ReleaseReceived(s)
       PROVE  \A t \in Steps : HasFrame(t)' /\ HasDoc(t)'
  <2>1. step[s] = "done" /\ UNCHANGED <<step, mode, retained, held, full>>
    BY <1>14 DEF ReleaseReceived, StepsPlaced
  <2>2. ToSet(frames') = ToSet(frames) \ {s}
    BY <1>0, <1>14, TakenOut DEF ReleaseReceived
  <2> QED BY <1>a, <2>1, <2>2 DEF HasFrame, HasDoc
<1>15. \A s \in Steps : ~StepCut(s)
  BY <1>a DEF StepCut, StepsPlaced
<1> QED BY <1>6, <1>7, <1>8, <1>9, <1>10, <1>11, <1>12, <1>13, <1>14, <1>15, NextSteps

-----------------------------------------------------------------------------
(* The model that is loaded, and what is said of it.                         *)

LEMMA LoadedUndisturbed ==
    ASSUME Loaded, UNCHANGED <<phase, document, model, panel, restarts>>,
           Loader \in asked' <=> Loader \in asked
    PROVE  Loaded'
BY DEF model, panel, Loaded

LEMMA LoadedKept ==
    ASSUME TypeOK, Loaded, Next PROVE Loaded'
<1> USE DEF background, actors, requests, model, buffers, panel, bounds
<1>0. /\ loads \in Nat /\ backends \in Nat /\ loaded \in BOOLEAN /\ restarts \in Nat
      /\ document \in {"none", "creating", "up"} /\ Loader \notin Steps
  BY PerceptionAssumption DEF TypeOK, DocumentOK, ObservedOK
<1>1. CASE EnsureStarted \/ DocumentCreated
  BY <1>0, <1>1 DEF EnsureStarted, DocumentCreated, Loaded
<1>2. CASE StopHost
  BY <1>2 DEF StopHost, CutRequests, Loaded
<1>3. CASE InitAsked
  BY <1>3 DEF InitAsked, StartLoad, Loaded
<1>4. CASE InitReceived
  <2>1. CASE loaded
    BY <1>4, <2>1 DEF InitReceived, Tell, Loaded
  <2>2. CASE ~loaded
    <3>1. /\ document = "up" /\ Loader \notin asked /\ asked' = asked \cup {Loader}
          /\ loads' = loads + 1
          /\ UNCHANGED <<phase, panel, document, loaded, backends, restarts>>
      BY <1>4, <2>2 DEF InitReceived
    <3>2. loads' > 0 /\ (restarts = 0 => loads' = 1)
      BY <1>0, <3>1 DEF Loaded
    <3> QED BY <2>2, <3>1, <3>2 DEF Loaded
  <2> QED BY <2>1, <2>2
<1>5. ASSUME NEW ok \in BOOLEAN, BackendCreated(ok) PROVE Loaded'
  <2>1. /\ loads > 0 /\ loads' = loads - 1 /\ loaded' = (loaded \/ ok)
        /\ backends' = IF ok THEN backends + 1 ELSE backends
        /\ UNCHANGED <<document, restarts>>
    BY <1>5 DEF BackendCreated
  <2>2. document' = "up"
    BY <2>1 DEF Loaded
  <2>3. CASE /\ Loader \in asked /\ asked' = asked \ {Loader}
             /\ phase' = IF ok THEN "loaded" ELSE "failed"
             /\ Tell(ok)
    <3>1. restarts = 0 => loads' = 0 /\ backends' = IF loaded' THEN 1 ELSE 0
      BY <1>0, <2>1, <2>3 DEF Loaded
    <3>2. shown' /\ ~untold' => loaded'
      BY <2>1, <2>3 DEF Tell
    <3>3. phase' = "loaded" /\ ~untold' => loaded'
      BY <2>1, <2>3
    <3> QED BY <2>1, <2>2, <2>3, <3>1, <3>2, <3>3 DEF Loaded
  <2>4. CASE /\ loads > (IF Loader \in asked THEN 1 ELSE 0)
             /\ UNCHANGED <<asked, phase, panel>>
    <3>1. restarts # 0
      BY <1>0, <2>4 DEF Loaded
    <3>2. Loader \in asked => loads' > 0
      BY <1>0, <2>1, <2>4
    <3> QED BY <2>1, <2>2, <2>4, <3>1, <3>2 DEF Loaded
  <2> QED BY <1>5, <2>3, <2>4 DEF BackendCreated
<1>6. CASE LoadCut
  BY <1>6 DEF LoadCut, Tell, Loaded
<1>7. CASE StatusAsked
  BY <1>7 DEF StatusAsked, Tell, Loaded
<1>8. CASE StatusAnswered
  BY <1>8 DEF StatusAnswered, ReconcileModelState, Tell, Loaded
<1>9. CASE StatusCut
  BY <1>9 DEF StatusCut, Loaded
<1>10. CASE Restart
  <2>1. /\ phase' = "idle" /\ asked' = {} /\ UNCHANGED <<model, panel>>
        /\ restarts' = restarts + 1
        /\ document' = IF document = "creating" THEN "none" ELSE document
    BY <1>10 DEF Restart
  <2>2. restarts' # 0
    BY <1>0, <2>1
  <2> QED BY <2>1, <2>2 DEF Loaded
<1>11. CASE \/ \E s \in Steps : StepBegins(s)
            \/ \E ok \in BOOLEAN : CaptureAnswered(ok)
  BY <1>11, LoadedUndisturbed DEF StepBegins, CaptureAnswered
<1>12. ASSUME NEW s \in Steps, AcceptReceived(s) \/ \E ok \in BOOLEAN : Decoded(s, ok)
       PROVE  Loaded'
  <2>1. asked' \in {asked, asked \cup {s}, asked \ {s}}
    BY <1>12 DEF AcceptReceived, Decoded
  <2>2. UNCHANGED <<phase, document, model, panel, restarts>>
    BY <1>12 DEF AcceptReceived, Decoded
  <2> QED BY <1>0, <2>1, <2>2, LoadedUndisturbed
<1>13. CASE \E s \in Steps : RedactReceived(s) \/ BakeReceived(s) \/ SanitizeReceived(s)
  BY <1>13, LoadedUndisturbed DEF RedactReceived, BakeReceived, SanitizeReceived, End
<1>14. CASE \E s \in Steps : StepCut(s) \/ StepEnds(s) \/ ReleaseReceived(s)
  BY <1>14, LoadedUndisturbed DEF StepCut, StepEnds, ReleaseReceived
<1> QED BY <1>1, <1>2, <1>3, <1>4, <1>5, <1>6, <1>7, <1>8, <1>9, <1>10, <1>11, <1>12, <1>13,
           <1>14, NextSteps DEF ModelSteps

-----------------------------------------------------------------------------
LEMMA Step ==
    ASSUME TypeOK, IInv, [Next]_vars PROVE TypeOK' /\ IInv'
<1>1. CASE Next
  <2>1. BackgroundOK' /\ StepsOK' /\ DocumentOK' /\ ObservedOK' /\ StepsPlaced'
    BY <1>1, BackgroundType, PlacedKept, DocumentType, ObservedType DEF IInv
  <2>2. Owned' /\ Loaded'
    BY <1>1, OwnedKept, LoadedKept DEF IInv
  <2>3. HeldStays'
    <3>1. \A s : /\ Contains(frames', s) <=> s \in ToSet(frames')
                 /\ Contains(held', s) <=> s \in ToSet(held')
      BY <2>1, Elements DEF DocumentOK
    <3>2. retained' \subseteq Steps
      BY <2>1 DEF StepsOK
    <3>3. stops' = 0 => \A s \in Steps : HasFrame(s)' /\ HasDoc(s)'
      BY <1>1, HasKept DEF IInv
    <3> QED BY <3>1, <3>2, <3>3 DEF HeldStays, HasFrame, HasDoc
  <2> QED BY <2>1, <2>2, <2>3 DEF TypeOK, IInv
<1>2. CASE UNCHANGED vars
  <2> USE <1>2 DEF vars, background, actors, requests, model, buffers, panel, bounds
  <2>1. TypeOK'
    BY DEF TypeOK, BackgroundOK, StepsOK, DocumentOK, ObservedOK
  <2>2. StepsPlaced' /\ Owned'
    BY DEF IInv, StepsPlaced, Owned, FramesOwned, Live
  <2>3. HeldStays' /\ Loaded'
    BY DEF IInv, HeldStays, Loaded
  <2> QED BY <2>1, <2>2, <2>3 DEF IInv
<1> QED BY <1>1, <1>2

LEMMA Invariant == Spec => [](TypeOK /\ IInv)
<1>1. Init => TypeOK /\ IInv
  BY InitType
<1>2. TypeOK /\ IInv /\ [Next]_vars => (TypeOK /\ IInv)'
  BY Step
<1> QED BY <1>1, <1>2, PTL DEF Spec

LEMMA OneModel ==
    ASSUME TypeOK, Loaded PROVE OneModelAsShown
<1>1. restarts = 0 => loads + backends <= 1
  BY DEF Loaded
<1>2. shown /\ ~untold => loaded /\ document = "up"
  BY DEF Loaded
<1> QED BY <1>1, <1>2 DEF OneModelAsShown

(* The theorems.                                                             *)

(* Every variable stays in its type: never more than the frames and the      *)
(* documents there is room for, each of them once (runtime.ts:393-403), and  *)
(* nobody twice in the queue for a capture.                                  *)
THEOREM PerceptionTyped == Spec => []TypeOK
BY Invariant, PTL

(* Unredacted pixels are held for a step that is under way or is being       *)
(* cleaned up after, or was cut off by an eviction: whatever fails, is       *)
(* decoded late or is closed.                                                *)
THEOREM FramesAreOwned == Spec => []FramesOwned
<1>1. IInv => FramesOwned
  BY DEF IInv, Owned
<1> QED BY <1>1, Invariant, PTL

(* What a step left in the document is there when it comes back for it, as   *)
(* long as there was room for all the steps.                                 *)
THEOREM WhatIsHeldStays == Spec => []HeldStays
<1>1. IInv => HeldStays
  BY DEF IInv
<1> QED BY <1>1, Invariant, PTL

(* A background loads the weights once into a document, however often it is  *)
(* asked to; the panel says "loaded" of a model that is, unless the document *)
(* was closed since.                                                         *)
THEOREM OneModelIsLoaded == Spec => []OneModelAsShown
<1>1. TypeOK /\ IInv => OneModelAsShown
  BY OneModel DEF IInv
<1> QED BY <1>1, Invariant, PTL

-----------------------------------------------------------------------------
(* The folds of the model, one instance for each.  The last of the states of *)
(* a fold is its result.                                                     *)

KeepStep(c, out, i) == IF i \in c.keep THEN Append(out, c.text[i]) ELSE out
Keeping == INSTANCE FoldFacts WITH Op <- KeepStep, Base <- LAMBDA c : <<>>

SortStep(c, out, e) ==
    InsertAt(out, Cardinality({n \in DOMAIN out : ~(e.confidence > out[n].confidence)}) + 1, e)
Sorting == INSTANCE FoldFacts WITH Op <- SortStep, Base <- LAMBDA c : <<>>

SurviveStep(percent, out, b) ==
    IF \E k \in DOMAIN out : IouAtLeast(out[k].rect, b.rect, percent) THEN out ELSE Append(out, b)
Surviving == INSTANCE FoldFacts WITH Op <- SurviveStep, Base <- LAMBDA c : <<>>

(* A sequence whose elements are of S has the positions 1..Len.              *)
LEMMA Positions ==
    ASSUME NEW S, NEW s \in Seq(S)
    PROVE  Len(s) \in Nat /\ DOMAIN s = 1..Len(s) /\ \A n \in 1..Len(s) : s[n] \in S
OBVIOUS

LEMMA KeptRun ==
    ASSUME NEW S, NEW s \in Seq(S), NEW keep
    PROVE  \E g : /\ g[0] = <<>>
                  /\ \A n \in 1..Len(s) : g[n] = IF n \in keep THEN Append(g[n - 1], s[n]) ELSE g[n - 1]
                  /\ Kept(s, keep) = g[Len(s)]
<1> DEFINE N == Len(s)
           is == [i \in 1..N |-> i]
           c == [text |-> s, keep |-> keep]
           g == [n \in 0..N |-> Keeping!After(c, is, n)]
<1>1. N \in Nat /\ DOMAIN is = 1..N /\ \A n \in 1..N : is[n] = n
  OBVIOUS
<1>2. Kept(s, keep) = Keeping!Fold(c, is)
  BY DEF Kept, Keeping!Fold, Keeping!FoldOn, FoldLeft, MapThenFoldSet, Max, Keeping!Top, KeepStep
<1>3. \A out, i : KeepStep(c, out, i) = IF i \in keep THEN Append(out, s[i]) ELSE out
  BY DEF KeepStep
<1> HIDE DEF is, N, c
<1>4. /\ Keeping!After(c, is, 0) = <<>>
      /\ \A n \in 1..N : Keeping!After(c, is, n) = KeepStep(c, Keeping!After(c, is, n - 1), is[n])
      /\ Keeping!Fold(c, is) = Keeping!After(c, is, N)
  BY <1>1, Keeping!Folded
<1>5. g[0] = <<>> /\ Kept(s, keep) = g[N]
  BY <1>1, <1>2, <1>4
<1>6. ASSUME NEW n \in 1..N
      PROVE  g[n] = IF n \in keep THEN Append(g[n - 1], s[n]) ELSE g[n - 1]
  <2>1. n - 1 \in 0..N /\ n \in 0..N /\ is[n] = n
    BY <1>1
  <2> QED BY <2>1, <1>1, <1>3, <1>4
<1> HIDE DEF g
<1> QED BY <1>5, <1>6 DEF N

LEMMA KeptType ==
    ASSUME NEW S, NEW s \in Seq(S), NEW keep
    PROVE  Kept(s, keep) \in Seq(S)
<1> DEFINE N == Len(s)
           is == [i \in 1..N |-> i]
           c == [text |-> s, keep |-> keep]
<1>1. N \in Nat /\ DOMAIN is = 1..N /\ \A n \in 1..N : is[n] = n
  OBVIOUS
<1>2. Kept(s, keep) = Keeping!Fold(c, is)
  BY DEF Kept, Keeping!Fold, Keeping!FoldOn, FoldLeft, MapThenFoldSet, Max, Keeping!Top, KeepStep
<1>3. \A n \in 1..N : \A x \in Seq(S) : KeepStep(c, x, is[n]) \in Seq(S)
  BY DEF KeepStep
<1>4. <<>> \in Seq(S)
  OBVIOUS
<1> HIDE DEF is, N, c
<1> QED BY <1>1, <1>2, <1>3, <1>4, Keeping!Stays, ZenonT(60)

LEMMA InsertAtType ==
    ASSUME NEW S, NEW s \in Seq(S), NEW i \in 1..(Len(s) + 1), NEW e \in S
    PROVE  InsertAt(s, i, e) \in Seq(S)
<1>1. SubSeq(s, 1, i - 1) \in Seq(S) /\ SubSeq(s, i, Len(s)) \in Seq(S)
  OBVIOUS
<1> QED BY <1>1 DEF InsertAt

LEMMA SizeOfPart ==
    ASSUME NEW n \in Nat, NEW s \in SUBSET (1..n)
    PROVE  Cardinality(s) \in 0..n
<1>1. IsFiniteSet(1..n) /\ Cardinality(1..n) = n
  BY FS_Interval
<1>2. IsFiniteSet(s) /\ Cardinality(s) \in Nat /\ Cardinality(s) <= n
  BY <1>1, FS_Subset, FS_CardinalityType
<1> QED BY <1>2

LEMMA ByConfidenceType ==
    ASSUME NEW S, NEW s \in Seq(S)
    PROVE  ByConfidence(s) \in Seq(S)
<1> DEFINE N == Len(s)
<1>1. N \in Nat /\ DOMAIN s = 1..N /\ (\A n \in 1..N : s[n] \in S) /\ <<>> \in Seq(S)
  OBVIOUS
<1>2. ByConfidence(s) = Sorting!Fold(0, s)
  BY DEF ByConfidence, Sorted, Sorting!Fold, Sorting!FoldOn, FoldLeft, MapThenFoldSet, Max, Sorting!Top,
         SortStep
<1>3. ASSUME NEW n \in 1..N, NEW x \in Seq(S) PROVE SortStep(0, x, s[n]) \in Seq(S)
  <2> DEFINE P == {k \in DOMAIN x : ~(s[n].confidence > x[k].confidence)}
  <2>1. P \in SUBSET (1..Len(x)) /\ Len(x) \in Nat
    OBVIOUS
  <2> HIDE DEF P
  <2>2. Cardinality(P) + 1 \in 1..(Len(x) + 1)
    BY <2>1, SizeOfPart
  <2>3. InsertAt(x, Cardinality(P) + 1, s[n]) \in Seq(S)
    BY <2>2, <1>1, InsertAtType
  <2> QED BY <2>3 DEF SortStep, P
<1> HIDE DEF N
<1> QED BY <1>1, <1>2, <1>3, Sorting!Stays

LEMMA SurvivorsType ==
    ASSUME NEW S, NEW s \in Seq(S), NEW percent
    PROVE  Survivors(s, percent) \in Seq(S)
<1> DEFINE list == ByConfidence(s)
           N == Len(list)
<1>0. list \in Seq(S)
  BY ByConfidenceType
<1>2. Survivors(s, percent) = Surviving!Fold(percent, list)
  BY DEF Survivors, Surviving!Fold, Surviving!FoldOn, FoldLeft, MapThenFoldSet, Max, Surviving!Top, SurviveStep
<1> HIDE DEF list
<1>1. N \in Nat /\ DOMAIN list = 1..N /\ (\A n \in 1..N : list[n] \in S) /\ <<>> \in Seq(S)
  BY <1>0
<1>3. \A n \in 1..N : \A x \in Seq(S) : SurviveStep(percent, x, list[n]) \in Seq(S)
  BY <1>1 DEF SurviveStep
<1> HIDE DEF N
<1> QED BY <1>1, <1>2, <1>3, Surviving!Stays

(* What flattening has after each of the sequences.                          *)
LEMMA FlattenRun ==
    ASSUME NEW S, NEW ss \in Seq(Seq(S)), ss # <<>>
    PROVE  \E flat : /\ \A n \in 1..Len(ss) : flat[n] = IF n = 1 THEN ss[n] ELSE flat[n - 1] \o ss[n]
                     /\ FlattenSeq(ss) = flat[Len(ss)]
<1> DEFINE N == Len(ss)
           Flattens(f, n) == f = [i \in 1..n |-> IF i = 1 THEN ss[i] ELSE f[i - 1] \o ss[i]]
           Good == {n \in 0..N : \E f : Flattens(f, n)}
<1>1. N \in Nat /\ \A n \in 1..N : ss[n] \in Seq(S)
  OBVIOUS
<1>2. 0 \in Good
  <2>1. Flattens([i \in 1..0 |-> <<>>], 0)
    OBVIOUS
  <2>2. \E f : Flattens(f, 0)
    BY <2>1
  <2> HIDE DEF Flattens
  <2> QED BY <2>2, <1>1
<1>3. ASSUME NEW n \in 1..N, n - 1 \in Good PROVE n \in Good
  <2>1. PICK f : Flattens(f, n - 1)
    BY <1>3
  <2> DEFINE h == [i \in 1..n |-> IF i < n THEN f[i] ELSE IF i = 1 THEN ss[i] ELSE f[i - 1] \o ss[i]]
  <2>2. ASSUME NEW i \in 1..n PROVE h[i] = IF i = 1 THEN ss[i] ELSE h[i - 1] \o ss[i]
    <3>1. CASE i < n
      <4>1. h[i] = f[i] /\ i \in 1..(n - 1)
        BY <3>1
      <4>2. f[i] = IF i = 1 THEN ss[i] ELSE f[i - 1] \o ss[i]
        BY <2>1, <4>1
      <4>3. i # 1 => h[i - 1] = f[i - 1]
        BY <3>1
      <4> QED BY <4>1, <4>2, <4>3
    <3>2. CASE i = n
      <4>1. i # 1 => h[i - 1] = f[i - 1]
        BY <3>2
      <4> QED BY <3>2, <4>1
    <3> QED BY <3>1, <3>2
  <2>3. Flattens(h, n)
    BY <2>2
  <2> HIDE DEF h, Flattens
  <2> QED BY <2>3
<1>4. \E f : Flattens(f, N)
  <2>1. \A n \in 1..N : n - 1 \in Good => n \in Good
    BY <1>3
  <2> HIDE DEF Good, N
  <2>2. \A n \in 0..N : n \in Good
    BY <1>1, <1>2, <2>1, Keeping!Induction
  <2>3. N \in Good
    BY <2>2, <1>1
  <2> QED BY <2>3 DEF Good
<1> DEFINE flat == CHOOSE f : Flattens(f, N)
<1>5. Flattens(flat, N)
  BY <1>4
<1>6. FlattenSeq(ss) = flat[N]
  <2>1. N # 0
    BY <1>1
  <2> QED BY <2>1 DEF FlattenSeq
<1> HIDE DEF flat
<1>7. \A n \in 1..N : flat[n] = IF n = 1 THEN ss[n] ELSE flat[n - 1] \o ss[n]
  BY <1>5
<1> QED BY <1>6, <1>7

LEMMA FlattenType ==
    ASSUME NEW S, NEW ss \in Seq(Seq(S))
    PROVE  FlattenSeq(ss) \in Seq(S)
<1>1. CASE ss = <<>>
  <2>1. Len(ss) = 0
    BY <1>1
  <2>2. FlattenSeq(ss) = ss
    BY <2>1 DEF FlattenSeq
  <2>3. ss \in Seq(S)
    BY <1>1
  <2> QED BY <2>2, <2>3
<1>2. CASE ss # <<>>
  <2> DEFINE N == Len(ss)
  <2>1. PICK flat : /\ \A n \in 1..Len(ss) : flat[n] = IF n = 1 THEN ss[n] ELSE flat[n - 1] \o ss[n]
                    /\ FlattenSeq(ss) = flat[Len(ss)]
    BY <1>2, FlattenRun
  <2>2. N \in Nat \ {0} /\ \A n \in 1..N : ss[n] \in Seq(S)
    BY <1>2
  <2> DEFINE Typed == {n \in 0..N : n = 0 \/ flat[n] \in Seq(S)}
  <2>3. 0 \in Typed
    BY <2>2
  <2>4. ASSUME NEW n \in 1..N, n - 1 \in Typed PROVE n \in Typed
    <3>1. flat[n] = IF n = 1 THEN ss[n] ELSE flat[n - 1] \o ss[n]
      BY <2>1
    <3>2. n # 1 => flat[n - 1] \in Seq(S)
      BY <2>4
    <3>3. ss[n] \in Seq(S)
      BY <2>2
    <3>4. flat[n] \in Seq(S)
      BY <3>1, <3>2, <3>3
    <3> QED BY <3>4
  <2>5. N \in Typed
    <3> HIDE DEF Typed, N
    <3>1. \A n \in 0..N : n \in Typed
      BY <2>2, <2>3, <2>4, Keeping!Induction
    <3> QED BY <3>1, <2>2
  <2> QED BY <2>1, <2>5, <2>2
<1> QED BY <1>1, <1>2

-----------------------------------------------------------------------------
(* Geometry: two rectangles that share an area lie over a common cell.       *)

(* The strings, among them those that the code writes: that a literal is in  *)
(* STRING is not known to the provers.                                       *)
Names ==
    STRING \cup {"", "d", "v", "none", "value", "label", "text", "src", "face", "signature",
                 "id-document", "credit-card", "password", "email", "phone",
                 "regex", "user-rule", "dom-input-type", "dom-autocomplete", "dom-heuristic", "vision",
                 "[[PII", "ours", "placeholder", "drop-attribute", "blur", "blackout",
                 "span", "moved", "gone", "queued", "replaced", "below"}

Spans == {s \in Nat \X Nat : 1 <= s[1] /\ s[1] <= s[2]}

Finding ==
    [id : Names \X Int, kind : Names, source : Names, confidence : Int,
     rect : Rectangles \cup {NoRect}, at : Nat, attr : Names, span : Spans \cup {NoSpan}]

LEMMA DivMonotone ==
    ASSUME NEW c \in Nat \ {0}, NEW a \in Int, NEW b \in Int, a <= b
    PROVE  a \div c \in Int /\ b \div c \in Int /\ a \div c <= b \div c
<1> DEFINE p == a \div c
           q == b \div c
<1>1. p \in Int /\ q \in Int /\ c * p <= a /\ b < c * q + c
  OBVIOUS
<1> HIDE DEF p, q
<1>2. ASSUME q + 1 <= p PROVE FALSE
  <2>1. c * (q + 1) <= c * p
    BY <1>1, <1>2
  <2>2. c * (q + 1) = c * q + c
    BY <1>1
  <2> QED BY <1>1, <2>1, <2>2
<1>3. p <= q
  BY <1>1, <1>2
<1> QED BY <1>1, <1>3 DEF p, q

(* One axis: what starts at a and is w long, and what starts at b and is v   *)
(* long, share a point, and so one of the cells that they touch.             *)
LEMMA SharedOnAxis ==
    ASSUME NEW a \in Int, NEW b \in Int, NEW w \in Int, NEW v \in Int,
           MostOf(0, LeastOf(a + w, b + v) - MostOf(a, b)) > 0
    PROVE  \E n : /\ n \in (a \div CellSize)..((a + MostOf(0, w)) \div CellSize)
                  /\ n \in (b \div CellSize)..((b + MostOf(0, v)) \div CellSize)
<1> DEFINE p == MostOf(a, b)
<1>1. p \in Int /\ a <= p /\ b <= p
  BY DEF MostOf
<1>2. p <= a + MostOf(0, w) /\ p <= b + MostOf(0, v) /\ a + MostOf(0, w) \in Int /\ b + MostOf(0, v) \in Int
  BY DEF MostOf, LeastOf
<1>3. CellSize \in Nat \ {0}
  BY MergeAssumption
<1> HIDE DEF p
<1>4. /\ a \div CellSize <= p \div CellSize /\ b \div CellSize <= p \div CellSize
      /\ a \div CellSize \in Int /\ b \div CellSize \in Int /\ p \div CellSize \in Int
  BY <1>1, <1>3, DivMonotone
<1> DEFINE r == a + MostOf(0, w)
           s == b + MostOf(0, v)
<1>5. r \in Int /\ s \in Int /\ p <= r /\ p <= s
  BY <1>2
<1> HIDE DEF r, s
<1>6. /\ p \div CellSize <= r \div CellSize /\ p \div CellSize <= s \div CellSize
      /\ r \div CellSize \in Int /\ s \div CellSize \in Int
  BY <1>1, <1>3, <1>5, DivMonotone
<1> WITNESS p \div CellSize
<1> QED BY <1>4, <1>6 DEF r, s

LEMMA PositiveProduct ==
    ASSUME NEW a \in Int, NEW b \in Int, MostOf(0, a) * MostOf(0, b) > 0
    PROVE  MostOf(0, a) > 0 /\ MostOf(0, b) > 0
<1>1. MostOf(0, a) \in Nat /\ MostOf(0, b) \in Nat
  BY DEF MostOf
<1> DEFINE p == MostOf(0, a)
           q == MostOf(0, b)
<1> HIDE DEF p, q
<1>2. p \in Nat /\ q \in Nat /\ p * q > 0
  BY <1>1 DEF p, q
<1>3. p # 0 /\ q # 0
  BY <1>2
<1> QED BY <1>2, <1>3 DEF p, q

LEMMA SharedCell ==
    ASSUME NEW a \in Rectangles, NEW b \in Rectangles, Shared(a, b) > 0,
           CellsOf(a) # {}, CellsOf(b) # {}
    PROVE  \E c : c \in CellsOf(a) /\ c \in CellsOf(b)
<1> DEFINE u == LeastOf(a.x + a.w, b.x + b.w) - MostOf(a.x, b.x)
           v == LeastOf(a.y + a.h, b.y + b.h) - MostOf(a.y, b.y)
<1>1. /\ a.x \in Int /\ a.y \in Int /\ a.w \in Int /\ a.h \in Int
      /\ b.x \in Int /\ b.y \in Int /\ b.w \in Int /\ b.h \in Int
  BY DEF Rectangles
<1>2. u \in Int /\ v \in Int
  BY <1>1 DEF LeastOf, MostOf
<1>3. MostOf(0, u) * MostOf(0, v) > 0
  BY DEF Shared
<1> HIDE DEF u, v
<1>4. MostOf(0, u) > 0 /\ MostOf(0, v) > 0
  BY <1>2, <1>3, PositiveProduct
<1>5. PICK n : /\ n \in (a.x \div CellSize)..((a.x + MostOf(0, a.w)) \div CellSize)
               /\ n \in (b.x \div CellSize)..((b.x + MostOf(0, b.w)) \div CellSize)
  BY <1>1, <1>4, SharedOnAxis DEF u
<1>6. PICK m : /\ m \in (a.y \div CellSize)..((a.y + MostOf(0, a.h)) \div CellSize)
               /\ m \in (b.y \div CellSize)..((b.y + MostOf(0, b.h)) \div CellSize)
  BY <1>1, <1>4, SharedOnAxis DEF v
<1>7. <<n, m>> \in CellsOf(a) /\ <<n, m>> \in CellsOf(b)
  BY <1>5, <1>6 DEF CellsOf
<1> QED BY <1>7

-----------------------------------------------------------------------------
(* The merge through indexes is the merge of pairs.                          *)

LEMMA JoinedType ==
    ASSUME NEW a \in Finding, NEW b \in Finding
    PROVE  /\ Joined(a, b) \in Finding
           /\ Joined(a, b).id = a.id /\ Joined(a, b).kind = a.kind /\ Joined(a, b).attr = a.attr
           /\ Joined(a, b).at = IF a.at = 0 THEN b.at ELSE a.at
           /\ Joined(a, b).rect = IF a.rect = NoRect THEN b.rect ELSE a.rect
<1>1. Boost \in Int
  BY MergeAssumption
<1>2. \A n \in Int : LeastOf(99, n + Boost) \in Int
  BY <1>1 DEF LeastOf
<1>3. a.confidence \in Int /\ a.at \in Nat /\ b.at \in Nat
  BY DEF Finding
<1>4. LeastOf(99, a.confidence + Boost) \in Int
  BY <1>2, <1>3
<1> DEFINE confidence == IF Corroborated(a, b) THEN LeastOf(99, a.confidence + Boost) ELSE a.confidence
           at == IF a.at = 0 THEN b.at ELSE a.at
           rect == IF a.rect = NoRect THEN b.rect ELSE a.rect
<1>5. Joined(a, b) = [a EXCEPT !.confidence = confidence, !.at = at, !.rect = rect]
  BY DEF Joined, Finding
<1>6. confidence \in Int /\ at \in Nat /\ rect \in Rectangles \cup {NoRect}
  BY <1>3, <1>4 DEF Finding
<1>7. at = (IF a.at = 0 THEN b.at ELSE a.at) /\ rect = (IF a.rect = NoRect THEN b.rect ELSE a.rect)
  OBVIOUS
<1> HIDE DEF confidence, at, rect
<1>8. /\ Joined(a, b) \in Finding
      /\ Joined(a, b).id = a.id /\ Joined(a, b).kind = a.kind /\ Joined(a, b).attr = a.attr
      /\ Joined(a, b).at = at /\ Joined(a, b).rect = rect
  BY <1>5, <1>6 DEF Finding
<1> QED BY <1>7, <1>8

(* What the indexes say of the kept findings: an entry of a target leads to  *)
(* a finding with that target, and each finding's target to it or to an      *)
(* earlier one; each finding with a rectangle is found from every cell its   *)
(* rectangle lies over, or among the oversized ones.                         *)
TargetsSound(kept, target) ==
    \A e \in target : e[2] \in DOMAIN kept /\ kept[e[2]].at # 0 /\ e[1] = TargetKey(kept[e[2]])

TargetLeads(kept, target, k) ==
    kept[k].at # 0 => \E e \in target : e[1] = TargetKey(kept[k]) /\ e[2] <= k

TargetsIndexed(kept, target) ==
    TargetsSound(kept, target) /\ \A k \in DOMAIN kept : TargetLeads(kept, target, k)

PlacesSound(kept, index) ==
    /\ index.placed \subseteq DOMAIN kept /\ index.oversized \subseteq DOMAIN kept
    /\ \A e \in index.cell : e[2] \in DOMAIN kept

PlaceLeads(kept, index, k) ==
    kept[k].rect # NoRect =>
        /\ k \in index.placed
        /\ CellsOf(kept[k].rect) = {} => k \in index.oversized
        /\ \A c \in CellsOf(kept[k].rect) : <<c, k>> \in index.cell

PlacesIndexed(kept, index) ==
    PlacesSound(kept, index) /\ \A k \in DOMAIN kept : PlaceLeads(kept, index, k)

IsIndex(index) ==
    index = [target |-> index.target, cell |-> index.cell,
             placed |-> index.placed, oversized |-> index.oversized]

Indexed(kept, index) ==
    IsIndex(index) /\ TargetsIndexed(kept, index.target) /\ PlacesIndexed(kept, index)

LEMMA SameTargetIsKey ==
    ASSUME NEW a, NEW b
    PROVE  SameTarget(a, b) <=> a.at # 0 /\ TargetKey(a) = TargetKey(b)
BY DEF SameTarget, TargetKey

(* The first kept finding that names the same thing, both ways.              *)
LEMMA DuplicateIsFirst ==
    ASSUME NEW kept \in Seq(Finding), NEW index, Indexed(kept, index), NEW d \in Finding,
           NEW same, same = {k \in DOMAIN kept : SameTarget(kept[k], d) \/ Overlapping(kept[k], d)}
    PROVE  IF same = {} THEN Duplicate(kept, index, d) = 0
           ELSE /\ Duplicate(kept, index, d) = CHOOSE k \in same : \A j \in same : k <= j
                /\ Duplicate(kept, index, d) \in same
<1> DEFINE hit == {e[2] : e \in {f \in index.target : d.at # 0 /\ f[1] = TargetKey(d)}}
           found == {k \in hit : SameTarget(kept[k], d)} \cup {k \in Near(index, d) : Overlapping(kept[k], d)}
           IsFirst(k, s) == k \in s /\ \A j \in s : k <= j
<1>1. DOMAIN kept \subseteq Nat /\ \A k \in DOMAIN kept : kept[k] \in Finding
  OBVIOUS
<1>2. found \subseteq same
  <2>1. hit \subseteq DOMAIN kept
    BY DEF Indexed, TargetsIndexed, TargetsSound, TargetLeads
  <2>2. Near(index, d) \subseteq DOMAIN kept
    BY DEF Indexed, PlacesIndexed, PlacesSound, Near
  <2> QED BY <2>1, <2>2
<1>3. ASSUME NEW k \in same, SameTarget(kept[k], d) PROVE \E j \in found : j <= k
  <2>1. kept[k].at # 0 /\ TargetKey(kept[k]) = TargetKey(d) /\ d.at # 0 /\ k \in DOMAIN kept
    BY <1>3 DEF SameTarget, TargetKey
  <2>2. PICK e \in index.target : e[1] = TargetKey(kept[k]) /\ e[2] <= k
    BY <2>1 DEF Indexed, TargetsIndexed, TargetsSound, TargetLeads
  <2>3. kept[e[2]].at # 0 /\ e[1] = TargetKey(kept[e[2]])
    BY DEF Indexed, TargetsIndexed, TargetsSound, TargetLeads
  <2>4. SameTarget(kept[e[2]], d)
    BY <2>1, <2>2, <2>3, SameTargetIsKey
  <2>5. e[2] \in hit
    BY <2>1, <2>2
  <2>6. e[2] \in found
    BY <2>4, <2>5
  <2> QED BY <2>2, <2>6
<1>4. ASSUME NEW k \in same, Overlapping(kept[k], d) PROVE k \in found
  <2>1. k \in DOMAIN kept /\ kept[k].rect # NoRect /\ d.rect # NoRect /\ Shared(kept[k].rect, d.rect) > 0
    BY <1>4 DEF Overlapping, IouAtLeast
  <2>2. kept[k].rect \in Rectangles /\ d.rect \in Rectangles
    BY <1>1, <2>1 DEF Finding
  <2>3. /\ k \in index.placed
        /\ CellsOf(kept[k].rect) = {} => k \in index.oversized
        /\ \A c \in CellsOf(kept[k].rect) : <<c, k>> \in index.cell
    BY <2>1 DEF Indexed, PlacesIndexed, PlaceLeads
  <2>4. k \in Near(index, d)
    <3>1. CASE CellsOf(d.rect) = {}
      BY <2>1, <2>3, <3>1 DEF Near
    <3>2. CASE CellsOf(d.rect) # {} /\ CellsOf(kept[k].rect) = {}
      BY <2>1, <2>3, <3>2 DEF Near
    <3>3. CASE CellsOf(d.rect) # {} /\ CellsOf(kept[k].rect) # {}
      <4>1. PICK c : c \in CellsOf(kept[k].rect) /\ c \in CellsOf(d.rect)
        BY <2>1, <2>2, <3>3, SharedCell
      <4>2. <<c, k>> \in index.cell /\ <<c, k>>[1] \in CellsOf(d.rect) /\ <<c, k>>[2] = k
        BY <4>1, <2>3
      <4> QED BY <4>2, <2>1, <3>3 DEF Near
    <3> QED BY <3>1, <3>2, <3>3
  <2> QED BY <2>4, <1>4
<1>5. Duplicate(kept, index, d) = IF found = {} THEN 0 ELSE CHOOSE k \in found : \A j \in found : k <= j
  BY DEF Duplicate
<1> HIDE DEF found, hit
<1>6. CASE same = {}
  BY <1>2, <1>5, <1>6
<1>7. CASE same # {}
  <2>1. same \subseteq Nat
    BY <1>1
  <2>2. PICK k : IsFirst(k, same)
    BY <2>1, <1>7, Keeping!LeastIn
  <2>3. IsFirst(k, found)
    BY <2>1, <2>2, <1>2, <1>3, <1>4
  <2>4. \A j : IsFirst(j, same) => j = k
    BY <2>1, <2>2
  <2>5. \A j : IsFirst(j, found) => j = k
    BY <2>1, <2>3, <1>2
  <2>6. (CHOOSE j \in same : \A i \in same : j <= i) = k
    BY <2>2, <2>4
  <2>7. (CHOOSE j \in found : \A i \in found : j <= i) = k
    BY <2>3, <2>5
  <2> QED BY <1>5, <1>7, <2>2, <2>3, <2>6, <2>7
<1> QED BY <1>6, <1>7

LEMMA RegisteredIndexes ==
    ASSUME NEW kept \in Seq(Finding), NEW n \in DOMAIN kept, NEW index, IsIndex(index),
           TargetsSound(kept, index.target),
           \A k \in DOMAIN kept \ {n} : TargetLeads(kept, index.target, k)
    PROVE  LET new == Registered(index, kept[n], n)
           IN /\ IsIndex(new) /\ TargetsIndexed(kept, new.target)
              /\ new.placed = index.placed /\ new.oversized = index.oversized /\ new.cell = index.cell
<1> DEFINE d == kept[n]
           key == TargetKey(d)
           known == d.at = 0 \/ \E e \in index.target : e[1] = key /\ e[2] <= n
           new == Registered(index, d, n)
           target == {e \in index.target : e[1] # key} \cup {<<key, n>>}
<1>0. DOMAIN kept \subseteq Nat
  OBVIOUS
<1>1. CASE known
  <2>1. new = index
    BY <1>1 DEF Registered
  <2>2. TargetLeads(kept, index.target, n)
    BY <1>1 DEF TargetLeads
  <2> QED BY <2>1, <2>2 DEF TargetsIndexed
<1>2. CASE ~known
  <2>1. new = [index EXCEPT !.target = target]
    BY <1>2 DEF Registered
  <2> HIDE DEF target
  <2>2. /\ IsIndex(new) /\ new.target = target /\ new.placed = index.placed
        /\ new.oversized = index.oversized /\ new.cell = index.cell
    BY <2>1 DEF IsIndex
  <2>3. TargetsSound(kept, target)
    <3> SUFFICES ASSUME NEW e \in target
                 PROVE  e[2] \in DOMAIN kept /\ kept[e[2]].at # 0 /\ e[1] = TargetKey(kept[e[2]])
      BY DEF TargetsSound
    <3>1. CASE e \in index.target
      BY <3>1 DEF TargetsSound
    <3>2. CASE e = <<key, n>>
      BY <3>2, <1>2
    <3> QED BY <3>1, <3>2 DEF target
  <2>4. ASSUME NEW k \in DOMAIN kept, kept[k].at # 0
        PROVE  \E e \in target : e[1] = TargetKey(kept[k]) /\ e[2] <= k
    <3>1. <<key, n>> \in target /\ <<key, n>>[1] = key /\ <<key, n>>[2] = n
      BY DEF target
    <3>2. CASE k = n
      BY <3>1, <3>2, <1>0
    <3>3. CASE k # n
      <4>1. PICK e \in index.target : e[1] = TargetKey(kept[k]) /\ e[2] <= k
        BY <2>4, <3>3 DEF TargetLeads
      <4>2. CASE e[1] # key
        BY <4>1, <4>2 DEF target
      <4>3. CASE e[1] = key
        <5>1. ~(e[2] <= n) /\ e[2] \in Nat /\ k \in Nat /\ n \in Nat
          BY <4>3, <1>2, <1>0 DEF TargetsSound
        <5>2. n <= k /\ TargetKey(kept[k]) = key
          BY <5>1, <4>1, <4>3
        <5> QED BY <3>1, <5>2
      <4> QED BY <4>2, <4>3
    <3> QED BY <3>2, <3>3
  <2>5. TargetsIndexed(kept, target)
    BY <2>3, <2>4 DEF TargetsIndexed, TargetLeads
  <2> QED BY <2>2, <2>5
<1> QED BY <1>1, <1>2

LEMMA PlacedIndexes ==
    ASSUME NEW kept \in Seq(Finding), NEW n \in DOMAIN kept, NEW index, IsIndex(index),
           PlacesSound(kept, index),
           \A k \in DOMAIN kept \ {n} : PlaceLeads(kept, index, k)
    PROVE  LET new == Placed(index, kept[n], n)
           IN IsIndex(new) /\ PlacesIndexed(kept, new) /\ new.target = index.target
<1> DEFINE d == kept[n]
           new == Placed(index, d, n)
<1>1. CASE d.rect = NoRect
  BY <1>1 DEF Placed, PlacesIndexed, PlaceLeads
<1>2. CASE d.rect # NoRect
  <2> DEFINE placed == index.placed \cup {n}
             oversized == IF CellsOf(d.rect) = {} THEN index.oversized \cup {n} ELSE index.oversized
             cell == index.cell \cup {<<c, n>> : c \in CellsOf(d.rect)}
  <2>1. new = [index EXCEPT !.placed = placed, !.oversized = oversized, !.cell = cell]
    BY <1>2 DEF Placed, IsIndex
  <2> HIDE DEF placed, oversized, cell
  <2>2. /\ IsIndex(new) /\ new.target = index.target /\ new.placed = placed
        /\ new.oversized = oversized /\ new.cell = cell
    BY <2>1 DEF IsIndex
  <2> HIDE DEF new
  <2>3. PlacesSound(kept, new)
    BY <2>2 DEF PlacesSound, placed, oversized, cell
  <2>4. PlaceLeads(kept, new, n)
    BY <2>2 DEF PlaceLeads, placed, oversized, cell
  <2>5. ASSUME NEW k \in DOMAIN kept \ {n} PROVE PlaceLeads(kept, new, k)
    BY <2>2 DEF PlaceLeads, placed, oversized, cell
  <2> QED BY <2>2, <2>3, <2>4, <2>5 DEF PlacesIndexed, new
<1> QED BY <1>1, <1>2

(* What changes in the list leaves the entries of the other findings alone.  *)
LEMMA StepAgrees ==
    ASSUME NEW kept \in Seq(Finding), NEW index, Indexed(kept, index), NEW d \in Finding,
           NEW next, next = MergeStep([kept |-> kept, index |-> index], d)
    PROVE  /\ next = [kept |-> next.kept, index |-> next.index]
           /\ next.kept = MergePair(kept, d)
           /\ next.kept \in Seq(Finding)
           /\ Indexed(next.kept, next.index)
<1> DEFINE same == {k \in DOMAIN kept : SameTarget(kept[k], d) \/ Overlapping(kept[k], d)}
           k == Duplicate(kept, index, d)
           n == Len(kept) + 1
<1>1. /\ same = {} => k = 0
      /\ same # {} => k \in same /\ k = CHOOSE i \in same : \A j \in same : i <= j
  BY DuplicateIsFirst
<1>2. DOMAIN kept = 1..Len(kept) /\ Len(kept) \in Nat /\ \A i \in DOMAIN kept : kept[i] \in Finding
  OBVIOUS
<1>3. IsIndex(index) /\ TargetsIndexed(kept, index.target) /\ PlacesIndexed(kept, index)
  BY DEF Indexed
<1>4. CASE same = {}
  <2> DEFINE more == Append(kept, d)
             known == Registered(index, d, n)
             new == Placed(known, d, n)
  <2>1. k = 0
    BY <1>1, <1>4
  <2>2. next = [kept |-> more, index |-> new]
    BY <2>1 DEF MergeStep
  <2>3. MergePair(kept, d) = more
    BY <1>4 DEF MergePair
  <2>4. /\ more \in Seq(Finding) /\ DOMAIN more = DOMAIN kept \cup {n} /\ n \in DOMAIN more
        /\ more[n] = d /\ \A i \in DOMAIN kept : more[i] = kept[i] /\ i \in DOMAIN more
    BY <1>2
  <2> HIDE DEF more, n, k, same
  <2>5. TargetsSound(more, index.target) /\ \A i \in DOMAIN more \ {n} : TargetLeads(more, index.target, i)
    BY <1>3, <2>4 DEF TargetsIndexed, TargetsSound, TargetLeads
  <2>6. PlacesSound(more, index) /\ \A i \in DOMAIN more \ {n} : PlaceLeads(more, index, i)
    BY <1>3, <2>4 DEF PlacesIndexed, PlacesSound, PlaceLeads
  <2>7. /\ IsIndex(known) /\ TargetsIndexed(more, known.target)
        /\ known.placed = index.placed /\ known.oversized = index.oversized /\ known.cell = index.cell
    BY <1>3, <2>4, <2>5, RegisteredIndexes
  <2> HIDE DEF known
  <2>8. PlacesSound(more, known) /\ \A i \in DOMAIN more \ {n} : PlaceLeads(more, known, i)
    BY <2>6, <2>7 DEF PlacesSound, PlaceLeads
  <2>9. IsIndex(new) /\ PlacesIndexed(more, new) /\ new.target = known.target
    BY <2>4, <2>7, <2>8, PlacedIndexes
  <2> HIDE DEF new
  <2>10. Indexed(more, new)
    BY <2>7, <2>9 DEF Indexed
  <2> QED BY <2>2, <2>3, <2>4, <2>10
<1>5. CASE same # {}
  <2> DEFINE winner == kept[k]
             merged == Joined(winner, d)
             more == [kept EXCEPT ![k] = merged]
             known == IF winner.at = 0 THEN Registered(index, merged, k) ELSE index
             new == IF winner.rect = NoRect THEN Placed(known, merged, k) ELSE known
  <2>1. k \in DOMAIN kept /\ k # 0
    BY <1>1, <1>2, <1>5
  <2>2. next = [kept |-> more, index |-> new]
    BY <2>1 DEF MergeStep
  <2>3. MergePair(kept, d) = more
    BY <1>1, <1>5 DEF MergePair
  <2>4. /\ merged \in Finding /\ merged.kind = winner.kind /\ merged.attr = winner.attr
        /\ winner.at # 0 => merged.at = winner.at
        /\ winner.rect # NoRect => merged.rect = winner.rect
    BY <1>2, <2>1, JoinedType
  <2> HIDE DEF merged
  <2>5. /\ more \in Seq(Finding) /\ DOMAIN more = DOMAIN kept
        /\ more[k] = merged /\ \A i \in DOMAIN kept \ {k} : more[i] = kept[i]
    BY <2>1, <2>4
  <2>6. winner.at # 0 => TargetKey(merged) = TargetKey(winner)
    BY <2>4 DEF TargetKey
  <2> HIDE DEF more, k, same, n
  <2>7. TargetsSound(more, index.target)
    <3> SUFFICES ASSUME NEW e \in index.target
                 PROVE  e[2] \in DOMAIN more /\ more[e[2]].at # 0 /\ e[1] = TargetKey(more[e[2]])
      BY DEF TargetsSound
    <3>1. e[2] \in DOMAIN kept /\ kept[e[2]].at # 0 /\ e[1] = TargetKey(kept[e[2]])
      BY <1>3 DEF TargetsIndexed, TargetsSound
    <3>2. CASE e[2] = k
      BY <3>1, <3>2, <2>4, <2>5, <2>6
    <3>3. CASE e[2] # k
      BY <3>1, <3>3, <2>5
    <3> QED BY <3>2, <3>3
  <2>8. \A i \in DOMAIN more \ {k} : TargetLeads(more, index.target, i)
    BY <1>3, <2>5 DEF TargetsIndexed, TargetLeads
  <2>9. PlacesSound(more, index)
    BY <1>3, <2>5 DEF PlacesIndexed, PlacesSound
  <2>10. \A i \in DOMAIN more \ {k} : PlaceLeads(more, index, i)
    BY <1>3, <2>5 DEF PlacesIndexed, PlaceLeads
  <2>11. /\ IsIndex(known) /\ TargetsIndexed(more, known.target)
         /\ known.placed = index.placed /\ known.oversized = index.oversized /\ known.cell = index.cell
    <3>1. CASE winner.at = 0
      BY <3>1, <1>3, <2>1, <2>5, <2>7, <2>8, RegisteredIndexes
    <3>2. CASE winner.at # 0
      <4>1. TargetLeads(kept, index.target, k)
        BY <1>3, <2>1 DEF TargetsIndexed
      <4>2. TargetLeads(more, index.target, k)
        BY <4>1, <3>2, <2>5, <2>6 DEF TargetLeads
      <4> QED BY <3>2, <4>2, <1>3, <2>7, <2>8 DEF TargetsIndexed
    <3> QED BY <3>1, <3>2
  <2> HIDE DEF known
  <2>12. PlacesSound(more, known) /\ \A i \in DOMAIN more \ {k} : PlaceLeads(more, known, i)
    BY <2>9, <2>10, <2>11 DEF PlacesSound, PlaceLeads
  <2>13. IsIndex(new) /\ PlacesIndexed(more, new) /\ new.target = known.target
    <3>1. CASE winner.rect = NoRect
      BY <3>1, <2>1, <2>5, <2>11, <2>12, PlacedIndexes
    <3>2. CASE winner.rect # NoRect
      <4>1. PlaceLeads(kept, index, k)
        BY <1>3, <2>1 DEF PlacesIndexed
      <4>2. PlaceLeads(more, known, k)
        BY <4>1, <3>2, <2>4, <2>5, <2>11 DEF PlaceLeads
      <4> QED BY <3>2, <4>2, <2>11, <2>12 DEF PlacesIndexed
    <3> QED BY <3>1, <3>2
  <2> HIDE DEF new
  <2>14. Indexed(more, new)
    BY <2>11, <2>13 DEF Indexed
  <2> QED BY <2>2, <2>3, <2>5, <2>14
<1> QED BY <1>4, <1>5

Pairing == INSTANCE FoldFacts WITH Op <- LAMBDA c, kept, d : MergePair(kept, d), Base <- LAMBDA c : <<>>
Indexing == INSTANCE FoldFacts WITH Op <- LAMBDA c, state, d : MergeStep(state, d),
                                    Base <- LAMBDA c : [kept |-> <<>>, index |-> NoIndex]

(* Whatever findings are merged, and in whatever order they come, the indexes*)
(* lead to the same list as comparing each finding with every kept one.      *)
THEOREM IndexesAgree ==
    ASSUME NEW all \in Seq(Finding)
    PROVE  MergeIndexed(all) = MergePairs(all) /\ MergePairs(all) \in Seq(Finding)
<1> DEFINE N == Len(all)
           P(n) == Pairing!After(0, all, n)
           S(n) == Indexing!After(0, all, n)
           Agrees(n) == /\ S(n) = [kept |-> P(n), index |-> S(n).index]
                        /\ P(n) \in Seq(Finding)
                        /\ Indexed(P(n), S(n).index)
           Good == {n \in 0..N : Agrees(n)}
<1>1. N \in Nat /\ DOMAIN all = 1..N /\ \A n \in 1..N : all[n] \in Finding
  OBVIOUS
<1>2. MergePairs(all) = Pairing!Fold(0, all)
  BY DEF MergePairs, Pairing!Fold, Pairing!FoldOn, FoldLeft, MapThenFoldSet, Max, Pairing!Top
<1>3. MergeIndexed(all) = Indexing!Fold(0, all).kept
  BY DEF MergeIndexed, Indexing!Fold, Indexing!FoldOn, FoldLeft, MapThenFoldSet, Max, Indexing!Top
<1> HIDE DEF N
<1>4. P(0) = <<>> /\ (\A n \in 1..N : P(n) = MergePair(P(n - 1), all[n])) /\ MergePairs(all) = P(N)
  BY <1>1, <1>2, Pairing!Folded
<1>5. /\ S(0) = [kept |-> <<>>, index |-> NoIndex]
      /\ \A n \in 1..N : S(n) = MergeStep(S(n - 1), all[n])
      /\ MergeIndexed(all) = S(N).kept
  BY <1>1, <1>3, Indexing!Folded
<1> HIDE DEF P, S
<1>6. 0 \in Good
  <2>1. Indexed(<<>>, NoIndex)
    BY DEF Indexed, NoIndex, IsIndex, TargetsIndexed, TargetsSound, PlacesIndexed, PlacesSound
  <2>2. S(0).index = NoIndex /\ <<>> \in Seq(Finding)
    BY <1>5
  <2>3. P(0) = <<>> /\ S(0) = [kept |-> P(0), index |-> S(0).index]
    BY <2>2, <1>4, <1>5
  <2>4. Agrees(0)
    BY <2>1, <2>2, <2>3
  <2> HIDE DEF Agrees
  <2> QED BY <2>4, <1>1
<1>7. ASSUME NEW n \in 1..N, n - 1 \in Good PROVE n \in Good
  <2> DEFINE kept == P(n - 1)
             index == S(n - 1).index
             next == S(n)
  <2>1. kept \in Seq(Finding) /\ Indexed(kept, index) /\ S(n - 1) = [kept |-> kept, index |-> index]
    BY <1>7
  <2>2. next = MergeStep([kept |-> kept, index |-> index], all[n]) /\ P(n) = MergePair(kept, all[n])
    BY <2>1, <1>4, <1>5
  <2>3. all[n] \in Finding
    BY <1>1
  <2> HIDE DEF kept, index, next
  <2>4. /\ next = [kept |-> next.kept, index |-> next.index]
        /\ next.kept = MergePair(kept, all[n])
        /\ next.kept \in Seq(Finding)
        /\ Indexed(next.kept, next.index)
    BY <2>1, <2>2, <2>3, StepAgrees
  <2>5. next.kept = P(n)
    BY <2>2, <2>4
  <2>6. Agrees(n)
    BY <2>4, <2>5 DEF next
  <2> QED BY <2>6
<1>8. N \in Good
  <2> HIDE DEF Good
  <2>1. \A n \in 0..N : n \in Good
    BY <1>1, <1>6, <1>7, Keeping!Induction
  <2> QED BY <2>1, <1>1
<1>9. Agrees(N)
  BY <1>8
<1> QED BY <1>9, <1>4, <1>5

-----------------------------------------------------------------------------
(* What the scan of a page and the decoder of the model's boxes return are   *)
(* findings.                                                                 *)

LEMMA StrippedPage ==
    ASSUME NEW p \in Seq(Scanned)
    PROVE  StripForgeries(p) \in Seq(Scanned)
<1> DEFINE bare == StripForgeries(p)
<1>1. DOMAIN p = 1..Len(p) /\ Len(p) \in Nat
  OBVIOUS
<1>2. ASSUME NEW i \in DOMAIN p
      PROVE  [p[i] EXCEPT !.label = Stripped(@, {"ours", "theirs"}),
                             !.value = Stripped(@, {"ours", "theirs"}),
                             !.text = Stripped(@, {"ours", "theirs"})] \in Scanned
  <2> DEFINE el == p[i]
             a == Stripped(el.label, {"ours", "theirs"})
             b == Stripped(el.value, {"ours", "theirs"})
             c == Stripped(el.text, {"ours", "theirs"})
  <2>1. el \in Scanned
    OBVIOUS
  <2>2. el.label \in Texts /\ el.value \in Texts /\ el.text \in Texts
    BY <2>1 DEF Scanned
  <2>3. a \in Texts /\ b \in Texts /\ c \in Texts
    BY <2>2, KeptType DEF Stripped, Texts
  <2> HIDE DEF el, a, b, c
  <2>4. [el EXCEPT !.label = a, !.value = b, !.text = c] \in Scanned
    BY <2>1, <2>3 DEF Scanned
  <2> QED BY <2>4 DEF el, a, b, c
<1>3. bare = [i \in 1..Len(p) |-> bare[i]] /\ \A i \in 1..Len(p) : bare[i] \in Scanned
  BY <1>1, <1>2 DEF StripForgeries
<1> HIDE DEF bare
<1>4. bare \in Seq(Scanned)
  BY <1>1, <1>3
<1> QED BY <1>4 DEF bare

Match ==
    {m \in [kind : Names, start : Nat, end : Nat, value : Values, confidence : Int] :
        1 <= m.start /\ m.start <= m.end}

LEMMA RuleFields ==
    ASSUME NEW r \in [kind : STRING, confidence : 0..100, valid : BOOLEAN]
    PROVE  r.kind \in STRING /\ r.confidence \in Int
<1>1. r.kind \in STRING /\ r.confidence \in 0..100
  OBVIOUS
<1>2. \A n : n \in 0..100 => n \in Int
  OBVIOUS
<1> QED BY <1>1, <1>2

LEMMA ScanTextType ==
    ASSUME NEW text \in Texts, NEW least
    PROVE  ScanText(text, least) \in Seq(Match)
<1> DEFINE found == Matches(text, least)
           kept == CHOOSE f : f = [m \in found |-> \A n \in found : Stronger(n, m) /\ Overlap(n, m) => ~f[n]]
           best == {m \in found : kept[m]}
           At(i) == {m \in best : m.start = i}
           list == [i \in 1..Len(text) |-> IF At(i) = {} THEN <<>> ELSE << CHOOSE m \in At(i) : TRUE >>]
<1>1. found \subseteq Match
  <2> SUFFICES ASSUME NEW v \in Values,
                      NEW s \in 1..(Len(text) - ValueLen + 1), NEW r \in Rules[v]
               PROVE  [kind |-> r.kind, start |-> s, end |-> s + ValueLen, value |-> v,
                       confidence |-> r.confidence] \in Match
    BY DEF Matches
  <2>1. r \in [kind : STRING, confidence : 0..100, valid : BOOLEAN] /\ ValueLen \in Nat
    BY RulesAssumption
  <2>2. Len(text) \in Nat
    BY DEF Texts
  <2>3. s \in Nat /\ s + ValueLen \in Nat /\ 1 <= s /\ s <= s + ValueLen
    BY <2>1, <2>2
  <2>4. r.kind \in STRING /\ r.confidence \in Int
    BY <2>1, RuleFields
  <2> QED BY <2>3, <2>4 DEF Match, Names
<1>2. ScanText(text, least) = FlattenSeq(list)
  BY DEF ScanText
<1> HIDE DEF found, kept
<1>3. Len(text) \in Nat
  BY DEF Texts
<1>4. ASSUME NEW i \in 1..Len(text) PROVE list[i] \in Seq(Match)
  <2>1. CASE At(i) = {}
    BY <2>1
  <2>2. CASE At(i) # {}
    <3>1. (CHOOSE m \in At(i) : TRUE) \in Match
      BY <2>2, <1>1
    <3> QED BY <2>2, <3>1
  <2> QED BY <2>1, <2>2
<1> HIDE DEF At
<1>5. list \in Seq(Seq(Match))
  BY <1>3, <1>4
<1> HIDE DEF list
<1> QED BY <1>2, <1>5, FlattenType

LEMMA IdType == \A n \in Int : <<"d", n>> \in Names \X Int /\ <<"v", n>> \in Names \X Int
<1>1. \A x \in Names : \A n \in Int : <<x, n>> \in Names \X Int
  OBVIOUS
<1>2. "d" \in Names /\ "v" \in Names
  BY DEF Names
<1> QED BY <1>1, <1>2

LEMMA DetectionType ==
    ASSUME NEW p \in Seq(Scanned), NEW i \in DOMAIN p, NEW kind \in Names, NEW source \in Names,
           NEW confidence \in Int, NEW attr \in Names, NEW span \in Spans \cup {NoSpan}
    PROVE  Detection(p, i, kind, source, confidence, attr, span) \in Finding
<1>1. p[i].rect \in Rectangles \cup {NoRect} /\ i \in Nat
  <2>1. p[i] \in Scanned /\ i \in 1..Len(p) /\ Len(p) \in Nat
    OBVIOUS
  <2> QED BY <2>1 DEF Scanned
<1>2. <<"d", 0>> \in Names \X Int
  <2>1. 0 \in Int
    OBVIOUS
  <2> QED BY <2>1, IdType, ZenonT(60)
<1> QED BY <1>1, <1>2 DEF Detection, Finding

(* The text an attribute of a finding stands for, and what a finding with a  *)
(* span is of a page: what the patterns found in that text.                  *)
TextAt(els, i, attr) ==
    CASE attr = "label" -> els[i].label [] attr = "value" -> els[i].value [] OTHER -> els[i].text

Spotted(p, d) ==
    /\ d.at \in DOMAIN p /\ d.attr \in {"value", "label", "text"}
    /\ \E m \in ToSet(ScanText(TextAt(p, d.at, d.attr), 0)) : d.kind = m.kind /\ d.span = <<m.start, m.end>>

FindingOf(p) == {d \in Finding : d.span # NoSpan => Spotted(p, d)}
Sighted == {d \in Finding : d.span = NoSpan}

LEMMA FoundType ==
    ASSUME NEW p \in Seq(Scanned), NEW i \in DOMAIN p, NEW kind \in Names, NEW source \in Names,
           NEW confidence \in Int, NEW attr \in Names
    PROVE  Found(p, i, kind, source, confidence, attr) \in Seq(FindingOf(p))
<1> DEFINE d == Detection(p, i, kind, source, confidence, attr, NoSpan)
<1>1. d \in Finding /\ d.span = NoSpan
  BY DetectionType DEF Detection
<1>2. << d >> \in Seq(FindingOf(p)) /\ <<>> \in Seq(FindingOf(p))
  <2> HIDE DEF d
  <2> QED BY <1>1 DEF FindingOf
<1> QED BY <1>2 DEF Found

LEMMA InSlotType ==
    ASSUME NEW p \in Seq(Scanned), NEW i \in DOMAIN p, NEW attr \in {"value", "label", "text"},
           NEW text \in Texts, text = TextAt(p, i, attr)
    PROVE  InSlot(p, i, attr, text) \in Seq(FindingOf(p))
<1> DEFINE found == ScanText(text, 0)
           D(k) == Detection(p, i, found[k].kind, "regex", found[k].confidence, attr,
                             <<found[k].start, found[k].end>>)
<1>1. found \in Seq(Match)
  BY ScanTextType
<1>2. InSlot(p, i, attr, text) = [k \in DOMAIN found |-> D(k)]
  BY DEF InSlot
<1> HIDE DEF found
<1>3. Len(found) \in Nat /\ DOMAIN found = 1..Len(found)
  BY <1>1
<1>4. ASSUME NEW k \in DOMAIN found PROVE D(k) \in FindingOf(p)
  <2>1. found[k] \in Match
    BY <1>1
  <2>2. /\ found[k].kind \in Names /\ found[k].confidence \in Int
        /\ <<found[k].start, found[k].end>> \in Spans \cup {NoSpan}
    BY <2>1 DEF Match, Spans
  <2>3. "regex" \in Names /\ attr \in Names
    <3>1. "value" \in Names /\ "label" \in Names /\ "text" \in Names /\ "regex" \in Names
      BY ZenonT(60) DEF Names
    <3> QED BY <3>1
  <2>4. D(k) \in Finding
    BY <2>2, <2>3, DetectionType
  <2>5. found[k] \in ToSet(found)
    BY DEF ToSet
  <2>6. Spotted(p, D(k))
    <3>1. /\ D(k).at = i /\ D(k).attr = attr /\ D(k).kind = found[k].kind
          /\ D(k).span = <<found[k].start, found[k].end>>
      BY DEF Detection
    <3> HIDE DEF D
    <3> QED BY <2>5, <3>1 DEF Spotted, found
  <2> HIDE DEF D
  <2> QED BY <2>4, <2>6 DEF FindingOf
<1> HIDE DEF D
<1> QED BY <1>2, <1>3, <1>4

LEMMA EachType ==
    ASSUME NEW S, NEW p \in Seq(Scanned), NEW list, DOMAIN list = DOMAIN p,
           list = [i \in DOMAIN list |-> list[i]],
           \A i \in DOMAIN p : list[i] \in Seq(S)
    PROVE  FlattenSeq(list) \in Seq(S)
<1>1. DOMAIN p = 1..Len(p) /\ Len(p) \in Nat
  OBVIOUS
<1>2. list \in Seq(Seq(S))
  BY <1>1
<1> QED BY <1>2, FlattenType

LEMMA ScanDomType ==
    ASSUME NEW p \in Seq(Scanned)
    PROVE  ScanDom(p) \in Seq(FindingOf(p)) /\ ScanDom(p) \in Seq(Finding)
<1> DEFINE a(i) == Found(p, i, p[i].declared, "user-rule", 100, "none")
           b(i) == Found(p, i, InputKind(p[i].type), "dom-input-type",
                         IF p[i].type = "password" THEN 99 ELSE 90, "value")
           c(i) == Found(p, i, p[i].auto, "dom-autocomplete", 88, "value")
           d(i) == Found(p, i, p[i].hint, "dom-heuristic", HintConfidence(p[i].hint), "value")
           e(i) == Found(p, i, p[i].image, "dom-heuristic", ImageConfidence(p[i].image), "src")
           f(i) == InSlot(p, i, "value", p[i].value) \o InSlot(p, i, "label", p[i].label)
           g(i) == InSlot(p, i, "text", p[i].text)
           tiers == << FlattenSeq([i \in DOMAIN p |-> a(i)]), FlattenSeq([i \in DOMAIN p |-> b(i)]),
                       FlattenSeq([i \in DOMAIN p |-> c(i)]), FlattenSeq([i \in DOMAIN p |-> d(i)]),
                       FlattenSeq([i \in DOMAIN p |-> e(i)]), FlattenSeq([i \in DOMAIN p |-> f(i)]),
                       FlattenSeq([i \in DOMAIN p |-> g(i)]) >>
<1>1. Tiers(p) = tiers
  BY DEF Tiers
<1>2. ASSUME NEW i \in DOMAIN p
      PROVE  /\ a(i) \in Seq(FindingOf(p)) /\ b(i) \in Seq(FindingOf(p)) /\ c(i) \in Seq(FindingOf(p)) /\ d(i) \in Seq(FindingOf(p))
             /\ e(i) \in Seq(FindingOf(p)) /\ f(i) \in Seq(FindingOf(p)) /\ g(i) \in Seq(FindingOf(p))
  <2>1. p[i] \in Scanned
    OBVIOUS
  <2>2. /\ p[i].declared \in Names /\ p[i].type \in Names /\ p[i].auto \in Names
        /\ p[i].hint \in Names /\ p[i].image \in Names
        /\ p[i].label \in Texts /\ p[i].value \in Texts /\ p[i].text \in Texts
    <3>1. STRING \subseteq Names
      BY ZenonT(60) DEF Names
    <3>2. /\ p[i].declared \in STRING /\ p[i].type \in STRING /\ p[i].auto \in STRING
          /\ p[i].hint \in STRING /\ p[i].image \in STRING
          /\ p[i].label \in Texts /\ p[i].value \in Texts /\ p[i].text \in Texts
      BY <2>1 DEF Scanned
    <3> QED BY <3>1, <3>2
  <2>3. InputKind(p[i].type) \in Names
    BY DEF InputKind, None, Names
  <2>4. /\ (IF p[i].type = "password" THEN 99 ELSE 90) \in Int
        /\ HintConfidence(p[i].hint) \in Int /\ ImageConfidence(p[i].image) \in Int
    BY DEF HintConfidence, ImageConfidence
  <2>12. /\ "user-rule" \in Names /\ "dom-input-type" \in Names /\ "dom-autocomplete" \in Names
         /\ "dom-heuristic" \in Names /\ "none" \in Names /\ "value" \in Names /\ "src" \in Names
         /\ "label" \in Names /\ "text" \in Names
    BY DEF Names
  <2>5. a(i) \in Seq(FindingOf(p))
    <3>1. 100 \in Int
      OBVIOUS
    <3> QED BY <3>1, <2>12, <2>2, FoundType
  <2>6. b(i) \in Seq(FindingOf(p))
    BY <2>12, <2>3, <2>4, FoundType
  <2>a. 88 \in Int
    OBVIOUS
  <2>7. c(i) \in Seq(FindingOf(p))
    BY <2>12, <2>2, <2>a, FoundType
  <2>8. d(i) \in Seq(FindingOf(p))
    BY <2>12, <2>2, <2>4, FoundType
  <2>9. e(i) \in Seq(FindingOf(p))
    BY <2>12, <2>2, <2>4, FoundType
  <2>10. /\ InSlot(p, i, "value", p[i].value) \in Seq(FindingOf(p))
         /\ InSlot(p, i, "label", p[i].label) \in Seq(FindingOf(p))
         /\ InSlot(p, i, "text", p[i].text) \in Seq(FindingOf(p))
    <3>1. /\ p[i].value = TextAt(p, i, "value") /\ p[i].label = TextAt(p, i, "label")
          /\ p[i].text = TextAt(p, i, "text")
      BY DEF TextAt
    <3> QED BY <2>2, <3>1, InSlotType
  <2> QED BY <2>5, <2>6, <2>7, <2>8, <2>9, <2>10
<1> HIDE DEF a, b, c, d, e, f, g
<1>3. /\ FlattenSeq([i \in DOMAIN p |-> a(i)]) \in Seq(FindingOf(p))
      /\ FlattenSeq([i \in DOMAIN p |-> b(i)]) \in Seq(FindingOf(p))
      /\ FlattenSeq([i \in DOMAIN p |-> c(i)]) \in Seq(FindingOf(p))
      /\ FlattenSeq([i \in DOMAIN p |-> d(i)]) \in Seq(FindingOf(p))
      /\ FlattenSeq([i \in DOMAIN p |-> e(i)]) \in Seq(FindingOf(p))
      /\ FlattenSeq([i \in DOMAIN p |-> f(i)]) \in Seq(FindingOf(p))
      /\ FlattenSeq([i \in DOMAIN p |-> g(i)]) \in Seq(FindingOf(p))
  BY <1>2, EachType
<1>4. tiers \in Seq(Seq(FindingOf(p)))
  BY <1>3
<1> DEFINE all == FlattenSeq(tiers)
<1>5. all \in Seq(FindingOf(p))
  BY <1>4, FlattenType
<1>6. ScanDom(p) = [n \in DOMAIN all |-> [all[n] EXCEPT !.id = <<"d", n>>]]
  BY <1>1 DEF ScanDom
<1> HIDE DEF all
<1>7. DOMAIN all = 1..Len(all) /\ Len(all) \in Nat
  BY <1>5
<1>8. ASSUME NEW n \in DOMAIN all
      PROVE  /\ [all[n] EXCEPT !.id = <<"d", n>>] \in FindingOf(p)
             /\ [all[n] EXCEPT !.id = <<"d", n>>] \in Finding
  <2>0. all[n] \in FindingOf(p) /\ n \in Int
    BY <1>5, <1>7
  <2>1. all[n] \in Finding /\ n \in Int
    BY <2>0 DEF FindingOf
  <2> DEFINE id == <<"d", n>>
  <2>2. id \in Names \X Int
    BY <2>1, IdType, ZenonT(60)
  <2> HIDE DEF id
  <2>3. [all[n] EXCEPT !.id = id] \in Finding
    BY <2>1, <2>2 DEF Finding
  <2> DEFINE x == all[n]
             y == [x EXCEPT !.id = id]
  <2>4. y.at = x.at /\ y.attr = x.attr /\ y.kind = x.kind /\ y.span = x.span
    BY <2>1 DEF Finding
  <2>5. x \in FindingOf(p) /\ y \in Finding
    BY <2>0, <2>3
  <2> HIDE DEF x, y
  <2>6. y \in FindingOf(p)
    BY <2>4, <2>5 DEF FindingOf, Spotted
  <2> QED BY <2>3, <2>6 DEF id, x, y
<1> DEFINE marked(n) == [all[n] EXCEPT !.id = <<"d", n>>]
<1>9. \A n \in DOMAIN all : marked(n) \in FindingOf(p) /\ marked(n) \in Finding
  BY <1>8
<1>10. ScanDom(p) = [n \in DOMAIN all |-> marked(n)]
  BY <1>6
<1> HIDE DEF marked
<1> QED BY <1>7, <1>9, <1>10

Sight == [label : STRING, score : Int, rect : Rectangles]

(* A box that the model returned, before any is dropped.                     *)
LEMMA MappedType ==
    ASSUME NEW raw \in Seq(Sight)
    PROVE  LET mapped == [i \in DOMAIN raw |->
                   [id |-> <<"v", i>>, kind |-> LabelKind(raw[i].label), source |-> "vision",
                    confidence |-> raw[i].score, rect |-> ToCss(raw[i].rect, Ratio),
                    at |-> 0, attr |-> "none", span |-> NoSpan]]
           IN mapped \in Seq(Sighted) /\ mapped \in Seq(Finding) /\ \A i \in DOMAIN mapped : mapped[i].id = <<"v", i>>
<1> DEFINE D(i) == [id |-> <<"v", i>>, kind |-> LabelKind(raw[i].label), source |-> "vision",
                    confidence |-> raw[i].score, rect |-> ToCss(raw[i].rect, Ratio),
                    at |-> 0, attr |-> "none", span |-> NoSpan]
           mapped == [i \in DOMAIN raw |-> D(i)]
<1>1. DOMAIN raw = 1..Len(raw) /\ Len(raw) \in Nat
  OBVIOUS
<1>2. ASSUME NEW i \in DOMAIN raw PROVE D(i) \in Finding
  <2>1. raw[i] \in Sight /\ i \in Int
    BY <1>1
  <2>2. raw[i].score \in Int /\ raw[i].rect \in Rectangles
    BY <2>1 DEF Sight
  <2>3. ToCss(raw[i].rect, Ratio) \in Rectangles
    BY <2>2, RedactionAssumption DEF ToCss, Rectangles
  <2>4. LabelKind(raw[i].label) \in Names /\ "vision" \in Names /\ "none" \in Names
    BY DEF LabelKind, None, Names
  <2> DEFINE id == <<"v", i>>
             kind == LabelKind(raw[i].label)
             rect == ToCss(raw[i].rect, Ratio)
  <2>5. id \in Names \X Int
    BY <2>1, IdType, ZenonT(60)
  <2> HIDE DEF id, kind, rect
  <2>6. [id |-> id, kind |-> kind, source |-> "vision", confidence |-> raw[i].score, rect |-> rect,
         at |-> 0, attr |-> "none", span |-> NoSpan] \in Finding
    BY <2>2, <2>3, <2>4, <2>5 DEF Finding, kind, rect
  <2> QED BY <2>6 DEF id, kind, rect
<1>3. \A i \in DOMAIN mapped : mapped[i].id = <<"v", i>>
  OBVIOUS
<1>5. \A i \in DOMAIN raw : D(i).span = NoSpan
  OBVIOUS
<1> HIDE DEF D
<1>4. mapped \in Seq(Sighted) /\ mapped \in Seq(Finding)
  BY <1>1, <1>2, <1>5 DEF Sighted
<1> QED BY <1>3, <1>4 DEF D

LEMMA DecodedType ==
    ASSUME NEW raw \in Seq(Sight)
    PROVE  DecodeDetections(raw, Ratio, LeastScore, NmsPercent) \in Seq(Sighted)
<1> DEFINE D(i) == [id |-> <<"v", i>>, kind |-> LabelKind(raw[i].label), source |-> "vision",
                    confidence |-> raw[i].score, rect |-> ToCss(raw[i].rect, Ratio),
                    at |-> 0, attr |-> "none", span |-> NoSpan]
           mapped == [i \in DOMAIN raw |-> D(i)]
           clear == {i \in DOMAIN mapped : mapped[i].confidence >= LeastScore /\ mapped[i].kind # None}
           boxes == Kept(mapped, clear)
           of(i) == {j \in DOMAIN boxes : boxes[j].kind = boxes[i].kind}
           list == [i \in DOMAIN boxes |->
                       IF \A j \in of(i) : i <= j THEN Survivors(Kept(boxes, of(i)), NmsPercent) ELSE <<>>]
<1>3. mapped \in Seq(Sighted)
  BY MappedType
<1>4. DecodeDetections(raw, Ratio, LeastScore, NmsPercent) = ByConfidence(FlattenSeq(list))
  BY DEF DecodeDetections, NonMaxSuppression
<1> HIDE DEF mapped, clear
<1>5. boxes \in Seq(Sighted)
  BY <1>3, KeptType
<1> HIDE DEF boxes
<1>6. DOMAIN boxes = 1..Len(boxes) /\ Len(boxes) \in Nat
  BY <1>5
<1>7. ASSUME NEW i \in DOMAIN boxes PROVE list[i] \in Seq(Sighted)
  <2>1. Survivors(Kept(boxes, of(i)), NmsPercent) \in Seq(Sighted)
    BY <1>5, KeptType, SurvivorsType
  <2>2. <<>> \in Seq(Sighted)
    OBVIOUS
  <2> HIDE DEF of
  <2> QED BY <2>1, <2>2
<1> HIDE DEF of
<1>8. list \in Seq(Seq(Sighted))
  BY <1>6, <1>7
<1> HIDE DEF list
<1> QED BY <1>4, <1>8, FlattenType, ByConfidenceType

LEMMA AreaType ==
    ASSUME NEW r \in Rectangles
    PROVE  Area(r) \in Nat
<1>1. MostOf(0, r.w) \in Nat /\ MostOf(0, r.h) \in Nat
  BY DEF MostOf, Rectangles
<1> DEFINE a == MostOf(0, r.w)
           b == MostOf(0, r.h)
<1> HIDE DEF a, b
<1>2. a \in Nat /\ b \in Nat
  BY <1>1 DEF a, b
<1>3. a * b \in Nat
  BY <1>2
<1> QED BY <1>3 DEF Area, a, b

LEMMA AttachType ==
    ASSUME NEW p \in Seq(Scanned), NEW box
    PROVE  AttachToElement(box, p) \in Nat
<1> DEFINE holds == {i \in DOMAIN p : p[i].rect # NoRect /\ Inside(box.rect, p[i].rect)}
           areas == {Area(p[i].rect) : i \in holds}
           Best(i) == \A j \in holds : \/ Area(p[i].rect) < Area(p[j].rect)
                                       \/ Area(p[i].rect) = Area(p[j].rect) /\ i <= j
<1>1. holds \subseteq Nat /\ \A i \in holds : p[i].rect \in Rectangles
  <2> SUFFICES ASSUME NEW i \in holds PROVE i \in Nat /\ p[i].rect \in Rectangles
    OBVIOUS
  <2>1. p[i] \in Scanned /\ i \in 1..Len(p) /\ Len(p) \in Nat /\ p[i].rect # NoRect
    OBVIOUS
  <2> QED BY <2>1 DEF Scanned
<1>2. AttachToElement(box, p) = IF holds = {} THEN 0 ELSE CHOOSE i \in holds : Best(i)
  BY DEF AttachToElement
<1> HIDE DEF holds
<1>3. CASE holds # {}
  <2>1. areas \subseteq Nat /\ areas # {}
    BY <1>1, <1>3, AreaType
  <2>2. PICK a \in areas : \A b \in areas : a <= b
    BY <2>1, Keeping!LeastIn
  <2> DEFINE smallest == {i \in holds : Area(p[i].rect) = a}
  <2>3. smallest \subseteq Nat /\ smallest # {}
    BY <1>1
  <2>4. PICK i \in smallest : \A j \in smallest : i <= j
    BY <2>3, Keeping!LeastIn
  <2>5. ASSUME NEW j \in holds
        PROVE  \/ Area(p[i].rect) < Area(p[j].rect)
               \/ Area(p[i].rect) = Area(p[j].rect) /\ i <= j
    <3>1. Area(p[j].rect) \in Nat /\ a \in Nat /\ a <= Area(p[j].rect) /\ Area(p[i].rect) = a
      BY <1>1, <2>1, <2>2, <2>4, AreaType
    <3>2. CASE Area(p[j].rect) = a
      BY <3>1, <3>2, <2>4
    <3>3. CASE Area(p[j].rect) # a
      BY <3>1, <3>3
    <3> QED BY <3>2, <3>3
  <2>6. i \in holds /\ Best(i)
    BY <2>4, <2>5
  <2> HIDE DEF Best
  <2>7. (CHOOSE n \in holds : Best(n)) \in holds
    BY <2>6
  <2> QED BY <2>7, <1>1, <1>2, <1>3
<1> QED BY <1>2, <1>3

LEMMA CandidatesType ==
    ASSUME NEW p \in Seq(Scanned), NEW dom \in Seq(FindingOf(p)), NEW seen \in Seq(Sighted)
    PROVE  Candidates(dom, seen, p) \in Seq(FindingOf(p)) /\ Candidates(dom, seen, p) \in Seq(Finding)
<1> DEFINE attached == [i \in DOMAIN seen |-> [seen[i] EXCEPT !.at = AttachToElement(seen[i], p)]]
<1>1. DOMAIN seen = 1..Len(seen) /\ Len(seen) \in Nat
  OBVIOUS
<1>2. ASSUME NEW i \in DOMAIN seen
      PROVE  [seen[i] EXCEPT !.at = AttachToElement(seen[i], p)] \in FindingOf(p)
  <2>1. seen[i] \in Finding /\ seen[i].span = NoSpan /\ AttachToElement(seen[i], p) \in Nat
    BY AttachType DEF Sighted
  <2> DEFINE e == [seen[i] EXCEPT !.at = AttachToElement(seen[i], p)]
  <2>2. e \in Finding /\ e.span = NoSpan
    BY <2>1 DEF Finding
  <2> HIDE DEF e
  <2>3. e \in FindingOf(p)
    BY <2>2 DEF FindingOf
  <2> QED BY <2>3 DEF e
<1>3. attached \in Seq(FindingOf(p))
  BY <1>1, <1>2
<1> HIDE DEF attached
<1>4. dom \o attached \in Seq(FindingOf(p))
  BY <1>3
<1>5. Candidates(dom, seen, p) \in Seq(FindingOf(p))
  BY <1>4, ByConfidenceType DEF Candidates, attached
<1>6. \A list \in Seq(FindingOf(p)) : list \in Seq(Finding)
  <2>1. FindingOf(p) \subseteq Finding
    BY DEF FindingOf
  <2> QED BY <2>1
<1> QED BY <1>5, <1>6

-----------------------------------------------------------------------------
(* The step looks at one page and one vision from its start to its end.      *)

Inputs == page \in Pages /\ vision \in Visions

LEMMA InputsStay == PipelineSpec => []Inputs
<1>1. PipelineInit => Inputs
  BY DEF PipelineInit, Inputs
<1>2. Inputs /\ [PipelineNext]_pipelineVars => Inputs'
  BY DEF Inputs, PipelineNext, pipelineVars, DomRedact, NotBaked, Bake, Sanitize, Verify
<1> QED BY <1>1, <1>2, PTL DEF PipelineSpec

(* The findings of every page and vision are merged to the same list whether *)
(* the duplicate is looked up in the indexes or among all kept findings      *)
(* (redaction/merge.ts).                                                     *)
THEOREM IndexesLeadToTheSame == PipelineSpec => []IndexedMerge
<1>1. Inputs => IndexedMerge
  <2> SUFFICES ASSUME Inputs PROVE IndexedMerge
    OBVIOUS
  <2> DEFINE p == StripForgeries(page)
             seen == DecodeDetections(vision, Ratio, LeastScore, NmsPercent)
             all == Candidates(ScanDom(p), seen, p)
  <2>1. page \in Seq(Scanned) /\ vision \in Seq(Sight)
    BY PipelineAssumption DEF Inputs, Sight
  <2>2. p \in Seq(Scanned) /\ seen \in Seq(Sighted)
    BY <2>1, StrippedPage, DecodedType
  <2> HIDE DEF p, seen
  <2>3. all \in Seq(Finding)
    BY <2>2, ScanDomType, CandidatesType
  <2> HIDE DEF all
  <2>4. MergeIndexed(all) = MergePairs(all)
    BY <2>3, IndexesAgree
  <2> QED BY <2>4 DEF IndexedMerge, all, p, seen
<1> QED BY <1>1, InputsStay, PTL

LEMMA KeptIn ==
    ASSUME NEW S, NEW T, NEW s \in Seq(T), NEW keep, \A n \in 1..Len(s) : n \in keep => s[n] \in S
    PROVE  Kept(s, keep) \in Seq(S)
<1> DEFINE N == Len(s)
           is == [i \in 1..N |-> i]
           c == [text |-> s, keep |-> keep]
<1>1. N \in Nat /\ DOMAIN is = 1..N /\ \A n \in 1..N : is[n] = n
  OBVIOUS
<1>2. Kept(s, keep) = Keeping!Fold(c, is)
  BY DEF Kept, Keeping!Fold, Keeping!FoldOn, FoldLeft, MapThenFoldSet, Max, Keeping!Top, KeepStep
<1>3. \A n \in 1..N : \A x \in Seq(S) : KeepStep(c, x, is[n]) \in Seq(S)
  BY DEF KeepStep
<1>4. <<>> \in Seq(S)
  OBVIOUS
<1> HIDE DEF is, N, c
<1> QED BY <1>1, <1>2, <1>3, <1>4, Keeping!Stays, ZenonT(60)

LEMMA InsertedType ==
    ASSUME NEW S, NEW s \in Seq(S), NEW e \in S, NEW P \in SUBSET DOMAIN s
    PROVE  InsertAt(s, Cardinality(P) + 1, e) \in Seq(S)
<1>1. P \in SUBSET (1..Len(s)) /\ Len(s) \in Nat
  OBVIOUS
<1>2. Cardinality(P) + 1 \in 1..(Len(s) + 1)
  BY <1>1, SizeOfPart
<1> QED BY <1>2, InsertAtType

SpanStep(c, out, e) ==
    InsertAt(out, Cardinality({n \in DOMAIN out : ~(\/ FirstOf(c, e) < FirstOf(c, out[n])
                                                    \/ Slot(e) = Slot(out[n]) /\ e.span[1] > out[n].span[1])}) + 1, e)
SpanSorting == INSTANCE FoldFacts WITH Op <- SpanStep, Base <- LAMBDA c : <<>>

RemovalStep(c, out, e) ==
    InsertAt(out, Cardinality({n \in DOMAIN out : ~(e.attr # "none" /\ out[n].attr = "none")}) + 1, e)
RemovalSorting == INSTANCE FoldFacts WITH Op <- RemovalStep, Base <- LAMBDA c : <<>>

LEMMA SpanOrderType ==
    ASSUME NEW S, NEW s \in Seq(S)
    PROVE  SpanOrder(s) \in Seq(S)
<1> DEFINE N == Len(s)
<1>1. N \in Nat /\ DOMAIN s = 1..N /\ (\A n \in 1..N : s[n] \in S) /\ <<>> \in Seq(S)
  OBVIOUS
<1>2. SpanOrder(s) = SpanSorting!Fold(s, s)
  BY DEF SpanOrder, Sorted, SpanSorting!Fold, SpanSorting!FoldOn, FoldLeft, MapThenFoldSet, Max,
         SpanSorting!Top, SpanStep
<1>3. ASSUME NEW n \in 1..N, NEW x \in Seq(S) PROVE SpanStep(s, x, s[n]) \in Seq(S)
  <2>1. s[n] \in S
    BY <1>1
  <2> QED BY <2>1, InsertedType DEF SpanStep
<1> HIDE DEF N
<1> QED BY <1>1, <1>2, <1>3, SpanSorting!Stays

LEMMA RemovalsLastType ==
    ASSUME NEW S, NEW s \in Seq(S)
    PROVE  RemovalsLast(s) \in Seq(S)
<1> DEFINE N == Len(s)
<1>1. N \in Nat /\ DOMAIN s = 1..N /\ (\A n \in 1..N : s[n] \in S) /\ <<>> \in Seq(S)
  OBVIOUS
<1>2. RemovalsLast(s) = RemovalSorting!Fold(s, s)
  BY DEF RemovalsLast, Sorted, RemovalSorting!Fold, RemovalSorting!FoldOn, FoldLeft, MapThenFoldSet, Max,
         RemovalSorting!Top, RemovalStep
<1>3. ASSUME NEW n \in 1..N, NEW x \in Seq(S) PROVE RemovalStep(s, x, s[n]) \in Seq(S)
  <2>1. s[n] \in S
    BY <1>1
  <2> QED BY <2>1, InsertedType DEF RemovalStep
<1> HIDE DEF N
<1> QED BY <1>1, <1>2, <1>3, RemovalSorting!Stays

-----------------------------------------------------------------------------
(* The document while it is rewritten: the elements stay where they are, and *)
(* are what they were but for their texts.                                   *)

Tokens == Names \X Int
Shown ==
    [tag : STRING, parent : Nat, id : STRING, name : STRING, declared : STRING, type : STRING,
     auto : STRING, hint : STRING, image : STRING, label : Seq(Tokens), value : Seq(Tokens), text : Seq(Tokens),
     unrendered : BOOLEAN, rect : Rectangles \cup {NoRect}]

SameElement(a, b) ==
    /\ a.tag = b.tag /\ a.parent = b.parent /\ a.id = b.id /\ a.name = b.name /\ a.type = b.type

Els(p) == {e \in [DOMAIN p -> Shown] : \A i \in DOMAIN p : SameElement(e[i], p[i])}
Documents(p) == [els : Els(p), gone : SUBSET Nat]

LEMMA ElementSet ==
    ASSUME NEW el \in Shown, NEW text \in Seq(Tokens)
    PROVE  /\ [el EXCEPT !.label = text] \in Shown /\ SameElement([el EXCEPT !.label = text], el)
           /\ [el EXCEPT !.value = text] \in Shown /\ SameElement([el EXCEPT !.value = text], el)
           /\ [el EXCEPT !.text = text] \in Shown /\ SameElement([el EXCEPT !.text = text], el)
<1>1. /\ [el EXCEPT !.label = text] \in Shown /\ [el EXCEPT !.value = text] \in Shown
      /\ [el EXCEPT !.text = text] \in Shown
  BY DEF Shown
<1>2. /\ SameElement([el EXCEPT !.label = text], el)
      /\ SameElement([el EXCEPT !.value = text], el)
      /\ SameElement([el EXCEPT !.text = text], el)
  BY DEF Shown, SameElement
<1> QED BY <1>1, <1>2

LEMMA ElsSet ==
    ASSUME NEW p, NEW e \in Els(p), NEW i \in DOMAIN p, NEW text \in Seq(Tokens)
    PROVE  /\ [e EXCEPT ![i].label = text] \in Els(p)
           /\ [e EXCEPT ![i].value = text] \in Els(p)
           /\ [e EXCEPT ![i].text = text] \in Els(p)
<1>1. e \in [DOMAIN p -> Shown] /\ \A j \in DOMAIN p : SameElement(e[j], p[j])
  BY DEF Els
<1>2. ASSUME NEW el \in Shown, SameElement(el, e[i])
      PROVE  [e EXCEPT ![i] = el] \in Els(p)
  <2>1. [e EXCEPT ![i] = el] \in [DOMAIN p -> Shown]
    BY <1>1
  <2>2. ASSUME NEW j \in DOMAIN p PROVE SameElement([e EXCEPT ![i] = el][j], p[j])
    BY <1>1, <1>2 DEF SameElement
  <2> QED BY <2>1, <2>2 DEF Els
<1>3. e[i] \in Shown
  BY <1>1
<1>4. /\ [e EXCEPT ![i].label = text] = [e EXCEPT ![i] = [e[i] EXCEPT !.label = text]]
      /\ [e EXCEPT ![i].value = text] = [e EXCEPT ![i] = [e[i] EXCEPT !.value = text]]
      /\ [e EXCEPT ![i].text = text] = [e EXCEPT ![i] = [e[i] EXCEPT !.text = text]]
  BY <1>1
<1> QED BY <1>2, <1>3, <1>4, ElementSet

Ops(F) ==
    {o \in [id : Names \X Int, how : Names, rect : Rectangles] :
        \E d \in F : /\ d.rect # NoRect /\ o.id = d.id
                     /\ o.rect = ToDevice(Inflated(d.rect, Pad), Ratio)}
Logged == [id : Names \X Int, kind : Names, strategy : Names, applied : BOOLEAN, reason : Names]
Ordinals == UNION {[K -> Int] : K \in SUBSET Names}
States(p, F) == [doc : Documents(p), ordinals : Ordinals, ops : Seq(Ops(F)), entries : Seq(Logged)]

LEMMA CountedType ==
    ASSUME NEW o \in Ordinals, NEW kind \in Names
    PROVE  Counted(o, kind) \in Ordinals /\ Counted(o, kind)[kind] \in Int
<1>1. PICK K \in SUBSET Names : o \in [K -> Int]
  BY DEF Ordinals
<1> DEFINE c == Counted(o, kind)
           L == K \cup {kind}
<1>2. c = [k \in L |-> IF k # kind THEN o[k] ELSE IF k \in K THEN o[k] + 1 ELSE 1]
  BY <1>1 DEF Counted
<1>3. \A k \in L : (IF k # kind THEN o[k] ELSE IF k \in K THEN o[k] + 1 ELSE 1) \in Int
  BY <1>1
<1> HIDE DEF c
<1>4. c \in [L -> Int] /\ kind \in L
  BY <1>2, <1>3
<1>5. L \in SUBSET Names
  OBVIOUS
<1> HIDE DEF L
<1>6. c \in Ordinals /\ c[kind] \in Int
  BY <1>4, <1>5 DEF Ordinals
<1> QED BY <1>6 DEF c

LEMMA PlaceholderType ==
    ASSUME NEW kind \in Names, NEW n \in Int
    PROVE  Placeholder(kind, n) \in Seq(Tokens)
<1>1. \A x \in Names : \A m \in Int : <<x, m>> \in Tokens
  BY DEF Tokens
<1>2. 0 \in Int
  OBVIOUS
<1>a. "[[PII" \in Names /\ "ours" \in Names
  BY ZenonT(60) DEF Names
<1>3. <<"[[PII", 0>> \in Tokens /\ <<kind, n>> \in Tokens /\ <<"ours", 0>> \in Tokens
  BY <1>1, <1>2, <1>a, ZenonT(60)
<1> DEFINE a == <<"[[PII", 0>>
           b == <<kind, n>>
           c == <<"ours", 0>>
<1> HIDE DEF a, b, c
<1>4. a \in Tokens /\ b \in Tokens /\ c \in Tokens
  BY <1>3 DEF a, b, c
<1>5. <<a, b, c>> \in Seq(Tokens)
  BY <1>4
<1> QED BY <1>5 DEF Placeholder, Opening, a, b, c

LEMMA EntryType ==
    ASSUME NEW d \in Finding, NEW strategy \in Names, NEW applied \in BOOLEAN, NEW reason \in Names
    PROVE  Entry(d, strategy, applied, reason) \in Logged
BY DEF Finding, Entry, Logged

LEMMA SpliceType ==
    ASSUME NEW text \in Seq(Tokens), NEW span \in Spans, span[2] <= Len(text) + 1, NEW token \in Seq(Tokens)
    PROVE  Splice(text, span, token) \in Seq(Tokens)
<1>1. span[1] \in Nat /\ span[2] \in Nat /\ 1 <= span[1] /\ span[1] <= span[2]
  BY DEF Spans
<1>2. Len(text) \in Nat /\ span[1] - 1 <= Len(text)
  BY <1>1
<1>3. SubSeq(text, 1, span[1] - 1) \in Seq(Tokens)
  BY <1>1, <1>2
<1>4. SubSeq(text, span[2], Len(text)) \in Seq(Tokens)
  BY <1>1, <1>2
<1> QED BY <1>3, <1>4 DEF Splice

LEMMA SetSlotType ==
    ASSUME NEW p, NEW doc \in Documents(p), NEW d, Present(doc, d.at), NEW text \in Seq(Tokens)
    PROVE  SetSlot(doc, d, text) \in Documents(p)
<1> DEFINE e == doc.els
           i == d.at
<1>1. e \in Els(p) /\ doc.gone \in SUBSET Nat /\ DOMAIN e = DOMAIN p /\ i \in DOMAIN p
  BY DEF Documents, Els, Present
<1>2. /\ [e EXCEPT ![i].label = text] \in Els(p)
      /\ [e EXCEPT ![i].value = text] \in Els(p)
      /\ [e EXCEPT ![i].text = text] \in Els(p)
  BY <1>1, ElsSet
<1>3. \A f \in Els(p) : [doc EXCEPT !.els = f] \in Documents(p)
  BY DEF Documents
<1>4. /\ [doc EXCEPT !.els[i].label = text] = [doc EXCEPT !.els = [e EXCEPT ![i].label = text]]
      /\ [doc EXCEPT !.els[i].value = text] = [doc EXCEPT !.els = [e EXCEPT ![i].value = text]]
      /\ [doc EXCEPT !.els[i].text = text] = [doc EXCEPT !.els = [e EXCEPT ![i].text = text]]
  BY DEF Documents
<1>5. \/ SetSlot(doc, d, text) = [doc EXCEPT !.els[i].label = text]
      \/ SetSlot(doc, d, text) = [doc EXCEPT !.els[i].value = text]
      \/ SetSlot(doc, d, text) = [doc EXCEPT !.els[i].text = text]
  BY DEF SetSlot
<1>6. /\ [doc EXCEPT !.els[i].label = text] \in Documents(p)
      /\ [doc EXCEPT !.els[i].value = text] \in Documents(p)
      /\ [doc EXCEPT !.els[i].text = text] \in Documents(p)
  BY <1>2, <1>3, <1>4
<1> HIDE DEF e, i
<1> QED BY <1>5, <1>6

LEMMA SlotType ==
    ASSUME NEW p, NEW doc \in Documents(p), NEW d, Present(doc, d.at)
    PROVE  SlotText(doc, d) \in Seq(Tokens)
<1>1. doc.els[d.at] \in Shown
  BY DEF Documents, Els, Present
<1>2. /\ doc.els[d.at].label \in Seq(Tokens) /\ doc.els[d.at].value \in Seq(Tokens)
      /\ doc.els[d.at].text \in Seq(Tokens)
  BY <1>1 DEF Shown
<1> QED BY <1>2 DEF SlotText

LEMMA StateGoesOn ==
    ASSUME NEW p, NEW F, NEW state \in States(p, F),
           NEW doc \in Documents(p), NEW ordinals \in Ordinals, NEW entries \in Seq(Logged)
    PROVE  [state EXCEPT !.ordinals = ordinals, !.doc = doc, !.entries = entries] \in States(p, F)
BY DEF States

LEMMA RewriteSpanType ==
    ASSUME NEW p, NEW F \in SUBSET Finding, NEW state \in States(p, F), NEW d \in F, d.span # NoSpan
    PROVE  RewriteSpan(state, d) \in States(p, F)
<1> DEFINE found == Present(state.doc, d.at)
           ordinals == IF found THEN Counted(state.ordinals, d.kind) ELSE state.ordinals
           had == SlotText(state.doc, d)
           applies == found /\ d.span[2] <= Len(had) + 1
           doc == IF applies THEN SetSlot(state.doc, d, Splice(had, d.span, Placeholder(d.kind, ordinals[d.kind])))
                  ELSE state.doc
           reason == IF ~found THEN "gone" ELSE IF applies THEN "span" ELSE "moved"
           entries == Append(state.entries, Entry(d, "placeholder", applies, reason))
<1>1. /\ state.doc \in Documents(p) /\ state.ordinals \in Ordinals /\ state.entries \in Seq(Logged)
      /\ state = [state EXCEPT !.doc = @]
  BY DEF States
<1>2. d \in Finding /\ d.kind \in Names /\ d.span \in Spans
  <2>1. d \in Finding
    OBVIOUS
  <2> QED BY <2>1 DEF Finding
<1>3. ordinals \in Ordinals /\ (found => ordinals[d.kind] \in Int)
  BY <1>1, <1>2, CountedType
<1>4. ASSUME applies
      PROVE  SetSlot(state.doc, d, Splice(had, d.span, Placeholder(d.kind, ordinals[d.kind]))) \in Documents(p)
  <2>1. found /\ d.span[2] <= Len(had) + 1
    BY <1>4
  <2>2. had \in Seq(Tokens)
    BY <1>1, <2>1, SlotType
  <2>3. Placeholder(d.kind, ordinals[d.kind]) \in Seq(Tokens)
    BY <1>2, <1>3, <2>1, PlaceholderType
  <2> HIDE DEF had, ordinals
  <2>4. Splice(had, d.span, Placeholder(d.kind, ordinals[d.kind])) \in Seq(Tokens)
    BY <1>2, <2>1, <2>2, <2>3, SpliceType
  <2> QED BY <1>1, <2>1, <2>4, SetSlotType
<1>5. doc \in Documents(p)
  BY <1>1, <1>4
<1>6. reason \in Names /\ "placeholder" \in Names
  BY ZenonT(60) DEF Names
<1>7. applies \in BOOLEAN
  OBVIOUS
<1>8. RewriteSpan(state, d) = [state EXCEPT !.ordinals = ordinals, !.doc = doc, !.entries = entries]
  BY DEF RewriteSpan
<1> HIDE DEF applies, found, ordinals, had, doc, reason
<1>9. Entry(d, "placeholder", applies, reason) \in Logged
  BY <1>2, <1>6, <1>7, EntryType
<1>10. entries \in Seq(Logged)
  BY <1>1, <1>9
<1> HIDE DEF entries
<1>11. [state EXCEPT !.ordinals = ordinals, !.doc = doc, !.entries = entries] \in States(p, F)
  BY <1>3, <1>5, <1>10, StateGoesOn
<1> QED BY <1>8, <1>11

LEMMA OpType ==
    ASSUME NEW F \in SUBSET Finding, NEW d \in F, d.rect # NoRect, NEW how \in Names
    PROVE  OpOf(d, how) \in Ops(F)
<1>1. d.id \in Names \X Int /\ d.rect \in Rectangles
  <2>1. d \in Finding
    OBVIOUS
  <2> QED BY <2>1 DEF Finding
<1> DEFINE rect == ToDevice(Inflated(d.rect, Pad), Ratio)
<1>2. rect \in Rectangles
  <2>1. Inflated(d.rect, Pad) \in Rectangles
    BY <1>1, RedactionAssumption DEF Inflated, Rectangles
  <2> DEFINE r == Inflated(d.rect, Pad)
  <2> HIDE DEF r
  <2>2. r \in Rectangles
    BY <2>1 DEF r
  <2>3. ToDevice(r, Ratio) \in Rectangles
    BY <2>2, RedactionAssumption DEF ToDevice, Rectangles
  <2> QED BY <2>3 DEF r
<1>3. OpOf(d, how) = [id |-> d.id, how |-> how, rect |-> rect]
  BY DEF OpOf
<1>4. \E e \in F : e.rect # NoRect /\ d.id = e.id /\ rect = ToDevice(Inflated(e.rect, Pad), Ratio)
  OBVIOUS
<1> DEFINE o == [id |-> d.id, how |-> how, rect |-> rect]
<1> HIDE DEF rect
<1>5. o \in [id : Names \X Int, how : Names, rect : Rectangles] /\ o.id = d.id /\ o.rect = rect
  BY <1>1, <1>2
<1> HIDE DEF o
<1>6. o \in Ops(F)
  BY <1>4, <1>5 DEF Ops
<1> QED BY <1>3, <1>6 DEF o

LEMMA WriteControlType ==
    ASSUME NEW p, NEW doc \in Documents(p), NEW i, Present(doc, i), NEW text \in Seq(Tokens)
    PROVE  WriteControl(doc, i, text) \in Documents(p)
<1> DEFINE e == doc.els
<1>1. e \in Els(p) /\ DOMAIN e = DOMAIN p /\ i \in DOMAIN p
  BY DEF Documents, Els, Present
<1>2. [e EXCEPT ![i].value = text] \in Els(p) /\ [e EXCEPT ![i].text = text] \in Els(p)
  BY <1>1, ElsSet
<1>3. \A f \in Els(p) : [doc EXCEPT !.els = f] \in Documents(p)
  BY DEF Documents
<1>4. /\ [doc EXCEPT !.els[i].value = text] = [doc EXCEPT !.els = [e EXCEPT ![i].value = text]]
      /\ [doc EXCEPT !.els[i].text = text] = [doc EXCEPT !.els = [e EXCEPT ![i].text = text]]
  BY DEF Documents
<1>5. \/ WriteControl(doc, i, text) = [doc EXCEPT !.els[i].value = text]
      \/ WriteControl(doc, i, text) = [doc EXCEPT !.els[i].text = text]
  BY DEF WriteControl
<1>6. /\ [doc EXCEPT !.els[i].value = text] \in Documents(p)
      /\ [doc EXCEPT !.els[i].text = text] \in Documents(p)
  BY <1>2, <1>3, <1>4
<1> HIDE DEF e
<1> QED BY <1>5, <1>6

LEMMA ReplaceContentType ==
    ASSUME NEW p \in Seq(Scanned), NEW doc \in Documents(p), NEW i, Present(doc, i), NEW text \in Seq(Tokens)
    PROVE  ReplaceContent(doc, i, text) \in Documents(p)
<1> DEFINE e == doc.els
           f == [e EXCEPT ![i].text = text]
           gone == doc.gone \cup {j \in DOMAIN e : Under(e, i, j)}
<1>1. e \in Els(p) /\ DOMAIN e = DOMAIN p /\ i \in DOMAIN p /\ doc.gone \in SUBSET Nat
  BY DEF Documents, Els, Present
<1>2. f \in Els(p)
  BY <1>1, ElsSet
<1>3. DOMAIN p \subseteq Nat
  OBVIOUS
<1>4. gone \in SUBSET Nat
  BY <1>1, <1>3
<1>5. ReplaceContent(doc, i, text) = [els |-> f, gone |-> gone]
  BY DEF ReplaceContent
<1> HIDE DEF f, gone
<1> QED BY <1>2, <1>4, <1>5 DEF Documents

LEMMA StrategyType ==
    ASSUME NEW d \in Finding
    PROVE  /\ ResolveStrategy(d) \in Names
           /\ ResolveStrategy(d) \in PixelStrategies => d.rect # NoRect
<1>1. Intent(d.kind) \in {"drop-attribute", "blur", "blackout", "placeholder"}
  BY DEF Intent
<1>2. {"drop-attribute", "blur", "blackout", "placeholder"} \subseteq Names
  BY ZenonT(60) DEF Names
<1>3. \/ Intent(d.kind) \in PixelStrategies /\ d.rect # NoRect /\ ResolveStrategy(d) = Intent(d.kind)
      \/ ResolveStrategy(d) = "placeholder"
      \/ ResolveStrategy(d) = "drop-attribute"
  BY <1>1 DEF ResolveStrategy, PixelStrategies
<1> QED BY <1>1, <1>2, <1>3 DEF PixelStrategies

LEMMA StateGrows ==
    ASSUME NEW p, NEW F, NEW state \in States(p, F), NEW ordinals \in Ordinals,
           NEW ops \in Seq(Ops(F)), NEW doc \in Documents(p), NEW entries \in Seq(Logged)
    PROVE  [state EXCEPT !.ordinals = ordinals, !.ops = ops, !.doc = doc, !.entries = entries] \in States(p, F)
BY DEF States

LEMMA ApplyStrategyType ==
    ASSUME NEW p \in Seq(Scanned), NEW F \in SUBSET Finding, NEW state \in States(p, F), NEW d \in F
    PROVE  ApplyStrategy(state, d) \in States(p, F)
<1> DEFINE how == ResolveStrategy(d)
           ordinals == Counted(state.ordinals, d.kind)
           doc == state.doc
           anchored == d.at # 0 /\ Present(doc, d.at)
           painted == how \in PixelStrategies
           token == Placeholder(d.kind, ordinals[d.kind])
           ops == IF painted THEN Append(state.ops, OpOf(d, how)) ELSE state.ops
           left == IF how = "drop-attribute" THEN <<>> ELSE token
           new == IF painted \/ ~anchored THEN doc
                  ELSE CASE d.attr = "value" -> WriteControl(doc, d.at, left)
                         [] d.attr = "none" -> ReplaceContent(doc, d.at, token)
                         [] OTHER -> doc
           reason == IF painted THEN "queued" ELSE IF anchored THEN "replaced" ELSE "gone"
           logged == painted \/ anchored
           entries == Append(state.entries, Entry(d, how, logged, reason))
<1>1. /\ doc \in Documents(p) /\ state.ordinals \in Ordinals
      /\ state.entries \in Seq(Logged) /\ state.ops \in Seq(Ops(F))
  BY DEF States
<1>2. d \in Finding /\ d.kind \in Names
  <2>1. d \in Finding
    OBVIOUS
  <2> QED BY <2>1 DEF Finding
<1>3. ordinals \in Ordinals /\ ordinals[d.kind] \in Int
  BY <1>1, <1>2, CountedType
<1>4. how \in Names /\ (painted => d.rect # NoRect)
  BY <1>2, StrategyType
<1>5. ApplyStrategy(state, d) =
          [state EXCEPT !.ordinals = ordinals, !.ops = ops, !.doc = new, !.entries = entries]
  BY DEF ApplyStrategy
<1>6. logged \in BOOLEAN
  OBVIOUS
<1>7. reason \in Names
  BY ZenonT(60) DEF Names
<1> HIDE DEF how, ordinals, doc, reason, logged
<1>8. token \in Seq(Tokens)
  BY <1>2, <1>3, PlaceholderType
<1>9. ops \in Seq(Ops(F))
  <2>1. CASE painted
    <3>1. OpOf(d, how) \in Ops(F)
      BY <1>4, <2>1, OpType
    <3> QED BY <1>1, <2>1, <3>1
  <2>2. CASE ~painted
    BY <1>1, <2>2
  <2> QED BY <2>1, <2>2
<1>10. Entry(d, how, logged, reason) \in Logged
  BY <1>2, <1>4, <1>6, <1>7, EntryType
<1>11. entries \in Seq(Logged)
  BY <1>1, <1>10
<1>12. new \in Documents(p)
  <2>1. ASSUME ~painted, anchored PROVE WriteControl(doc, d.at, left) \in Documents(p)
    <3>1. left \in Seq(Tokens)
      BY <1>8
    <3> HIDE DEF left
    <3> QED BY <1>1, <2>1, <3>1, WriteControlType
  <2>2. ASSUME ~painted, anchored PROVE ReplaceContent(doc, d.at, token) \in Documents(p)
    BY <1>1, <1>8, <2>2, ReplaceContentType
  <2> HIDE DEF painted, anchored, left, token
  <2>3. \/ new = doc
        \/ ~painted /\ anchored /\ new = WriteControl(doc, d.at, left)
        \/ ~painted /\ anchored /\ new = ReplaceContent(doc, d.at, token)
    OBVIOUS
  <2> HIDE DEF new
  <2> QED BY <1>1, <2>1, <2>2, <2>3
<1> HIDE DEF ops, new, entries
<1>13. [state EXCEPT !.ordinals = ordinals, !.ops = ops, !.doc = new, !.entries = entries] \in States(p, F)
  BY <1>3, <1>9, <1>11, <1>12, StateGrows
<1> QED BY <1>5, <1>13

LEMMA TextTokens ==
    ASSUME NEW text \in Texts
    PROVE  text \in Seq(Tokens)
<1>1. STRING \X Nat \subseteq Tokens
  <2>1. \A x \in STRING : x \in Names
    BY ZenonT(60) DEF Names
  <2> SUFFICES ASSUME NEW t \in STRING \X Nat PROVE t \in Tokens
    OBVIOUS
  <2>2. t = <<t[1], t[2]>> /\ t[1] \in STRING /\ t[2] \in Nat
    OBVIOUS
  <2>3. t[1] \in Names
    BY <2>1, <2>2
  <2>4. t[2] \in Int
    BY <2>2
  <2> QED BY <2>2, <2>3, <2>4 DEF Tokens
<1>2. text \in Seq(STRING \X Nat)
  BY DEF Texts
<1> QED BY <1>1, <1>2

LEMMA UnchangedType ==
    ASSUME NEW p \in Seq(Scanned), NEW F
    PROVE  Unchanged(p) \in States(p, F)
<1>1. ASSUME NEW i \in DOMAIN p PROVE p[i] \in Shown
  <2>1. p[i] \in Scanned
    OBVIOUS
  <2>2. p[i].label \in Seq(Tokens) /\ p[i].value \in Seq(Tokens) /\ p[i].text \in Seq(Tokens)
    BY <2>1, TextTokens DEF Scanned
  <2> DEFINE el == p[i]
  <2> HIDE DEF el
  <2>3. el \in Scanned /\ el.label \in Seq(Tokens) /\ el.value \in Seq(Tokens) /\ el.text \in Seq(Tokens)
    BY <2>1, <2>2 DEF el
  <2>4. el \in Shown
    BY <2>3 DEF Scanned, Shown
  <2> QED BY <2>4 DEF el
<1>2. p \in [DOMAIN p -> Shown]
  BY <1>1
<1>3. p \in Els(p)
  BY <1>2 DEF Els, SameElement
<1>4. [k \in {} |-> 0] \in Ordinals
  <2>1. [k \in {} |-> 0] \in [{} -> Int]
    OBVIOUS
  <2>2. {} \in SUBSET Names
    OBVIOUS
  <2> QED BY <2>1, <2>2 DEF Ordinals
<1> DEFINE o == [k \in {} |-> 0]
<1> HIDE DEF o
<1>5. o \in Ordinals
  BY <1>4 DEF o
<1>6. [doc |-> [els |-> p, gone |-> {}], ordinals |-> o, ops |-> <<>>, entries |-> <<>>] \in States(p, F)
  BY <1>3, <1>5 DEF States, Documents
<1> QED BY <1>6 DEF Unchanged, o

Rewriting == INSTANCE FoldFacts WITH Op <- LAMBDA c, state, d : RewriteSpan(state, d), Base <- LAMBDA c : c
Applying == INSTANCE FoldFacts WITH Op <- LAMBDA c, state, d : ApplyStrategy(state, d), Base <- LAMBDA c : c

LEMMA RewrittenType ==
    ASSUME NEW p \in Seq(Scanned), NEW F \in SUBSET Finding, NEW applicable \in Seq(F)
    PROVE  Rewritten(p, applicable) \in States(p, F)
<1> DEFINE S == {d \in F : d.span # NoSpan}
           inTexts == {n \in DOMAIN applicable : applicable[n].span # NoSpan /\ applicable[n].at # 0}
           others == {n \in DOMAIN applicable : applicable[n].span = NoSpan}
           spans == SpanOrder(Kept(applicable, inTexts))
           rest == RemovalsLast(Kept(applicable, others))
           start == Unchanged(p)
           middle == Rewriting!Fold(start, spans)
           N == Len(spans)
           M == Len(rest)
<1>1. \A n \in 1..Len(applicable) : applicable[n] \in F
  OBVIOUS
<1>2. Kept(applicable, inTexts) \in Seq(S)
  <2>1. \A n \in 1..Len(applicable) : n \in inTexts => applicable[n] \in S
    BY <1>1
  <2> HIDE DEF inTexts, S
  <2> QED BY <2>1, KeptIn
<1>3. Kept(applicable, others) \in Seq(F)
  BY KeptType
<1>4. spans \in Seq(S) /\ rest \in Seq(F)
  BY <1>2, <1>3, SpanOrderType, RemovalsLastType
<1>5. Rewritten(p, applicable) = Applying!Fold(middle, rest)
  <2>1. Rewritten(p, applicable) = FoldLeft(ApplyStrategy, FoldLeft(RewriteSpan, start, spans), rest)
    BY DEF Rewritten, Those
  <2> HIDE DEF spans, rest, start
  <2>2. FoldLeft(RewriteSpan, start, spans) = middle
    BY DEF Rewriting!Fold, Rewriting!FoldOn, FoldLeft, MapThenFoldSet, Max, Rewriting!Top
  <2> HIDE DEF middle
  <2>3. FoldLeft(ApplyStrategy, middle, rest) = Applying!Fold(middle, rest)
    BY DEF Applying!Fold, Applying!FoldOn, FoldLeft, MapThenFoldSet, Max, Applying!Top
  <2> QED BY <2>1, <2>2, <2>3
<1> HIDE DEF spans, rest, start, inTexts, others, S
<1>6. N \in Nat /\ DOMAIN spans = 1..N /\ M \in Nat /\ DOMAIN rest = 1..M
  BY <1>4
<1>7. \A n \in 1..N : spans[n] \in F /\ spans[n].span # NoSpan
  <2>1. \A n \in 1..N : spans[n] \in S
    BY <1>4
  <2> QED BY <2>1 DEF S
<1>8. \A n \in 1..M : rest[n] \in F
  BY <1>4
<1>9. start \in States(p, F)
  BY UnchangedType DEF start
<1> HIDE DEF N, M
<1>10. \A n \in 1..N : \A x \in States(p, F) : RewriteSpan(x, spans[n]) \in States(p, F)
  BY <1>7, RewriteSpanType
<1>11. middle \in States(p, F)
  BY <1>6, <1>9, <1>10, Rewriting!Stays
<1> HIDE DEF middle
<1>12. \A n \in 1..M : \A x \in States(p, F) : ApplyStrategy(x, rest[n]) \in States(p, F)
  BY <1>8, ApplyStrategyType
<1>13. Applying!Fold(middle, rest) \in States(p, F)
  BY <1>6, <1>11, <1>12, Applying!Stays
<1> QED BY <1>5, <1>13

LEMMA MergedType ==
    ASSUME NEW all \in Seq(Finding)
    PROVE  MergeIndexed(all) \in Seq(Finding)
BY IndexesAgree

(* Stripping what looks like a placeholder leaves the elements what they are.*)
LEMMA DocumentOfPage ==
    ASSUME NEW raw \in Seq(Scanned), NEW doc \in Documents(StripForgeries(raw))
    PROVE  doc \in Documents(raw)
<1> DEFINE p == StripForgeries(raw)
<1>1. DOMAIN p = DOMAIN raw
  BY DEF StripForgeries
<1>2. ASSUME NEW i \in DOMAIN raw PROVE SameElement(p[i], raw[i])
  <2>1. raw[i] \in Scanned
    OBVIOUS
  <2> QED BY <2>1 DEF StripForgeries, SameElement, Scanned
<1> HIDE DEF p
<1>3. doc.els \in [DOMAIN raw -> Shown] /\ \A i \in DOMAIN raw : SameElement(doc.els[i], p[i])
  BY <1>1 DEF Documents, Els, p
<1>4. \A i \in DOMAIN raw : SameElement(doc.els[i], raw[i])
  BY <1>2, <1>3 DEF SameElement
<1>5. doc.els \in Els(raw)
  BY <1>3, <1>4 DEF Els
<1> QED BY <1>5 DEF Documents

(* The selector computed on a rewritten document leads, on the page, to its  *)
(* element or to one the rewriting took away.                                *)
LEMMA SelectorLeadsHome ==
    ASSUME NEW p \in Seq(Scanned), NEW doc \in Documents(p), NEW i \in DOMAIN p
    PROVE  ResolveSelector(p, RobustRefSelector(doc, i)) \in {i} \cup doc.gone
<1> DEFINE s == RobustRefSelector(doc, i)
           Hit(j) == CASE s.by = "id" -> p[j].tag = s.tag /\ p[j].id = s.key
                       [] s.by = "name" -> p[j].tag = s.tag /\ p[j].name = s.key
                       [] OTHER -> j = s.at
           hits == {j \in DOMAIN p : Hit(j)}
           First(j) == \A k \in hits : j <= k
<1>1. ResolveSelector(p, s) = IF hits = {} THEN 0 ELSE CHOOSE j \in hits : First(j)
  BY DEF ResolveSelector
<1>2. DOMAIN doc.els = DOMAIN p /\ \A j \in DOMAIN p : SameElement(doc.els[j], p[j])
  BY DEF Documents, Els
<1>3. \A j \in DOMAIN p : doc.els[j].id = p[j].id /\ doc.els[j].tag = p[j].tag /\ doc.els[j].name = p[j].name
  BY <1>2 DEF SameElement
<1>4. DOMAIN p \subseteq Nat /\ DOMAIN p = 1..Len(p) /\ Len(p) \in Nat
  OBVIOUS
<1>5. i \in hits /\ \A j \in hits : j <= i => j = i \/ j \in doc.gone
  <2>1. CASE ById(doc, i)
    <3>1. s = [by |-> "id", tag |-> p[i].tag, key |-> p[i].id, at |-> 0]
      BY <1>3, <2>1 DEF RobustRefSelector
    <3> HIDE DEF s
    <3>2. \A j \in DOMAIN p : Hit(j) <=> p[j].tag = p[i].tag /\ p[j].id = p[i].id
      BY <3>1
    <3> HIDE DEF Hit
    <3>3. ASSUME NEW j \in hits, j < i PROVE j \in doc.gone
      <4>1. j \in 1..(i - 1) /\ j \in DOMAIN p /\ doc.els[j].id = doc.els[i].id
        BY <1>3, <1>4, <3>2, <3>3
      <4> QED BY <4>1, <1>2, <2>1 DEF ById, Present
    <3>4. ASSUME NEW j \in hits, j <= i, j # i PROVE j < i
      BY <1>4, <3>4
    <3> QED BY <3>2, <3>3, <3>4
  <2>2. CASE ~ById(doc, i) /\ ByName(doc, i)
    <3>1. s = [by |-> "name", tag |-> p[i].tag, key |-> p[i].name, at |-> 0]
      BY <1>3, <2>2 DEF RobustRefSelector
    <3> HIDE DEF s
    <3>2. \A j \in DOMAIN p : Hit(j) <=> p[j].tag = p[i].tag /\ p[j].name = p[i].name
      BY <3>1
    <3> HIDE DEF Hit
    <3>3. ASSUME NEW j \in hits, j # i PROVE j \in doc.gone
      <4>1. j \in DOMAIN p /\ doc.els[j].name = doc.els[i].name /\ doc.els[j].tag = doc.els[i].tag
        BY <1>3, <3>2, <3>3
      <4> QED BY <4>1, <1>2, <2>2, <3>3 DEF ByName, Present
    <3> QED BY <3>2, <3>3
  <2>3. CASE ~ById(doc, i) /\ ~ByName(doc, i)
    <3>1. s = [by |-> "path", tag |-> p[i].tag, key |-> None, at |-> i]
      BY <1>3, <2>3 DEF RobustRefSelector
    <3> HIDE DEF s
    <3>2. \A j \in DOMAIN p : Hit(j) <=> j = i
      BY <3>1
    <3> HIDE DEF Hit
    <3> QED BY <3>2
  <2> QED BY <2>1, <2>2, <2>3
<1> HIDE DEF Hit
<1>6. hits \subseteq Nat
  BY <1>4
<1> HIDE DEF hits
<1>7. PICK j \in hits : First(j)
  BY <1>5, <1>6, Keeping!LeastIn
<1> DEFINE h == CHOOSE k \in hits : First(k)
<1>8. h \in hits /\ First(h)
  BY <1>7
<1> HIDE DEF h
<1>9. h <= i
  BY <1>5, <1>8
<1>10. h = i \/ h \in doc.gone
  BY <1>5, <1>8, <1>9
<1> QED BY <1>1, <1>5, <1>10 DEF h

-----------------------------------------------------------------------------
(* No two findings of a list have one id: ids are given once, and what sorts,*)
(* keeps and merges findings repeats none.                                   *)

Distinct(s) == \A i, j \in DOMAIN s : s[i].id = s[j].id => i = j
Ids(s) == {s[i].id : i \in DOMAIN s}

(* The lists over S without a repeated id and with ids of I only.            *)
Own(S, I) == {s \in Seq(S) : Distinct(s) /\ Ids(s) \subseteq I}

(* The ids of the first n findings.                                          *)
Before(s, n) == {s[k].id : k \in 1..n}

LEMMA BeforeGrows ==
    ASSUME NEW S, NEW s \in Seq(S), Distinct(s), NEW n \in 1..Len(s)
    PROVE  s[n].id \notin Before(s, n - 1) /\ Before(s, n) = Before(s, n - 1) \cup {s[n].id}
<1>1. DOMAIN s = 1..Len(s) /\ Len(s) \in Nat
  OBVIOUS
<1>2. 1..n = (1..(n - 1)) \cup {n} /\ 1..n \subseteq DOMAIN s /\ n \notin 1..(n - 1)
  BY <1>1
<1>3. s[n].id \notin Before(s, n - 1)
  BY <1>2 DEF Before, Distinct
<1>4. Before(s, n) = Before(s, n - 1) \cup {s[n].id}
  BY <1>2 DEF Before
<1> QED BY <1>3, <1>4

LEMMA BeforeAll ==
    ASSUME NEW S, NEW s \in Seq(S)
    PROVE  Before(s, 0) = {} /\ Before(s, Len(s)) = Ids(s)
<1>1. DOMAIN s = 1..Len(s) /\ 1..0 = {}
  OBVIOUS
<1> QED BY <1>1 DEF Before, Ids

LEMMA AppendOwn ==
    ASSUME NEW S, NEW I, NEW s \in Own(S, I), NEW e \in S, e.id \notin I
    PROVE  Append(s, e) \in Own(S, I \cup {e.id})
<1> DEFINE t == Append(s, e)
<1>1. s \in Seq(S) /\ Distinct(s) /\ Ids(s) \subseteq I
  BY DEF Own
<1>2. /\ t \in Seq(S) /\ DOMAIN t = 1..(Len(s) + 1) /\ Len(s) \in Nat /\ DOMAIN s = 1..Len(s)
      /\ \A k \in 1..(Len(s) + 1) : t[k] = IF k = Len(s) + 1 THEN e ELSE s[k]
  BY <1>1
<1> HIDE DEF t
<1>3. \A k \in DOMAIN s : s[k].id \in I /\ s[k].id # e.id
  BY <1>1 DEF Ids
<1>4. Ids(t) \subseteq I \cup {e.id}
  BY <1>2, <1>3 DEF Ids
<1>5. Distinct(t)
  BY <1>1, <1>2, <1>3 DEF Distinct
<1> QED BY <1>2, <1>4, <1>5 DEF Own, t

LEMMA InsertedAt ==
    ASSUME NEW S, NEW s \in Seq(S), NEW i \in 1..(Len(s) + 1), NEW e \in S
    PROVE  /\ InsertAt(s, i, e) \in Seq(S) /\ Len(InsertAt(s, i, e)) = Len(s) + 1
           /\ \A k \in 1..(Len(s) + 1) :
                 InsertAt(s, i, e)[k] = IF k < i THEN s[k] ELSE IF k = i THEN e ELSE s[k - 1]
<1> DEFINE t == InsertAt(s, i, e)
           N == Len(s)
           a == SubSeq(s, 1, i - 1)
           b == SubSeq(s, i, N)
<1>1. N \in Nat /\ i \in 1..(N + 1) /\ t \in Seq(S)
  BY InsertAtType
<1>2. a \in Seq(S) /\ Len(a) = i - 1 /\ \A k \in 1..(i - 1) : a[k] = s[k]
  BY <1>1
<1>3. b \in Seq(S) /\ Len(b) = N - i + 1 /\ \A k \in 1..(N - i + 1) : b[k] = s[k + i - 1]
  BY <1>1
<1> HIDE DEF a, b
<1> DEFINE c == a \o <<e>>
<1>4. t = c \o b
  BY DEF InsertAt, a, b
<1>5. c \in Seq(S) /\ Len(c) = i /\ \A k \in 1..i : c[k] = IF k < i THEN s[k] ELSE e
  BY <1>1, <1>2
<1> HIDE DEF t, c
<1>6. t \in Seq(S) /\ Len(t) = N + 1
  BY <1>1, <1>3, <1>4, <1>5
<1>7. ASSUME NEW k \in 1..(N + 1) PROVE t[k] = IF k <= i THEN c[k] ELSE b[k - i]
  <2>1. Len(c) + Len(b) = N + 1 /\ Len(c) = i
    BY <1>1, <1>3, <1>5
  <2>2. k \in 1..(Len(c) + Len(b)) => t[k] = IF k <= Len(c) THEN c[k] ELSE b[k - Len(c)]
    <3>1. c \in Seq(S) /\ b \in Seq(S) /\ t = c \o b
      BY <1>3, <1>4, <1>5
    <3> QED BY <3>1
  <2> QED BY <2>1, <2>2
<1>8. ASSUME NEW k \in 1..(N + 1) PROVE t[k] = IF k < i THEN s[k] ELSE IF k = i THEN e ELSE s[k - 1]
  <2>1. CASE k <= i
    BY <1>5, <1>7, <2>1, <1>1
  <2>2. CASE k > i
    <3>1. k - i \in 1..(N - i + 1) /\ (k - i) + i - 1 = k - 1
      BY <2>2, <1>1
    <3> QED BY <1>3, <1>7, <2>2, <3>1, <1>1
  <2> QED BY <2>1, <2>2, <1>1
<1> QED BY <1>6, <1>8 DEF t

LEMMA InsertOwn ==
    ASSUME NEW S, NEW I, NEW s \in Own(S, I), NEW i \in 1..(Len(s) + 1), NEW e \in S, e.id \notin I
    PROVE  InsertAt(s, i, e) \in Own(S, I \cup {e.id})
<1> DEFINE t == InsertAt(s, i, e)
           N == Len(s)
<1>1. s \in Seq(S) /\ Distinct(s) /\ Ids(s) \subseteq I
  BY DEF Own
<1>2. N \in Nat /\ DOMAIN s = 1..N
  BY <1>1
<1>3. t \in Seq(S) /\ Len(t) = N + 1
  BY <1>1, InsertedAt
<1>4. DOMAIN t = 1..(N + 1) /\ \A k \in 1..(N + 1) : t[k] = IF k < i THEN s[k] ELSE IF k = i THEN e ELSE s[k - 1]
  <2>1. \A k \in 1..(N + 1) : t[k] = IF k < i THEN s[k] ELSE IF k = i THEN e ELSE s[k - 1]
    BY <1>1, InsertedAt
  <2> HIDE DEF t, N
  <2>2. DOMAIN t = 1..(N + 1)
    BY <1>3
  <2> QED BY <2>1, <2>2
<1> HIDE DEF t, N
<1>5. \A k \in DOMAIN s : s[k].id \in I /\ s[k].id # e.id
  BY <1>1 DEF Ids
<1>6. ASSUME NEW k \in 1..(N + 1)
      PROVE  \/ k = i /\ t[k] = e
             \/ k < i /\ k \in DOMAIN s /\ t[k] = s[k]
             \/ k > i /\ k - 1 \in DOMAIN s /\ t[k] = s[k - 1]
  BY <1>2, <1>4 DEF N
<1>7. Ids(t) \subseteq I \cup {e.id}
  BY <1>4, <1>5, <1>6 DEF Ids
<1>8. Distinct(t)
  <2> SUFFICES ASSUME NEW k \in 1..(N + 1), NEW m \in 1..(N + 1), t[k].id = t[m].id PROVE k = m
    BY <1>4 DEF Distinct
  <2>1. \A p, q \in DOMAIN s : s[p].id = s[q].id => p = q
    BY <1>1 DEF Distinct
  <2>2. (k = i) <=> (m = i)
    BY <1>5, <1>6
  <2>3. CASE k # i
    <3>1. PICK p \in DOMAIN s : t[k] = s[p] /\ p = IF k < i THEN k ELSE k - 1
      BY <1>6, <2>3
    <3>2. PICK q \in DOMAIN s : t[m] = s[q] /\ q = IF m < i THEN m ELSE m - 1
      BY <1>6, <2>2, <2>3
    <3>3. p = q
      BY <2>1, <3>1, <3>2
    <3> QED BY <1>2, <2>2, <2>3, <3>1, <3>2, <3>3
  <2> QED BY <2>2, <2>3
<1> QED BY <1>3, <1>7, <1>8 DEF Own, t

LEMMA OwnMore ==
    ASSUME NEW S, NEW I, NEW J, I \subseteq J, NEW s \in Own(S, I)
    PROVE  s \in Own(S, J)
BY DEF Own

LEMMA OwnNothing ==
    ASSUME NEW S, NEW I
    PROVE  <<>> \in Own(S, I)
BY DEF Own, Distinct, Ids

LEMMA ByConfidenceOwn ==
    ASSUME NEW S, NEW I, NEW s \in Own(S, I)
    PROVE  ByConfidence(s) \in Own(S, I)
<1> DEFINE N == Len(s)
           T == [n \in 0..N |-> Own(S, Before(s, n))]
<1>0. s \in Seq(S) /\ Distinct(s) /\ Ids(s) \subseteq I
  BY DEF Own
<1>1. N \in Nat /\ DOMAIN s = 1..N /\ \A n \in 1..N : s[n] \in S
  BY <1>0
<1>2. ByConfidence(s) = Sorting!Fold(0, s)
  BY DEF ByConfidence, Sorted, Sorting!Fold, Sorting!FoldOn, FoldLeft, MapThenFoldSet, Max, Sorting!Top,
         SortStep
<1>3. ASSUME NEW n \in 1..N, NEW x \in T[n - 1] PROVE SortStep(0, x, s[n]) \in T[n]
  <2> DEFINE P == {k \in DOMAIN x : ~(s[n].confidence > x[k].confidence)}
             J == Before(s, n - 1)
  <2>1. T[n - 1] = Own(S, J) /\ T[n] = Own(S, Before(s, n))
    BY <1>1
  <2>2. x \in Own(S, J)
    BY <2>1
  <2>3. x \in Seq(S)
    BY <2>2 DEF Own
  <2>4. P \in SUBSET (1..Len(x)) /\ Len(x) \in Nat
    BY <2>3
  <2>5. s[n].id \notin J /\ Before(s, n) = J \cup {s[n].id}
    BY <1>0, BeforeGrows
  <2> HIDE DEF P, J
  <2>6. Cardinality(P) + 1 \in 1..(Len(x) + 1)
    BY <2>4, SizeOfPart
  <2>7. InsertAt(x, Cardinality(P) + 1, s[n]) \in Own(S, J \cup {s[n].id})
    BY <2>2, <2>5, <2>6, <1>1, InsertOwn
  <2> QED BY <2>1, <2>5, <2>7 DEF SortStep, P
<1>4. <<>> \in T[0]
  <2>1. T[0] = Own(S, Before(s, 0))
    BY <1>1
  <2> QED BY <2>1, OwnNothing
<1>5. T[N] = Own(S, Ids(s))
  BY <1>0, <1>1, BeforeAll
<1> HIDE DEF T, N
<1>6. Sorting!Fold(0, s) \in T[N]
  BY <1>1, <1>3, <1>4, Sorting!Passes
<1> QED BY <1>0, <1>2, <1>5, <1>6, OwnMore

LEMMA KeptOwn ==
    ASSUME NEW S, NEW I, NEW s \in Own(S, I), NEW keep
    PROVE  Kept(s, keep) \in Own(S, I)
<1> DEFINE N == Len(s)
           is == [i \in 1..N |-> i]
           c == [text |-> s, keep |-> keep]
           T == [n \in 0..N |-> Own(S, Before(s, n))]
<1>0. s \in Seq(S) /\ Distinct(s) /\ Ids(s) \subseteq I
  BY DEF Own
<1>1. N \in Nat /\ DOMAIN is = 1..N /\ (\A n \in 1..N : is[n] = n) /\ \A n \in 1..N : s[n] \in S
  BY <1>0
<1>2. Kept(s, keep) = Keeping!Fold(c, is)
  BY DEF Kept, Keeping!Fold, Keeping!FoldOn, FoldLeft, MapThenFoldSet, Max, Keeping!Top, KeepStep
<1>3. ASSUME NEW n \in 1..N, NEW x \in T[n - 1] PROVE KeepStep(c, x, is[n]) \in T[n]
  <2> DEFINE J == Before(s, n - 1)
  <2>1. T[n - 1] = Own(S, J) /\ T[n] = Own(S, Before(s, n))
    BY <1>1
  <2>2. s[n].id \notin J /\ Before(s, n) = J \cup {s[n].id}
    BY <1>0, BeforeGrows
  <2>3. KeepStep(c, x, is[n]) = IF n \in keep THEN Append(x, s[n]) ELSE x
    BY <1>1 DEF KeepStep
  <2> HIDE DEF J, T
  <2>4. x \in Own(S, J)
    BY <2>1
  <2>5. Append(x, s[n]) \in Own(S, J \cup {s[n].id})
    BY <2>2, <2>4, <1>1, AppendOwn
  <2>6. x \in Own(S, J \cup {s[n].id})
    BY <2>4, OwnMore
  <2> QED BY <2>1, <2>2, <2>3, <2>5, <2>6
<1>4. <<>> \in T[0]
  <2>1. T[0] = Own(S, Before(s, 0))
    BY <1>1
  <2> QED BY <2>1, OwnNothing
<1>5. T[N] = Own(S, Ids(s))
  BY <1>0, <1>1, BeforeAll
<1> HIDE DEF T, N, is, c
<1>6. Keeping!Fold(c, is) \in T[N]
  BY <1>1, <1>3, <1>4, Keeping!Passes
<1> QED BY <1>0, <1>2, <1>5, <1>6, OwnMore

LEMMA SurvivorsOwn ==
    ASSUME NEW S, NEW I, NEW s \in Own(S, I), NEW percent
    PROVE  Survivors(s, percent) \in Own(S, I)
<1> DEFINE list == ByConfidence(s)
           N == Len(list)
           T == [n \in 0..N |-> Own(S, Before(list, n))]
<1>0. list \in Own(S, I)
  BY ByConfidenceOwn
<1>2. Survivors(s, percent) = Surviving!Fold(percent, list)
  BY DEF Survivors, Surviving!Fold, Surviving!FoldOn, FoldLeft, MapThenFoldSet, Max, Surviving!Top, SurviveStep
<1> HIDE DEF list
<1>a. list \in Seq(S) /\ Distinct(list) /\ Ids(list) \subseteq I
  BY <1>0 DEF Own
<1>1. N \in Nat /\ DOMAIN list = 1..N /\ \A n \in 1..N : list[n] \in S
  BY <1>a
<1>3. ASSUME NEW n \in 1..N, NEW x \in T[n - 1] PROVE SurviveStep(percent, x, list[n]) \in T[n]
  <2> DEFINE J == Before(list, n - 1)
  <2>1. T[n - 1] = Own(S, J) /\ T[n] = Own(S, Before(list, n))
    BY <1>1
  <2>2. list[n].id \notin J /\ Before(list, n) = J \cup {list[n].id}
    BY <1>a, BeforeGrows
  <2>3. \/ SurviveStep(percent, x, list[n]) = Append(x, list[n])
        \/ SurviveStep(percent, x, list[n]) = x
    BY DEF SurviveStep
  <2> HIDE DEF J, T
  <2>4. x \in Own(S, J)
    BY <2>1
  <2>5. Append(x, list[n]) \in Own(S, J \cup {list[n].id})
    BY <2>2, <2>4, <1>1, AppendOwn
  <2>6. x \in Own(S, J \cup {list[n].id})
    BY <2>4, OwnMore
  <2> QED BY <2>1, <2>2, <2>3, <2>5, <2>6
<1>4. <<>> \in T[0]
  <2>1. T[0] = Own(S, Before(list, 0))
    BY <1>1
  <2> QED BY <2>1, OwnNothing
<1>5. T[N] = Own(S, Ids(list))
  BY <1>a, <1>1, BeforeAll
<1> HIDE DEF T, N
<1>6. Surviving!Fold(percent, list) \in T[N]
  BY <1>1, <1>3, <1>4, Surviving!Passes
<1> QED BY <1>a, <1>2, <1>5, <1>6, OwnMore

LEMMA ConcatOwn ==
    ASSUME NEW S, NEW I, NEW J, I \cap J = {}, NEW a \in Own(S, I), NEW b \in Own(S, J)
    PROVE  a \o b \in Own(S, I \cup J)
<1> DEFINE t == a \o b
<1>1. a \in Seq(S) /\ b \in Seq(S) /\ Distinct(a) /\ Distinct(b) /\ Ids(a) \subseteq I /\ Ids(b) \subseteq J
  BY DEF Own
<1>2. /\ DOMAIN t = 1..(Len(a) + Len(b)) /\ t \in Seq(S)
      /\ \A k \in 1..(Len(a) + Len(b)) : t[k] = IF k <= Len(a) THEN a[k] ELSE b[k - Len(a)]
  <2>1. a \in Seq(S) /\ b \in Seq(S)
    BY <1>1
  <2> QED BY <2>1
<1>3. Len(a) \in Nat /\ Len(b) \in Nat /\ DOMAIN a = 1..Len(a) /\ DOMAIN b = 1..Len(b)
  BY <1>1
<1> HIDE DEF t
<1>4. ASSUME NEW k \in DOMAIN t
      PROVE  \/ k \in DOMAIN a /\ t[k] = a[k] /\ t[k].id \in I
             \/ k - Len(a) \in DOMAIN b /\ t[k] = b[k - Len(a)] /\ t[k].id \in J
  <2>1. CASE k <= Len(a)
    <3>1. k \in DOMAIN a /\ t[k] = a[k]
      BY <1>2, <1>3, <2>1
    <3> QED BY <3>1, <1>1 DEF Ids
  <2>2. CASE k > Len(a)
    <3>1. k - Len(a) \in DOMAIN b /\ t[k] = b[k - Len(a)]
      BY <1>2, <1>3, <2>2
    <3> QED BY <3>1, <1>1 DEF Ids
  <2> QED BY <2>1, <2>2, <1>2, <1>3
<1>5. Ids(t) \subseteq I \cup J
  BY <1>4 DEF Ids
<1>6. Distinct(t)
  <2> SUFFICES ASSUME NEW k \in DOMAIN t, NEW m \in DOMAIN t, t[k].id = t[m].id PROVE k = m
    BY DEF Distinct
  <2>1. k \in Nat /\ m \in Nat
    BY <1>2, <1>3
  <2>2. CASE t[k].id \in I
    <3>1. k \in DOMAIN a /\ t[k] = a[k] /\ m \in DOMAIN a /\ t[m] = a[m]
      BY <1>4, <2>2
    <3> QED BY <3>1, <1>1 DEF Distinct
  <2>3. CASE t[k].id \notin I
    <3>1. /\ k - Len(a) \in DOMAIN b /\ t[k] = b[k - Len(a)]
          /\ m - Len(a) \in DOMAIN b /\ t[m] = b[m - Len(a)]
      BY <1>4, <2>3
    <3>2. k - Len(a) = m - Len(a)
      BY <3>1, <1>1 DEF Distinct
    <3> QED BY <3>2, <2>1, <1>3
  <2> QED BY <2>2, <2>3
<1> QED BY <1>2, <1>5, <1>6 DEF Own, t

LEMMA FlattenOwn ==
    ASSUME NEW S, NEW I, NEW ss \in Seq(Seq(S)), NEW of, \A n \in DOMAIN ss : of[n] \subseteq I,
           \A n \in DOMAIN ss : ss[n] \in Own(S, of[n]),
           \A n, m \in DOMAIN ss : n # m => of[n] \cap of[m] = {}
    PROVE  FlattenSeq(ss) \in Own(S, I)
<1> DEFINE N == Len(ss)
           U(n) == UNION {of[k] : k \in 1..n}
<1>0. N \in Nat /\ DOMAIN ss = 1..N
  OBVIOUS
<1>1. CASE ss = <<>>
  <2>1. Len(ss) = 0
    BY <1>1
  <2>2. FlattenSeq(ss) = <<>>
    BY <1>1, <2>1 DEF FlattenSeq
  <2> QED BY <2>2, OwnNothing
<1>2. CASE ss # <<>>
  <2>1. PICK flat : /\ \A n \in 1..Len(ss) : flat[n] = IF n = 1 THEN ss[n] ELSE flat[n - 1] \o ss[n]
                    /\ FlattenSeq(ss) = flat[Len(ss)]
    BY <1>2, FlattenRun
  <2> DEFINE Good == {n \in 0..N : n = 0 \/ flat[n] \in Own(S, U(n))}
  <2>2. 0 \in Good
    BY <1>0
  <2>3. ASSUME NEW n \in 1..N, n - 1 \in Good PROVE n \in Good
    <3>1. flat[n] = IF n = 1 THEN ss[n] ELSE flat[n - 1] \o ss[n]
      BY <2>1
    <3>2. ss[n] \in Own(S, of[n])
      BY <1>0
    <3>3. U(n) = U(n - 1) \cup of[n]
      <4>1. 1..n = (1..(n - 1)) \cup {n}
        BY <1>0
      <4> QED BY <4>1
    <3>4. U(n - 1) \cap of[n] = {}
      <4>1. \A k \in 1..(n - 1) : k \in DOMAIN ss /\ n \in DOMAIN ss /\ k # n
        BY <1>0
      <4> QED BY <4>1
    <3> DEFINE V == U(n - 1)
    <3> HIDE DEF U
    <3>5. CASE n = 1
      <4>1. ss[n] \in Own(S, U(n))
        BY <3>2, <3>3, OwnMore
      <4> QED BY <4>1, <3>1, <3>5
    <3>6. CASE n # 1
      <4>1. flat[n - 1] \in Own(S, V)
        BY <3>6, <2>3
      <4>3. V \cap of[n] = {}
        BY <3>4
      <4> HIDE DEF V
      <4>2. flat[n - 1] \o ss[n] \in Own(S, V \cup of[n])
        BY <3>2, <4>1, <4>3, ConcatOwn, ZenonT(60)
      <4>4. flat[n] = flat[n - 1] \o ss[n] /\ U(n) = V \cup of[n]
        BY <3>1, <3>3, <3>6 DEF V
      <4>5. flat[n] \in Own(S, U(n))
        BY <4>2, <4>4
      <4>6. n \in 0..N
        BY <1>0
      <4> QED BY <4>5, <4>6
    <3> QED BY <3>5, <3>6
  <2>4. N \in Good
    <3> HIDE DEF Good, N
    <3>1. \A n \in 0..N : n \in Good
      BY <1>0, <2>2, <2>3, Keeping!Induction
    <3> QED BY <3>1, <1>0
  <2>5. N # 0
    BY <1>2
  <2>6. U(N) \subseteq I
    BY <1>0
  <2>7. FlattenSeq(ss) \in Own(S, U(N))
    BY <2>1, <2>4, <2>5, <1>0
  <2> QED BY <2>6, <2>7, OwnMore
<1> QED BY <1>1, <1>2

(* A list whose ids are its positions, under a mark, has no two the same.    *)
LEMMA MarkedOwn ==
    ASSUME NEW S, NEW s \in Seq(S), NEW mark, \A n \in DOMAIN s : s[n].id = <<mark, n>>
    PROVE  s \in Own(S, {<<mark, n>> : n \in Nat})
<1>1. DOMAIN s = 1..Len(s) /\ Len(s) \in Nat
  OBVIOUS
<1>2. Ids(s) \subseteq {<<mark, n>> : n \in Nat}
  <2> SUFFICES ASSUME NEW k \in DOMAIN s PROVE s[k].id \in {<<mark, n>> : n \in Nat}
    BY DEF Ids
  <2>1. k \in Nat /\ s[k].id = <<mark, k>>
    BY <1>1
  <2> QED BY <2>1, ZenonT(60)
<1>3. Distinct(s)
  <2> SUFFICES ASSUME NEW i \in DOMAIN s, NEW j \in DOMAIN s, s[i].id = s[j].id PROVE i = j
    BY DEF Distinct
  <2>1. <<mark, i>> = <<mark, j>>
    OBVIOUS
  <2> QED BY <2>1, ZenonT(60)
<1> QED BY <1>2, <1>3 DEF Own

DomIds == {<<"d", n>> : n \in Nat}
SeenIds == {<<"v", n>> : n \in Nat}

LEMMA ScanDomOwn ==
    ASSUME NEW p \in Seq(Scanned)
    PROVE  ScanDom(p) \in Own(Finding, DomIds)
<1> DEFINE s == ScanDom(p)
           all == FlattenSeq(Tiers(p))
<1>1. s \in Seq(Finding)
  BY ScanDomType
<1>2. s = [n \in DOMAIN all |-> [all[n] EXCEPT !.id = <<"d", n>>]]
  BY DEF ScanDom
<1> HIDE DEF s, all
<1>3. ASSUME NEW n \in DOMAIN s PROVE s[n].id = <<"d", n>>
  <2> DEFINE id == <<"d", n>>
  <2> HIDE DEF id
  <2>1. s[n] = [all[n] EXCEPT !.id = id] /\ s[n] \in Finding
    BY <1>1, <1>2 DEF id
  <2>2. "id" \in DOMAIN s[n]
    BY <2>1 DEF Finding
  <2>3. s[n].id = id
    BY <2>1, <2>2
  <2> QED BY <2>3 DEF id
<1>4. s \in Own(Finding, {<<"d", n>> : n \in Nat})
  BY <1>1, <1>3, MarkedOwn
<1> QED BY <1>4 DEF DomIds, s

LEMMA DecodedOwn ==
    ASSUME NEW raw \in Seq(Sight)
    PROVE  DecodeDetections(raw, Ratio, LeastScore, NmsPercent) \in Own(Finding, SeenIds)
<1> DEFINE D(i) == [id |-> <<"v", i>>, kind |-> LabelKind(raw[i].label), source |-> "vision",
                    confidence |-> raw[i].score, rect |-> ToCss(raw[i].rect, Ratio),
                    at |-> 0, attr |-> "none", span |-> NoSpan]
           mapped == [i \in DOMAIN raw |-> D(i)]
           clear == {i \in DOMAIN mapped : mapped[i].confidence >= LeastScore /\ mapped[i].kind # None}
           boxes == Kept(mapped, clear)
           of(i) == {j \in DOMAIN boxes : boxes[j].kind = boxes[i].kind}
           list == [i \in DOMAIN boxes |->
                       IF \A j \in of(i) : i <= j THEN Survivors(Kept(boxes, of(i)), NmsPercent) ELSE <<>>]
<1>1. mapped \in Seq(Finding) /\ \A i \in DOMAIN mapped : mapped[i].id = <<"v", i>>
  BY MappedType
<1>4. DecodeDetections(raw, Ratio, LeastScore, NmsPercent) = ByConfidence(FlattenSeq(list))
  BY DEF DecodeDetections, NonMaxSuppression
<1> HIDE DEF mapped, clear
<1>5. mapped \in Own(Finding, SeenIds)
  BY <1>1, MarkedOwn DEF SeenIds
<1>6. boxes \in Own(Finding, SeenIds)
  BY <1>5, KeptOwn
<1> HIDE DEF boxes
<1>7. /\ boxes \in Seq(Finding) /\ Distinct(boxes) /\ Ids(boxes) \subseteq SeenIds
      /\ DOMAIN boxes = 1..Len(boxes) /\ Len(boxes) \in Nat
  BY <1>6 DEF Own
<1> DEFINE alike == [i \in DOMAIN boxes |->
                        IF \A j \in of(i) : i <= j THEN {boxes[j].id : j \in of(i)} ELSE {}]
<1>8. ASSUME NEW i \in DOMAIN boxes PROVE list[i] \in Own(Finding, alike[i])
  <2> DEFINE S == {boxes[j] : j \in of(i)}
             group == Kept(boxes, of(i))
             I == {boxes[j].id : j \in of(i)}
  <2>1. group \in Own(Finding, SeenIds)
    BY <1>6, KeptOwn
  <2>2. group \in Seq(S)
    <3>1. \A n \in 1..Len(boxes) : n \in of(i) => boxes[n] \in S
      OBVIOUS
    <3> HIDE DEF S
    <3> QED BY <1>7, <3>1, KeptIn
  <2>3. \A e \in S : e.id \in I
    OBVIOUS
  <2> HIDE DEF S, I, group
  <2>4. group \in Seq(Finding) /\ Distinct(group) /\ Ids(group) \subseteq I
    <3>1. \A n \in DOMAIN group : group[n] \in S
      BY <2>2
    <3> QED BY <2>1, <2>3, <3>1 DEF Own, Ids
  <2>5. group \in Own(Finding, I)
    BY <2>4 DEF Own
  <2>6. Survivors(group, NmsPercent) \in Own(Finding, I)
    BY <2>5, SurvivorsOwn
  <2>7. <<>> \in Own(Finding, {})
    BY OwnNothing
  <2>8. CASE \A j \in of(i) : i <= j
    BY <2>6, <2>8 DEF I, group
  <2>9. CASE ~\A j \in of(i) : i <= j
    BY <2>7, <2>9
  <2> QED BY <2>8, <2>9
<1>9. ASSUME NEW i \in DOMAIN boxes, NEW k \in DOMAIN boxes, i # k PROVE alike[i] \cap alike[k] = {}
  <2> SUFFICES ASSUME \A j \in of(i) : i <= j, \A j \in of(k) : k <= j,
                      NEW m \in of(i), NEW n \in of(k), boxes[m].id = boxes[n].id
               PROVE  FALSE
    OBVIOUS
  <2>1. m = n
    BY <1>7 DEF Distinct
  <2>2. i \in of(k) /\ k \in of(i)
    BY <2>1
  <2>3. i <= k /\ k <= i /\ i \in Nat /\ k \in Nat
    BY <2>2, <1>7
  <2> QED BY <2>3, <1>9
<1>10. \A n \in DOMAIN boxes : alike[n] \subseteq SeenIds
  BY <1>7 DEF Ids
<1>11. list \in Seq(Seq(Finding)) /\ DOMAIN list = DOMAIN boxes
  <2>1. \A i \in DOMAIN boxes : list[i] \in Seq(Finding)
    BY <1>8 DEF Own
  <2>2. DOMAIN list = DOMAIN boxes /\ list = [i \in DOMAIN boxes |-> list[i]]
    OBVIOUS
  <2> HIDE DEF list
  <2> QED BY <2>1, <2>2, <1>7
<1> HIDE DEF list, alike, of
<1>a. \A n \in DOMAIN list : list[n] \in Own(Finding, alike[n])
  BY <1>8, <1>11
<1>b. \A n, m \in DOMAIN list : n # m => alike[n] \cap alike[m] = {}
  BY <1>9, <1>11
<1>c. \A n \in DOMAIN list : alike[n] \subseteq SeenIds
  BY <1>10, <1>11
<1>13. FlattenSeq(list) \in Own(Finding, SeenIds)
  BY <1>11, <1>a, <1>b, <1>c, FlattenOwn
<1> QED BY <1>4, <1>13, ByConfidenceOwn

LEMMA CandidatesOwn ==
    ASSUME NEW p \in Seq(Scanned), NEW dom \in Own(Finding, DomIds), NEW seen \in Own(Finding, SeenIds)
    PROVE  Candidates(dom, seen, p) \in Own(Finding, DomIds \cup SeenIds)
<1> DEFINE attached == [i \in DOMAIN seen |-> [seen[i] EXCEPT !.at = AttachToElement(seen[i], p)]]
<1>1. /\ DOMAIN seen = 1..Len(seen) /\ Len(seen) \in Nat /\ seen \in Seq(Finding)
      /\ Distinct(seen) /\ Ids(seen) \subseteq SeenIds
  BY DEF Own
<1>2. ASSUME NEW i \in DOMAIN seen PROVE attached[i] \in Finding /\ attached[i].id = seen[i].id
  <2>1. seen[i] \in Finding /\ AttachToElement(seen[i], p) \in Nat
    BY <1>1, AttachType
  <2> QED BY <2>1 DEF Finding
<1>3. attached \in Seq(Finding) /\ DOMAIN attached = DOMAIN seen
  BY <1>1, <1>2
<1> HIDE DEF attached
<1>4. attached \in Own(Finding, SeenIds)
  <2>1. Distinct(attached)
    <3> SUFFICES ASSUME NEW i \in DOMAIN attached, NEW j \in DOMAIN attached, attached[i].id = attached[j].id
                 PROVE  i = j
      BY DEF Distinct
    <3>1. seen[i].id = seen[j].id
      BY <1>2, <1>3
    <3> QED BY <1>1, <1>3, <3>1 DEF Distinct
  <2>2. Ids(attached) = Ids(seen)
    BY <1>2, <1>3 DEF Ids
  <2> QED BY <1>1, <1>3, <2>1, <2>2 DEF Own
<1>5. DomIds \cap SeenIds = {}
  <2>1. ASSUME NEW n \in Nat, NEW m \in Nat PROVE <<"d", n>> # <<"v", m>>
    OBVIOUS
  <2> QED BY <2>1 DEF DomIds, SeenIds
<1>6. dom \o attached \in Own(Finding, DomIds \cup SeenIds)
  BY <1>4, <1>5, ConcatOwn
<1> QED BY <1>6, ByConfidenceOwn DEF Candidates, attached

(* A finding that joins a kept one leaves the id of that one.                *)
LEMMA MergedOwn ==
    ASSUME NEW I, NEW all \in Own(Finding, I)
    PROVE  MergeIndexed(all) \in Own(Finding, I)
<1> DEFINE N == Len(all)
           T == [n \in 0..N |-> Own(Finding, Before(all, n))]
<1>0. all \in Seq(Finding) /\ Distinct(all) /\ Ids(all) \subseteq I
  BY DEF Own
<1>1. N \in Nat /\ DOMAIN all = 1..N /\ \A n \in 1..N : all[n] \in Finding
  BY <1>0
<1>2. MergeIndexed(all) = Pairing!Fold(0, all)
  <2>1. MergeIndexed(all) = MergePairs(all)
    BY <1>0, IndexesAgree
  <2> QED BY <2>1 DEF MergePairs, Pairing!Fold, Pairing!FoldOn, FoldLeft, MapThenFoldSet, Max, Pairing!Top
<1>3. ASSUME NEW n \in 1..N, NEW x \in T[n - 1] PROVE MergePair(x, all[n]) \in T[n]
  <2> DEFINE J == Before(all, n - 1)
             d == all[n]
             same == {k \in DOMAIN x : SameTarget(x[k], d) \/ Overlapping(x[k], d)}
             k == CHOOSE i \in same : \A j \in same : i <= j
  <2>1. T[n - 1] = Own(Finding, J) /\ T[n] = Own(Finding, Before(all, n))
    BY <1>1
  <2>2. d.id \notin J /\ Before(all, n) = J \cup {d.id} /\ d \in Finding
    BY <1>0, <1>1, BeforeGrows
  <2>3. MergePair(x, d) = IF same = {} THEN Append(x, d) ELSE [x EXCEPT ![k] = Joined(x[k], d)]
    BY DEF MergePair
  <2> HIDE DEF J, T, d
  <2>4. x \in Own(Finding, J)
    BY <2>1
  <2>5. Append(x, d) \in Own(Finding, J \cup {d.id})
    BY <2>2, <2>4, AppendOwn
  <2>6. ASSUME same # {} PROVE [x EXCEPT ![k] = Joined(x[k], d)] \in Own(Finding, J \cup {d.id})
    <3>0. x \in Seq(Finding) /\ Distinct(x) /\ Ids(x) \subseteq J
      BY <2>4 DEF Own
    <3>1. same \subseteq DOMAIN x /\ DOMAIN x \subseteq Nat
      BY <3>0
    <3> HIDE DEF same
    <3>2. \E i \in same : \A j \in same : i <= j
      BY <2>6, <3>1, Keeping!LeastIn
    <3>3. k \in DOMAIN x
      BY <3>1, <3>2
    <3> HIDE DEF k
    <3>4. x[k] \in Finding
      BY <3>0, <3>3
    <3> DEFINE e == Joined(x[k], d)
               y == [x EXCEPT ![k] = e]
    <3>5. e \in Finding /\ e.id = x[k].id
      BY <2>2, <3>4, JoinedType
    <3> HIDE DEF e
    <3>6. y \in Seq(Finding) /\ DOMAIN y = DOMAIN x /\ \A i \in DOMAIN x : y[i].id = x[i].id
      BY <3>0, <3>3, <3>5
    <3> HIDE DEF y
    <3>7. y \in Own(Finding, J)
      BY <3>0, <3>6 DEF Own, Distinct, Ids
    <3>8. y \in Own(Finding, J \cup {d.id})
      BY <3>7, OwnMore
    <3> QED BY <3>8 DEF y, e
  <2>7. MergePair(x, d) \in Own(Finding, J \cup {d.id})
    BY <2>3, <2>5, <2>6
  <2> QED BY <2>1, <2>2, <2>7 DEF d
<1>4. <<>> \in T[0]
  <2>1. T[0] = Own(Finding, Before(all, 0))
    BY <1>1
  <2> QED BY <2>1, OwnNothing
<1>5. T[N] = Own(Finding, Ids(all))
  BY <1>0, <1>1, BeforeAll
<1> HIDE DEF T, N
<1>6. Pairing!Fold(0, all) \in T[N]
  BY <1>1, <1>3, <1>4, Pairing!Passes
<1> QED BY <1>0, <1>2, <1>5, <1>6, OwnMore

(* What redact() returns: the page's document, rewritten; the findings, each *)
(* once; and ops, each of one of them.                                       *)
LEMMA RedactType ==
    ASSUME NEW raw \in Seq(Scanned), NEW seen \in Own(Finding, SeenIds), NEW coverAll,
           NEW r, r = Redact(raw, seen, coverAll)
    PROVE  /\ r.doc \in Documents(StripForgeries(raw))
           /\ r.detections \in Seq(Finding) /\ Distinct(r.detections)
           /\ r.ops \in Seq(Ops(ToSet(r.detections)))
<1> DEFINE p == StripForgeries(raw)
           merged == MergeDetections(ScanDom(p), seen, p)
           F == ToSet(merged)
           applicable == Kept(merged, {n \in DOMAIN merged : merged[n].confidence >= MinConfidence})
           skipped == Those(merged, LAMBDA d : d.confidence < MinConfidence)
           state == Rewritten(p, applicable)
           covered == CoverAll(state, merged)
           done == IF coverAll THEN covered ELSE state
<1>1. r = Reported(p, merged, applicable, skipped, done)
  BY DEF Redact, RedactPage, RedactMerged, Those
<1> HIDE DEF done, skipped, applicable
<1>2. r.doc = done.doc /\ r.detections = merged /\ r.ops = done.ops
  BY <1>1 DEF Reported
<1>3. p \in Seq(Scanned)
  BY StrippedPage
<1> HIDE DEF p
<1>4. merged \in Own(Finding, DomIds \cup SeenIds)
  BY <1>3, ScanDomOwn, CandidatesOwn, MergedOwn, ByConfidenceOwn DEF MergeDetections
<1> HIDE DEF merged
<1>5. merged \in Seq(Finding) /\ Distinct(merged)
  BY <1>4 DEF Own
<1>6. F \in SUBSET Finding /\ merged \in Seq(F) /\ \A n \in 1..Len(merged) : merged[n] \in F
  BY <1>5 DEF ToSet
<1> HIDE DEF F
<1>7. applicable \in Seq(F)
  BY <1>6, KeptType DEF applicable
<1>8. state \in States(p, F)
  BY <1>3, <1>6, <1>7, RewrittenType
<1>9. covered \in States(p, F)
  <2> DEFINE ids == {state.ops[n].id : n \in DOMAIN state.ops}
             applied == {state.entries[n].id : n \in {m \in DOMAIN state.entries : state.entries[m].applied}}
             owes == {n \in DOMAIN merged : merged[n].rect # NoRect /\ merged[n].id \in applied \ ids}
             owed == Kept(merged, owes)
             more == [n \in DOMAIN owed |-> OpOf(owed[n], "blackout")]
             S == {d \in F : d.rect # NoRect}
  <2>1. covered = [state EXCEPT !.ops = state.ops \o more]
    BY <1>8 DEF CoverAll, Those, States
  <2> HIDE DEF state
  <2>2. owed \in Seq(S)
    <3>1. \A n \in 1..Len(merged) : n \in owes => merged[n] \in S
      BY <1>6
    <3> HIDE DEF owes, S
    <3> QED BY <1>6, <3>1, KeptIn
  <2> HIDE DEF owed
  <2>3. /\ DOMAIN owed = 1..Len(owed) /\ Len(owed) \in Nat
        /\ \A n \in DOMAIN owed : owed[n] \in F /\ owed[n].rect # NoRect
    <3>1. \A n \in DOMAIN owed : owed[n] \in S
      BY <2>2
    <3>2. DOMAIN owed = 1..Len(owed) /\ Len(owed) \in Nat
      BY <2>2
    <3> QED BY <3>1, <3>2
  <2>4. "blackout" \in Names
    BY ZenonT(60) DEF Names
  <2>5. \A n \in DOMAIN owed : OpOf(owed[n], "blackout") \in Ops(F)
    BY <1>6, <2>3, <2>4, OpType
  <2>6. more \in Seq(Ops(F))
    <3> DEFINE op(n) == OpOf(owed[n], "blackout")
    <3>1. \A n \in DOMAIN owed : op(n) \in Ops(F)
      BY <2>5
    <3> HIDE DEF op
    <3>2. [n \in DOMAIN owed |-> op(n)] \in Seq(Ops(F))
      BY <2>3, <3>1
    <3> QED BY <3>2 DEF op
  <2> HIDE DEF more
  <2>7. state.ops \o more \in Seq(Ops(F))
    BY <1>8, <2>6 DEF States
  <2> DEFINE ops == state.ops \o more
  <2> HIDE DEF ops
  <2>8. [state EXCEPT !.ops = ops] \in States(p, F)
    BY <1>8, <2>7 DEF States, ops
  <2> QED BY <2>1, <2>8 DEF ops
<1>10. done \in States(p, F)
  BY <1>8, <1>9 DEF done
<1>11. done.doc \in Documents(p) /\ done.ops \in Seq(Ops(F))
  BY <1>10 DEF States
<1> QED BY <1>2, <1>5, <1>11 DEF p, F

(* Neither the margin nor the scale takes a pixel of the finding away.       *)
LEMMA MarginHolds ==
    ASSUME NEW r \in Rectangles
    PROVE  Pixels(ToDevice(r, Ratio)) \subseteq Pixels(ToDevice(Inflated(r, Pad), Ratio))
<1> DEFINE a == ToDevice(r, Ratio)
           b == ToDevice(Inflated(r, Pad), Ratio)
<1>1. r.x \in Int /\ r.y \in Int /\ r.w \in Int /\ r.h \in Int
  BY DEF Rectangles
<1>2. Ratio \in Nat \ {0} /\ Pad \in Nat /\ FrameW \in Nat /\ FrameH \in Nat
  BY RedactionAssumption
<1>3. ASSUME NEW x \in Int, NEW w \in Int
      PROVE  /\ (x - Pad) * Ratio \in Int /\ (w + 2 * Pad) * Ratio \in Int
             /\ x * Ratio \in Int /\ w * Ratio \in Int
             /\ (x - Pad) * Ratio <= x * Ratio
             /\ x * Ratio + w * Ratio <= (x - Pad) * Ratio + (w + 2 * Pad) * Ratio
  <2>1. Pad * Ratio \in Nat /\ x * Ratio \in Int /\ w * Ratio \in Int
    BY <1>2
  <2>2. (x - Pad) * Ratio = x * Ratio - Pad * Ratio
    BY <1>2
  <2>3. (w + 2 * Pad) * Ratio = w * Ratio + 2 * (Pad * Ratio)
    BY <1>2
  <2> DEFINE m == Pad * Ratio
             u == x * Ratio
             v == w * Ratio
  <2> HIDE DEF m, u, v
  <2>4. m \in Nat /\ u \in Int /\ v \in Int
    BY <2>1 DEF m, u, v
  <2>5. /\ u - m \in Int /\ v + 2 * m \in Int /\ u - m <= u /\ u + v <= (u - m) + (v + 2 * m)
    BY <2>4
  <2> QED BY <2>1, <2>2, <2>3, <2>5 DEF m, u, v
<1>4. /\ a.x = r.x * Ratio /\ a.y = r.y * Ratio /\ a.w = r.w * Ratio /\ a.h = r.h * Ratio
      /\ b.x = (r.x - Pad) * Ratio /\ b.y = (r.y - Pad) * Ratio
      /\ b.w = (r.w + 2 * Pad) * Ratio /\ b.h = (r.h + 2 * Pad) * Ratio
  BY DEF ToDevice, Inflated
<1> HIDE DEF a, b
<1>5. /\ a.x \in Int /\ a.w \in Int /\ b.x \in Int /\ b.w \in Int /\ b.x <= a.x /\ a.x + a.w <= b.x + b.w
      /\ a.y \in Int /\ a.h \in Int /\ b.y \in Int /\ b.h \in Int /\ b.y <= a.y /\ a.y + a.h <= b.y + b.h
  BY <1>1, <1>3, <1>4
<1>6. MostOf(0, a.x)..(LeastOf(FrameW, a.x + a.w) - 1) \subseteq MostOf(0, b.x)..(LeastOf(FrameW, b.x + b.w) - 1)
  BY <1>2, <1>5 DEF MostOf, LeastOf
<1>7. MostOf(0, a.y)..(LeastOf(FrameH, a.y + a.h) - 1) \subseteq MostOf(0, b.y)..(LeastOf(FrameH, b.y + b.h) - 1)
  BY <1>2, <1>5 DEF MostOf, LeastOf
<1> QED BY <1>6, <1>7 DEF Pixels, a, b

(* Each finding that is owed a covering has it when no id is left uncovered. *)
LEMMA BakedCovers ==
    ASSUME NEW r, r.detections \in Seq(Finding), Distinct(r.detections), r.ops \in Seq(Ops(ToSet(r.detections))),
           Uncovered(r) = {},
           NEW d \in ToSet(r.detections), d.rect # NoRect, d.id \notin r.unpaintable,
           NEW n \in DOMAIN r.entries, r.entries[n].id = d.id, r.entries[n].applied
    PROVE  Pixels(ToDevice(d.rect, Ratio)) \subseteq BakeRedactions(r.ops).painted
<1>1. d \in Finding /\ d.rect \in Rectangles
  <2>1. d \in Finding
    BY DEF ToSet
  <2> QED BY <2>1 DEF Finding
<1>2. PICK k \in DOMAIN r.ops : r.ops[k].id = d.id
  BY DEF Uncovered
<1>3. r.ops[k] \in Ops(ToSet(r.detections))
  OBVIOUS
<1>4. PICK e \in ToSet(r.detections) :
          r.ops[k].id = e.id /\ r.ops[k].rect = ToDevice(Inflated(e.rect, Pad), Ratio)
  BY <1>3 DEF Ops
<1>5. e = d
  <2>1. PICK i \in DOMAIN r.detections : r.detections[i] = e
    BY DEF ToSet
  <2>2. PICK j \in DOMAIN r.detections : r.detections[j] = d
    BY DEF ToSet
  <2>3. r.detections[i].id = r.detections[j].id
    BY <1>2, <1>4, <2>1, <2>2
  <2>4. i = j
    BY <2>3 DEF Distinct
  <2> QED BY <2>1, <2>2, <2>4
<1>6. BakeRedactions(r.ops).painted = UNION {Pixels(r.ops[m].rect) : m \in DOMAIN r.ops}
  BY DEF BakeRedactions
<1>7. Pixels(r.ops[k].rect) \subseteq BakeRedactions(r.ops).painted
  BY <1>6
<1> QED BY <1>1, <1>4, <1>5, <1>7, MarginHolds

(* What the step has redacted, and what of it the picture shows.             *)
Covering ==
    /\ Inputs
    /\ stage = "captured" => shot = NoShot
    /\ stage # "captured" =>
          /\ redaction.detections \in Seq(Finding) /\ Distinct(redaction.detections)
          /\ redaction.ops \in Seq(Ops(ToSet(redaction.detections)))
    /\ PictureCovered

LEMMA CoveringStart == PipelineInit => Covering
BY DEF PipelineInit, Covering, Inputs, PictureCovered

LEMMA CoveringStep == Covering /\ [PipelineNext]_pipelineVars => Covering'
<1> SUFFICES ASSUME Covering, [PipelineNext]_pipelineVars PROVE Covering'
  OBVIOUS
<1> USE DEF Covering, Inputs
<1>1. ASSUME DomRedact PROVE Covering'
  <2> DEFINE seen == DecodeDetections(vision, Ratio, LeastScore, NmsPercent)
  <2>1. /\ shot' = NoShot /\ stage' = "redacted" /\ redaction' = Redact(page, seen, wanted)
        /\ page' = page /\ vision' = vision
    BY <1>1 DEF DomRedact
  <2>2. page \in Seq(Scanned) /\ vision \in Seq(Sight)
    BY PipelineAssumption DEF Sight
  <2>3. seen \in Own(Finding, SeenIds)
    BY <2>2, DecodedOwn
  <2> HIDE DEF seen
  <2>4. /\ redaction'.detections \in Seq(Finding) /\ Distinct(redaction'.detections)
        /\ redaction'.ops \in Seq(Ops(ToSet(redaction'.detections)))
    BY <2>1, <2>2, <2>3, RedactType
  <2> QED BY <2>1, <2>4 DEF PictureCovered
<1>2. ASSUME NotBaked PROVE Covering'
  BY <1>2 DEF NotBaked, PictureCovered, Applied
<1>3. ASSUME Bake PROVE Covering'
  <2>1. /\ stage = "redacted" /\ stage' = "baked" /\ Uncovered(redaction) = {}
        /\ shot' = NoShot \/ shot' = BakeRedactions(redaction.ops)
        /\ page' = page /\ vision' = vision /\ redaction' = redaction
    BY <1>3 DEF Bake
  <2>2. /\ redaction.detections \in Seq(Finding) /\ Distinct(redaction.detections)
        /\ redaction.ops \in Seq(Ops(ToSet(redaction.detections)))
    BY <2>1
  <2>3. ASSUME NEW d \in Applied, d.rect # NoRect, d.id \notin redaction.unpaintable
        PROVE  Pixels(ToDevice(d.rect, Ratio)) \subseteq BakeRedactions(redaction.ops).painted
    <3>1. PICK n \in DOMAIN redaction.entries : redaction.entries[n].id = d.id /\ redaction.entries[n].applied
      BY DEF Applied
    <3>2. d \in ToSet(redaction.detections)
      BY DEF Applied
    <3> QED BY <2>1, <2>2, <2>3, <3>1, <3>2, BakedCovers
  <2>4. Applied' = Applied
    BY <2>1 DEF Applied
  <2>5. PictureCovered'
    BY <2>1, <2>3, <2>4 DEF PictureCovered
  <2> QED BY <2>1, <2>2, <2>5
<1>4. ASSUME Sanitize PROVE Covering'
  BY <1>4 DEF Sanitize, PictureCovered, Applied
<1>5. ASSUME Verify PROVE Covering'
  BY <1>5 DEF Verify, PictureCovered, Applied
<1>6. ASSUME UNCHANGED pipelineVars PROVE Covering'
  BY <1>6 DEF pipelineVars, PictureCovered, Applied
<1> QED BY <1>1, <1>2, <1>3, <1>4, <1>5, <1>6 DEF PipelineNext

(* A picture of a page, of whatever size and with whatever boxes seen in it, *)
(* is never held while a pixel of an applied finding that a reader could see *)
(* is unpainted (redaction/redact.ts, redaction/canvas-redact.ts).           *)
THEOREM PictureIsCovered == PipelineSpec => []PictureCovered
<1>1. Covering => PictureCovered
  BY DEF Covering
<1> QED BY <1>1, CoveringStart, CoveringStep, PTL DEF PipelineSpec

(* Each element of the context carries the selector of the element it is of. *)
LEMMA ElementsSelected ==
    ASSUME NEW p \in Seq(Scanned), NEW redacted, redacted.doc \in Documents(p), NEW screenshot, NEW earlier, NEW analysis,
           NEW el \in ToSet(BuildSanitizedContext(redacted, screenshot, earlier, MostElements, analysis).elements)
    PROVE  el.at \in DOMAIN p /\ el.selector = RobustRefSelector(redacted.doc, el.at)
<1> DEFINE doc == redacted.doc
           found == redacted.detections
           at == Interesting(doc)
           E(n) == Element(doc, found, n, at[n])
           all == [n \in DOMAIN at |-> E(n)]
           kept == Budgeted(all, MostElements)
           order == Containers(doc, kept)
           E2(n) == [kept[n] EXCEPT !.container = NearestContainer(doc, order, kept[n].at)]
           elements == [n \in DOMAIN kept |-> E2(n)]
           S == {E(n) : n \in DOMAIN at}
<1>1. BuildSanitizedContext(redacted, screenshot, earlier, MostElements, analysis).elements = elements
  BY DEF BuildSanitizedContext, Pruned, Assembled, ExtractPage
<1>2. at \in Seq(DOMAIN p)
  <2> DEFINE is == [i \in DOMAIN doc.els |-> i]
  <2>1. DOMAIN doc.els = DOMAIN p
    BY DEF Documents, Els
  <2>2. is \in Seq(DOMAIN p)
    BY <2>1
  <2> HIDE DEF is
  <2>3. \A keep : Kept(is, keep) \in Seq(DOMAIN p)
    BY <2>2, KeptType
  <2> QED BY <2>3 DEF Interesting, Those, is
<1>3. ASSUME NEW n \in DOMAIN at
      PROVE  E(n).at = at[n] /\ E(n).selector = RobustRefSelector(doc, at[n])
  BY DEF Element, Named
<1> HIDE DEF E, at, doc, found
<1>4. DOMAIN at = 1..Len(at) /\ Len(at) \in Nat /\ \A n \in DOMAIN at : at[n] \in DOMAIN p
  BY <1>2
<1>5. all \in Seq(S) /\ Len(all) \in Nat
  BY <1>4
<1> HIDE DEF all
<1>6. kept \in Seq(S)
  <2>1. LeastOf(MostElements, Len(all)) \in Nat /\ LeastOf(MostElements, Len(all)) <= Len(all)
    BY <1>5, PipelineAssumption DEF LeastOf
  <2> QED BY <1>5, <2>1 DEF Budgeted
<1> HIDE DEF kept
<1>7. \A n \in DOMAIN kept : kept[n] \in S
  BY <1>6
<1>8. ASSUME NEW n \in DOMAIN kept
      PROVE  E2(n).at \in DOMAIN p /\ E2(n).selector = RobustRefSelector(doc, E2(n).at)
  <2>1. PICK m \in DOMAIN at : kept[n] = E(m)
    BY <1>7
  <2>2. E2(n).at = kept[n].at /\ E2(n).selector = kept[n].selector
    BY <2>1 DEF E, Element, Named
  <2> QED BY <2>1, <2>2, <1>3, <1>4
<1> HIDE DEF E2
<1>9. \A e \in ToSet(elements) : \E n \in DOMAIN kept : e = E2(n)
  BY DEF ToSet
<1> QED BY <1>1, <1>8, <1>9 DEF doc

(* What the step keeps of the page: the document it rewrote is the page's.   *)
Leading ==
    /\ Inputs
    /\ stage = "captured" => context = Nothing
    /\ stage # "captured" => redaction.doc \in Documents(page)
    /\ RefsLeadHome

LEMMA LeadingStart == PipelineInit => Leading
BY DEF PipelineInit, Leading, Inputs, RefsLeadHome

LEMMA LeadingStep == Leading /\ [PipelineNext]_pipelineVars => Leading'
<1> SUFFICES ASSUME Leading, [PipelineNext]_pipelineVars PROVE Leading'
  OBVIOUS
<1> USE DEF Leading, Inputs
<1>1. ASSUME DomRedact PROVE Leading'
  <2> DEFINE seen == DecodeDetections(vision, Ratio, LeastScore, NmsPercent)
  <2>1. context' = Nothing /\ stage' = "redacted" /\ redaction' = Redact(page, seen, wanted)
        /\ page' = page /\ vision' = vision
    BY <1>1 DEF DomRedact
  <2>2. page \in Seq(Scanned) /\ vision \in Seq(Sight)
    BY PipelineAssumption DEF Sight
  <2>3. seen \in Own(Finding, SeenIds)
    BY <2>2, DecodedOwn
  <2> HIDE DEF seen
  <2>4. Redact(page, seen, wanted).doc \in Documents(StripForgeries(page))
    BY <2>2, <2>3, RedactType
  <2>5. redaction'.doc \in Documents(page)
    BY <2>1, <2>2, <2>4, DocumentOfPage
  <2> QED BY <2>1, <2>5 DEF RefsLeadHome
<1>2. ASSUME NotBaked PROVE Leading'
  BY <1>2 DEF NotBaked, RefsLeadHome
<1>3. ASSUME Bake PROVE Leading'
  BY <1>3 DEF Bake, RefsLeadHome
<1>4. ASSUME Sanitize PROVE Leading'
  <2>1. PICK done, sent, earlier : context' = BuildSanitizedContext(redaction, sent, earlier, MostElements,
                                                                    AnalyzeDocument(redaction.doc, done))
    BY <1>4 DEF Sanitize
  <2>2. stage = "baked" /\ stage' = "sanitized" /\ page' = page /\ vision' = vision /\ redaction' = redaction
    BY <1>4 DEF Sanitize
  <2>3. page \in Seq(Scanned) /\ redaction.doc \in Documents(page)
    BY <2>2, PipelineAssumption
  <2>4. ASSUME NEW el \in ToSet(context'.elements)
        PROVE  ResolveSelector(page, el.selector) \in {el.at} \cup redaction.doc.gone
    <3>1. el.at \in DOMAIN page /\ el.selector = RobustRefSelector(redaction.doc, el.at)
      BY <2>1, <2>3, ElementsSelected
    <3> QED BY <3>1, <2>3, SelectorLeadsHome
  <2> QED BY <2>2, <2>3, <2>4 DEF RefsLeadHome
<1>5. ASSUME Verify PROVE Leading'
  BY <1>5 DEF Verify, RefsLeadHome
<1>6. ASSUME UNCHANGED pipelineVars PROVE Leading'
  BY <1>6 DEF pipelineVars, RefsLeadHome
<1> QED BY <1>1, <1>2, <1>3, <1>4, <1>5, <1>6 DEF PipelineNext

(* Whatever the redaction took out of a page, the selector sent with an      *)
(* element leads in the live page to that element, or to one that was taken  *)
(* out before it was computed (redaction/sanitize.ts).                       *)
THEOREM SelectorsLeadHome == PipelineSpec => []RefsLeadHome
<1>1. Leading => RefsLeadHome
  BY DEF Leading
<1> QED BY <1>1, LeadingStart, LeadingStep, PTL DEF PipelineSpec

-----------------------------------------------------------------------------
(* The gate: a text that holds a whole value has a match, and the match is   *)
(* not among what the gate blanks.                                           *)

LEMMA JoinHolds ==
    ASSUME NEW S, NEW a \in Seq(S), NEW b \in Seq(S)
    PROVE  a \o b \in Seq(S) /\ ToSet(a) \subseteq ToSet(a \o b) /\ ToSet(b) \subseteq ToSet(a \o b)
<1> DEFINE t == a \o b
<1>1. /\ t \in Seq(S) /\ DOMAIN t = 1..(Len(a) + Len(b))
      /\ \A k \in 1..(Len(a) + Len(b)) : t[k] = IF k <= Len(a) THEN a[k] ELSE b[k - Len(a)]
  OBVIOUS
<1>2. DOMAIN a = 1..Len(a) /\ DOMAIN b = 1..Len(b) /\ Len(a) \in Nat /\ Len(b) \in Nat
  OBVIOUS
<1> HIDE DEF t
<1>3. ASSUME NEW k \in DOMAIN a PROVE k \in DOMAIN t /\ t[k] = a[k]
  BY <1>1, <1>2
<1>4. ASSUME NEW k \in DOMAIN b PROVE k + Len(a) \in DOMAIN t /\ t[k + Len(a)] = b[k]
  <2>1. k + Len(a) \in 1..(Len(a) + Len(b)) /\ ~(k + Len(a) <= Len(a)) /\ (k + Len(a)) - Len(a) = k
    BY <1>2
  <2> QED BY <1>1, <2>1
<1> QED BY <1>1, <1>3, <1>4, ZenonT(60) DEF ToSet, t

LEMMA FlattenHolds ==
    ASSUME NEW S, NEW ss \in Seq(Seq(S)), NEW i \in DOMAIN ss
    PROVE  ToSet(ss[i]) \subseteq ToSet(FlattenSeq(ss))
<1> DEFINE N == Len(ss)
<1>1. ss # <<>> /\ N \in Nat /\ DOMAIN ss = 1..N /\ \A n \in 1..N : ss[n] \in Seq(S)
  OBVIOUS
<1>2. PICK flat : /\ \A n \in 1..Len(ss) : flat[n] = IF n = 1 THEN ss[n] ELSE flat[n - 1] \o ss[n]
                  /\ FlattenSeq(ss) = flat[Len(ss)]
  BY <1>1, FlattenRun
<1>3. \A a, b \in Seq(S) :
          a \o b \in Seq(S) /\ ToSet(a) \subseteq ToSet(a \o b) /\ ToSet(b) \subseteq ToSet(a \o b)
  BY JoinHolds
<1> DEFINE Good == {n \in 0..N : n >= i => flat[n] \in Seq(S) /\ ToSet(ss[i]) \subseteq ToSet(flat[n])}
           Typed == {n \in 0..N : n = 0 \/ flat[n] \in Seq(S)}
<1>4. \A n \in 0..N : n \in Typed
  <2>1. 0 \in Typed
    BY <1>1
  <2>2. ASSUME NEW n \in 1..N, n - 1 \in Typed PROVE n \in Typed
    <3>1. flat[n] = IF n = 1 THEN ss[n] ELSE flat[n - 1] \o ss[n]
      BY <1>2
    <3>2. n # 1 => flat[n - 1] \in Seq(S)
      BY <2>2
    <3>3. ss[n] \in Seq(S)
      BY <1>1
    <3>4. flat[n] \in Seq(S)
      BY <3>1, <3>2, <3>3
    <3> QED BY <3>4
  <2> HIDE DEF Typed, N
  <2> QED BY <1>1, <2>1, <2>2, Keeping!Induction
<1>5. 0 \in Good
  BY <1>1
<1>6. ASSUME NEW n \in 1..N, n - 1 \in Good PROVE n \in Good
  <2>1. flat[n] = IF n = 1 THEN ss[n] ELSE flat[n - 1] \o ss[n]
    BY <1>2
  <2>2. ss[n] \in Seq(S) /\ flat[n] \in Seq(S)
    BY <1>1, <1>4
  <2>3. CASE n = i
    <3>1. CASE n = 1
      BY <2>1, <2>2, <2>3, <3>1
    <3>2. CASE n # 1
      <4>1. flat[n - 1] \in Seq(S)
        BY <1>4, <3>2
      <4>2. ToSet(ss[n]) \subseteq ToSet(flat[n])
        BY <1>3, <2>1, <2>2, <3>2, <4>1
      <4> QED BY <2>2, <2>3, <4>2
    <3> QED BY <3>1, <3>2
  <2>4. CASE n > i
    <3>1. n - 1 >= i /\ n # 1
      BY <1>1, <2>4
    <3>2. flat[n - 1] \in Seq(S) /\ ToSet(ss[i]) \subseteq ToSet(flat[n - 1])
      BY <1>6, <3>1
    <3>3. ToSet(flat[n - 1]) \subseteq ToSet(flat[n])
      BY <1>3, <2>1, <2>2, <3>1, <3>2
    <3> QED BY <2>2, <3>2, <3>3
  <2>5. CASE n < i
    BY <2>5, <1>1
  <2> QED BY <2>3, <2>4, <2>5, <1>1
<1>7. N \in Good
  <2> HIDE DEF Good, N
  <2>1. \A n \in 0..N : n \in Good
    BY <1>1, <1>5, <1>6, Keeping!Induction
  <2> QED BY <2>1, <1>1
<1> QED BY <1>1, <1>2, <1>7

(* The strength of a match: its confidence, then how far in front it is.     *)
LEMMA StrongerRank ==
    ASSUME NEW L \in Nat, NEW a \in 0..100, NEW b \in 0..100, NEW s \in 0..L, NEW t \in 0..L,
           (a > b) \/ (a = b /\ s < t)
    PROVE  /\ (100 - a) * (L + 1) + s \in 0..(101 * (L + 1))
           /\ (100 - b) * (L + 1) + t \in 0..(101 * (L + 1))
           /\ (100 - a) * (L + 1) + s < (100 - b) * (L + 1) + t
<1> DEFINE k == L + 1
           c == 100 - a
           d == 100 - b
<1>1. k \in Nat /\ c \in 0..100 /\ d \in 0..100 /\ L < k
  OBVIOUS
<1>2. ASSUME NEW m \in Nat, NEW n \in Nat, m <= n PROVE m * k \in Nat /\ n * k \in Nat /\ m * k <= n * k
  <2> DEFINE h == n - m
  <2>1. h \in Nat /\ n = m + h
    BY <1>2
  <2> HIDE DEF h, k
  <2>2. n * k = m * k + h * k
    BY <1>1, <2>1
  <2>3. m * k \in Nat /\ h * k \in Nat
    BY <1>1, <2>1
  <2> QED BY <2>2, <2>3
<1>3. (c = d /\ s < t) \/ c + 1 <= d
  OBVIOUS
<1> HIDE DEF c, d, k
<1>4. (c + 1) * k = c * k + k /\ 101 * k = 100 * k + k
  BY <1>1
<1>5. c * k \in Nat /\ d * k \in Nat /\ c * k <= 100 * k /\ d * k <= 100 * k /\ 100 * k \in Nat
  BY <1>1, <1>2
<1> DEFINE u == c * k
           v == d * k
           w == 100 * k
           z == 101 * k
<1>6. c + 1 <= d => u + k <= v
  BY <1>1, <1>2, <1>4
<1>7. c = d => u = v
  OBVIOUS
<1>8. u \in Nat /\ v \in Nat /\ w \in Nat /\ u <= w /\ v <= w /\ z = w + k
  BY <1>4, <1>5
<1> HIDE DEF u, v, w, z
<1>9. u + s < v + t
  BY <1>1, <1>3, <1>6, <1>7, <1>8
<1>10. u + s \in 0..z /\ v + t \in 0..z
  BY <1>1, <1>8
<1> QED BY <1>9, <1>10 DEF u, v, z, c, d, k

LEMMA MatchFields ==
    ASSUME NEW S, NEW text \in Seq(S), NEW least, NEW m \in Matches(text, least)
    PROVE  /\ m.kind \in STRING /\ m.kind # "ours" /\ m.confidence \in 0..100
           /\ m.start \in 1..Len(text) /\ m.end = m.start + ValueLen /\ m.end <= Len(text) + 1
<1> DEFINE L == Len(text)
<1>1. L \in Nat /\ ValueLen \in Nat /\ ValueLen > 1
  BY RulesAssumption
<1>2. PICK v \in Values : \E n \in 1..(L - ValueLen + 1) : \E r \in Rules[v] :
          m = [kind |-> r.kind, start |-> n, end |-> n + ValueLen, value |-> v, confidence |-> r.confidence]
  BY DEF Matches
<1>3. PICK n \in 1..(L - ValueLen + 1), r \in Rules[v] :
          m = [kind |-> r.kind, start |-> n, end |-> n + ValueLen, value |-> v, confidence |-> r.confidence]
  BY <1>2
<1>4. r.confidence \in 0..100 /\ r.kind \in STRING /\ r.kind # "ours"
  BY RulesAssumption
<1>5. n \in 1..L /\ n + ValueLen <= L + 1
  BY <1>1
<1> HIDE DEF L
<1>6. m.kind = r.kind /\ m.start = n /\ m.end = n + ValueLen /\ m.confidence = r.confidence
  BY <1>3
<1> QED BY <1>4, <1>5, <1>6 DEF L

(* A stronger match has a lower rank, and there are finitely many ranks.     *)
Rank(L, m) == (100 - m.confidence) * (L + 1) + m.start

LEMMA RankFalls ==
    ASSUME NEW S, NEW text \in Seq(S), NEW least,
           NEW n \in Matches(text, least), NEW m \in Matches(text, least)
    PROVE  /\ Rank(Len(text), n) \in 0..(101 * (Len(text) + 1))
           /\ Stronger(n, m) => Rank(Len(text), n) < Rank(Len(text), m)
<1> DEFINE L == Len(text)
<1>2. L \in Nat /\ ValueLen \in Nat
  BY RulesAssumption
<1>4. /\ n.confidence \in 0..100 /\ n.start \in 1..L /\ n.end = n.start + ValueLen
      /\ m.confidence \in 0..100 /\ m.start \in 1..L /\ m.end = m.start + ValueLen
  BY MatchFields
<1> DEFINE a == n.confidence
           b == m.confidence
           s == n.start
           t == m.start
<1>11. a \in 0..100 /\ b \in 0..100 /\ s \in 0..L /\ t \in 0..L
  BY <1>2, <1>4
<1>12. n.end - s = ValueLen /\ m.end - t = ValueLen
  BY <1>2, <1>4
<1>13. Stronger(n, m) => (a > b) \/ (a = b /\ s < t)
  BY <1>2, <1>11, <1>12 DEF Stronger
<1>14. (100 - a) * (L + 1) + s \in 0..(101 * (L + 1))
  <2> DEFINE c == 100 - a
             k == L + 1
  <2>1. c \in 0..100 /\ k \in Nat /\ s \in 0..(k - 1)
    <3>1. L \in Nat
      BY <1>2
    <3> HIDE DEF a, s, L
    <3> QED BY <1>11, <3>1
  <2> HIDE DEF c, k
  <2>2. c * k \in Nat /\ c * k <= 100 * k /\ 101 * k = 100 * k + k /\ 100 * k \in Nat
    BY <2>1
  <2> DEFINE u == c * k
             w == 100 * k
             z == 101 * k
  <2> HIDE DEF u, w, z
  <2>3. u \in Nat /\ w \in Nat /\ u <= w /\ z = w + k
    BY <2>2 DEF u, w, z
  <2>4. u + s \in 0..z
    BY <2>1, <2>3
  <2> QED BY <2>4 DEF u, z, c, k
<1> HIDE DEF a, b, s, t, L
<1>15. (a > b) \/ (a = b /\ s < t) => (100 - a) * (L + 1) + s < (100 - b) * (L + 1) + t
  BY <1>2, <1>11, StrongerRank
<1> QED BY <1>13, <1>14, <1>15 DEF Rank, a, b, s, t, L

(* Which matches of a text are kept: those that no stronger kept one overlaps*)
(* (patterns.ts).  In each place one of them is reported.                    *)
KeptOf(found, kept) == kept = [m \in found |-> \A n \in found : Stronger(n, m) /\ Overlap(n, m) => ~kept[n]]
StartsAt(found, kept, i) == {m \in found : kept[m] /\ m.start = i}

LEMMA ScanKept ==
    ASSUME NEW S, NEW text \in Seq(S), NEW least
    PROVE  \E kept, list :
               /\ KeptOf(Matches(text, least), kept)
               /\ list \in Seq(Seq(Matches(text, least))) /\ DOMAIN list = 1..Len(text)
               /\ \A i \in 1..Len(text) :
                     IF StartsAt(Matches(text, least), kept, i) = {} THEN list[i] = <<>>
                     ELSE \E m \in StartsAt(Matches(text, least), kept, i) : list[i] = <<m>>
               /\ ScanText(text, least) = FlattenSeq(list)
<1> DEFINE L == Len(text)
           found == Matches(text, least)
           Weaker(f, m) == \A n \in found : Stronger(n, m) /\ Overlap(n, m) => ~f[n]
           kept == CHOOSE f : f = [m \in found |-> Weaker(f, m)]
           At(i) == {m \in {x \in found : kept[x]} : m.start = i}
           list == [i \in 1..L |-> IF At(i) = {} THEN <<>> ELSE << CHOOSE m \in At(i) : TRUE >>]
           Rk(m) == Rank(L, m)
           K == 101 * (L + 1)
<1>1. ScanText(text, least) = FlattenSeq(list)
  BY DEF ScanText
<1>2. L \in Nat /\ ValueLen \in Nat
  BY RulesAssumption
<1>3. K \in Nat
  BY <1>2
<1>5. ASSUME NEW n \in found, NEW m \in found PROVE Rk(n) \in 0..K /\ (Stronger(n, m) => Rk(n) < Rk(m))
  BY RankFalls
<1> HIDE DEF found, Rk, K, L
<1> DEFINE Settled(f, k) == \A m \in found : Rk(m) <= k => f[m] = Weaker(f, m)
           Good == {k \in 0..K : \E f \in [found -> BOOLEAN] : Settled(f, k)}
<1>6. 0 \in Good
  <2> DEFINE f == [m \in found |-> TRUE]
  <2>1. ASSUME NEW m \in found, Rk(m) <= 0 PROVE f[m] = Weaker(f, m)
    <3>1. \A n \in found : ~Stronger(n, m)
      BY <1>3, <1>5, <2>1
    <3> QED BY <3>1
  <2>2. f \in [found -> BOOLEAN] /\ Settled(f, 0)
    BY <2>1
  <2> HIDE DEF f, Settled
  <2> QED BY <2>2, <1>3
<1>7. ASSUME NEW k \in 1..K, k - 1 \in Good PROVE k \in Good
  <2>1. PICK f \in [found -> BOOLEAN] : Settled(f, k - 1)
    BY <1>7
  <2> DEFINE h == [m \in found |-> IF Rk(m) <= k - 1 THEN f[m] ELSE Weaker(f, m)]
  <2>2. h \in [found -> BOOLEAN]
    OBVIOUS
  <2>3. ASSUME NEW m \in found, Rk(m) <= k PROVE h[m] = Weaker(h, m)
    <3>1. ASSUME NEW n \in found, Stronger(n, m) PROVE h[n] = f[n]
      <4>1. Rk(n) < Rk(m) /\ Rk(n) \in 0..K /\ Rk(m) \in 0..K
        BY <1>5, <3>1
      <4>2. Rk(n) <= k - 1
        BY <1>3, <2>3, <4>1
      <4> QED BY <4>2
    <3>2. Weaker(h, m) = Weaker(f, m)
      BY <3>1
    <3>3. h[m] = Weaker(f, m)
      BY <2>1
    <3> QED BY <3>2, <3>3
  <2>4. Settled(h, k)
    BY <2>3
  <2> HIDE DEF h, Settled
  <2> QED BY <2>2, <2>4
<1>8. \E f : f = [m \in found |-> Weaker(f, m)]
  <2>1. \A k \in 0..K : k \in Good
    <3> HIDE DEF Good
    <3> QED BY <1>3, <1>6, <1>7, Keeping!Induction
  <2>2. K \in Good
    <3>1. K \in 0..K
      BY <1>3
    <3> HIDE DEF Good
    <3> QED BY <2>1, <3>1
  <2>3. PICK f \in [found -> BOOLEAN] : Settled(f, K)
    BY <2>2
  <2>4. ASSUME NEW m \in found PROVE f[m] = Weaker(f, m)
    <3>1. Rk(m) \in 0..K
      BY <1>5
    <3>2. Rk(m) <= K
      BY <1>3, <3>1
    <3> QED BY <2>3, <3>2
  <2>5. f = [m \in found |-> Weaker(f, m)]
    BY <2>4
  <2> QED BY <2>5
<1>9. kept = [m \in found |-> Weaker(kept, m)]
  BY <1>8
<1>10. KeptOf(found, kept)
  BY <1>9 DEF KeptOf
<1> HIDE DEF kept
<1>11. ASSUME NEW i \in 1..L
       PROVE  /\ list[i] \in Seq(found)
              /\ IF StartsAt(found, kept, i) = {} THEN list[i] = <<>>
                 ELSE \E m \in StartsAt(found, kept, i) : list[i] = <<m>>
  <2>1. At(i) = StartsAt(found, kept, i)
    BY DEF StartsAt
  <2>2. CASE At(i) = {}
    BY <2>1, <2>2
  <2>3. CASE At(i) # {}
    <3> DEFINE e == CHOOSE x \in At(i) : TRUE
    <3>1. e \in At(i)
      BY <2>3
    <3>2. e \in found
      BY <3>1
    <3>3. list[i] = <<e>>
      BY <2>3
    <3> HIDE DEF e, list
    <3>4. <<e>> \in Seq(found)
      BY <3>2
    <3> QED BY <2>1, <2>3, <3>1, <3>3, <3>4
  <2> QED BY <2>2, <2>3
<1>12. list \in Seq(Seq(found)) /\ DOMAIN list = 1..L
  <2>1. DOMAIN list = 1..L /\ list = [j \in 1..L |-> list[j]]
    OBVIOUS
  <2>2. L \in Nat
    BY <1>2
  <2> HIDE DEF list
  <2> QED BY <1>11, <2>1, <2>2
<1> HIDE DEF list
<1> QED BY <1>1, <1>10, <1>11, <1>12 DEF found, L

(* A text with a match has one that is kept: the strongest.                  *)
LEMMA ScanFinds ==
    ASSUME NEW S, NEW text \in Seq(S), NEW least, Matches(text, least) # {}
    PROVE  ScanText(text, least) # <<>>
<1> DEFINE L == Len(text)
           found == Matches(text, least)
           Rk(m) == Rank(L, m)
           K == 101 * (L + 1)
<1>1. PICK kept, list :
               /\ KeptOf(found, kept)
               /\ list \in Seq(Seq(found)) /\ DOMAIN list = 1..L
               /\ \A i \in 1..L :
                     IF StartsAt(found, kept, i) = {} THEN list[i] = <<>>
                     ELSE \E m \in StartsAt(found, kept, i) : list[i] = <<m>>
               /\ ScanText(text, least) = FlattenSeq(list)
  BY ScanKept
<1>2. K \in Nat
  <2>1. L \in Nat
    OBVIOUS
  <2> HIDE DEF L
  <2> QED BY <2>1
<1>3. \A n, m \in found : Rk(n) \in 0..K /\ (Stronger(n, m) => Rk(n) < Rk(m))
  BY RankFalls
<1>4. \A m \in found : m.start \in 1..L
  BY MatchFields
<1>5. found # {}
  OBVIOUS
<1> HIDE DEF found, Rk, K, L
<1>10. PICK m \in found : \A n \in found : ~Stronger(n, m)
  <2> DEFINE ranks == {Rk(n) : n \in found}
  <2>1. ranks \subseteq Nat /\ ranks # {}
    BY <1>2, <1>3, <1>5
  <2>2. PICK r \in ranks : \A s \in ranks : r <= s
    BY <2>1, Keeping!LeastIn
  <2>3. PICK m \in found : r = Rk(m)
    OBVIOUS
  <2>4. \A n \in found : Rk(m) <= Rk(n) /\ Rk(m) \in Int /\ Rk(n) \in Int
    BY <1>2, <1>3, <2>2, <2>3
  <2> QED BY <1>3, <2>4
<1>11. kept[m]
  BY <1>1, <1>10 DEF KeptOf
<1> DEFINE i == m.start
<1>13. list[i] # <<>> /\ i \in DOMAIN list
  <2>1. m \in StartsAt(found, kept, i) /\ i \in 1..L
    BY <1>4, <1>11 DEF StartsAt
  <2> HIDE DEF i
  <2>2. StartsAt(found, kept, i) # {}
    BY <2>1
  <2>3. PICK x \in StartsAt(found, kept, i) : list[i] = <<x>>
    BY <1>1, <2>1, <2>2
  <2>4. <<x>> # <<>>
    OBVIOUS
  <2>5. DOMAIN list = 1..L
    BY <1>1
  <2> QED BY <2>1, <2>3, <2>4, <2>5
<1> HIDE DEF i
<1>15. ToSet(list[i]) \subseteq ToSet(FlattenSeq(list))
  BY <1>1, <1>13, FlattenHolds
<1>16. ToSet(list[i]) # {}
  <2>1. list[i] \in Seq(found) /\ list[i] # <<>>
    <3>1. list \in Seq(Seq(found))
      BY <1>1
    <3>2. DOMAIN list = 1..Len(list) /\ \A j \in 1..Len(list) : list[j] \in Seq(found)
      BY <3>1, Positions
    <3>3. i \in DOMAIN list
      BY <1>13
    <3> QED BY <1>13, <3>2, <3>3
  <2>2. 1 \in DOMAIN list[i]
    BY <2>1
  <2> QED BY <2>2 DEF ToSet
<1>17. FlattenSeq(list) # <<>>
  <2>1. ToSet(<<>>) = {}
    BY DEF ToSet
  <2> QED BY <1>15, <1>16, <2>1
<1> QED BY <1>1, <1>17

(* What the gate blanks is no part of a whole value.                         *)
LEMMA BlankedKeeps ==
    ASSUME NEW S, NEW text \in Seq(S), NEW least, Matches(text, least) # {}
    PROVE  Matches(Blanked(text), least) # {} /\ Blanked(text) \in Seq(S \cup {Plain})
<1> DEFINE N == Len(text)
           marked == Held(text, {"ours", "theirs"})
           bare == Blanked(text)
<1>1. N \in Nat /\ DOMAIN text = 1..N /\ ValueLen \in Nat /\ ValueLen > 1
  BY RulesAssumption
<1>2. bare = [n \in 1..N |-> IF n \in marked THEN Plain ELSE text[n]]
  BY <1>1 DEF Blanked
<1>3. bare \in Seq(S \cup {Plain}) /\ Len(bare) = N
  <2>1. \A n \in 1..N : (IF n \in marked THEN Plain ELSE text[n]) \in S \cup {Plain}
    BY <1>1
  <2> HIDE DEF marked, bare, N
  <2> QED BY <1>1, <1>2, <2>1
<1>4. PICK v \in Values : \E s \in 1..(N - ValueLen + 1) : \E r \in Rules[v] :
          SubSeq(text, s, s + ValueLen - 1) = Whole(v) /\ r.valid /\ r.confidence >= least
  BY DEF Matches
<1>5. PICK s \in 1..(N - ValueLen + 1), r \in Rules[v] :
          SubSeq(text, s, s + ValueLen - 1) = Whole(v) /\ r.valid /\ r.confidence >= least
  BY <1>4
<1>6. s \in 1..N /\ s + ValueLen - 1 \in 1..N
  BY <1>1
<1>7. ASSUME NEW k \in 1..ValueLen PROVE text[s + k - 1] = <<v, k>>
  <2>1. SubSeq(text, s, s + ValueLen - 1)[k] = text[s + k - 1]
    BY <1>1, <1>6
  <2>2. Whole(v)[k] = <<v, k>>
    BY DEF Whole
  <2> QED BY <2>1, <2>2, <1>5
<1>8. \A n \in s..(s + ValueLen - 1) : text[n] = <<v, n - s + 1>>
  <2> SUFFICES ASSUME NEW n \in s..(s + ValueLen - 1) PROVE text[n] = <<v, n - s + 1>>
    OBVIOUS
  <2> DEFINE k == n - s + 1
  <2>1. k \in 1..ValueLen /\ s + k - 1 = n
    BY <1>1, <1>6
  <2> HIDE DEF k
  <2>2. text[n] = <<v, k>>
    BY <1>7, <2>1
  <2> QED BY <2>2 DEF k
<1>9. ASSUME NEW n \in s..(s + ValueLen - 1), n \in marked PROVE FALSE
  <2>1. PICK i \in 1..(N - 2) : n \in i..(i + 2) /\ text[i] = Opening /\ text[i + 2][1] \in {"ours", "theirs"}
    BY <1>9 DEF Held
  <2>2. i \notin s..(s + ValueLen - 1)
    <3> SUFFICES ASSUME i \in s..(s + ValueLen - 1) PROVE FALSE
      OBVIOUS
    <3>1. <<"[[PII", 0>> = <<v, i - s + 1>>
      BY <1>8, <2>1 DEF Opening
    <3> DEFINE m == i - s + 1
    <3>2. m # 0
      BY <1>1, <1>6
    <3> HIDE DEF m
    <3>3. <<"[[PII", 0>> = <<v, m>>
      BY <3>1 DEF m
    <3>4. m = 0
      BY <3>3, ZenonT(60)
    <3> QED BY <3>2, <3>4
  <2>3. i + 2 \notin s..(s + ValueLen - 1)
    <3> SUFFICES ASSUME i + 2 \in s..(s + ValueLen - 1) PROVE FALSE
      OBVIOUS
    <3>1. text[i + 2] = <<v, (i + 2) - s + 1>>
      BY <1>8
    <3>2. text[i + 2][1] = v
      BY <3>1
    <3>3. v \notin {"ours", "theirs"}
      BY RulesAssumption
    <3> QED BY <2>1, <3>2, <3>3
  <2> QED BY <1>1, <1>6, <2>1, <2>2, <2>3
<1>10. \A n \in s..(s + ValueLen - 1) : bare[n] = text[n]
  BY <1>1, <1>2, <1>6, <1>9
<1> HIDE DEF bare, marked
<1>11. SubSeq(bare, s, s + ValueLen - 1) = Whole(v)
  <2> DEFINE a == SubSeq(bare, s, s + ValueLen - 1)
  <2>1. a = [k \in 1..ValueLen |-> bare[s + k - 1]]
    <3>1. (s + ValueLen - 1) - s + 1 = ValueLen
      BY <1>1, <1>6
    <3>2. bare \in Seq(S \cup {Plain}) /\ s \in Int /\ s + ValueLen - 1 \in Int
      BY <1>1, <1>3, <1>6
    <3> QED BY <3>1, <3>2
  <2>2. \A k \in 1..ValueLen : bare[s + k - 1] = <<v, k>>
    <3> SUFFICES ASSUME NEW k \in 1..ValueLen PROVE bare[s + k - 1] = <<v, k>>
      OBVIOUS
    <3>1. s + k - 1 \in s..(s + ValueLen - 1)
      BY <1>1, <1>6
    <3> QED BY <1>7, <1>10, <3>1
  <2> HIDE DEF a
  <2> QED BY <2>1, <2>2 DEF Whole, a
<1>12. s \in {n \in 1..(Len(bare) - ValueLen + 1) : SubSeq(bare, n, n + ValueLen - 1) = Whole(v)}
  BY <1>3, <1>11
<1>13. r \in {rule \in Rules[v] : rule.valid /\ rule.confidence >= least}
  BY <1>5
<1> DEFINE m == [kind |-> r.kind, start |-> s, end |-> s + ValueLen, value |-> v, confidence |-> r.confidence]
<1> DEFINE starts(w) == {n \in 1..(Len(bare) - ValueLen + 1) : SubSeq(bare, n, n + ValueLen - 1) = Whole(w)}
           rules(w) == {rule \in Rules[w] : rule.valid /\ rule.confidence >= least}
           of(w) == {[kind |-> q.kind, start |-> n, end |-> n + ValueLen, value |-> w, confidence |-> q.confidence] :
                        n \in starts(w), q \in rules(w)}
<1>14. m \in Matches(bare, least)
  <2>1. Matches(bare, least) = UNION {of(w) : w \in Values}
    BY DEF Matches
  <2>2. s \in starts(v) /\ r \in rules(v)
    BY <1>12, <1>13
  <2> HIDE DEF starts, rules
  <2>3. m \in of(v)
    BY <2>2
  <2> HIDE DEF of, m
  <2> QED BY <2>1, <2>3
<1> QED BY <1>3, <1>14 DEF bare

LEMMA GateFinds ==
    ASSUME NEW S, NEW text \in Seq(S), ScanText(Blanked(text), MinConfidence) = <<>>
    PROVE  Matches(text, MinConfidence) = {}
<1> SUFFICES ASSUME Matches(text, MinConfidence) # {} PROVE FALSE
  OBVIOUS
<1>1. Matches(Blanked(text), MinConfidence) # {} /\ Blanked(text) \in Seq(S \cup {Plain})
  BY BlankedKeeps
<1> QED BY <1>1, ScanFinds

-----------------------------------------------------------------------------
(* The texts of the context are sequences of tokens, and all of them are     *)
(* among the fields that the gate looks at.                                  *)

Atoms == [text : Seq(Tokens), redacted : BOOLEAN]

LEMMA AtomType ==
    ASSUME NEW text \in Seq(Tokens)
    PROVE  Atom(text) \in Atoms /\ AtomOrNone(text) \in Atoms
<1>1. OnlyOurs(text) \in Seq(Tokens)
  BY KeptType DEF OnlyOurs, Stripped
<1>2. Atom(text) \in Atoms
  BY <1>1 DEF Atom, Atoms, Redacted
<1>3. NoAtom \in Atoms
  BY DEF NoAtom, Atoms, Absent
<1> QED BY <1>2, <1>3 DEF AtomOrNone

LEMMA ElementTexts ==
    ASSUME NEW p \in Seq(Scanned), NEW doc \in Documents(p)
    PROVE  /\ doc.els \in Seq(Shown) /\ DOMAIN doc.els = DOMAIN p
           /\ \A i \in DOMAIN p : /\ doc.els[i].label \in Seq(Tokens) /\ doc.els[i].value \in Seq(Tokens)
                                  /\ doc.els[i].text \in Seq(Tokens) /\ doc.els[i].parent = p[i].parent
                                  /\ doc.els[i].parent \in Nat
<1>1. doc.els \in [DOMAIN p -> Shown] /\ \A i \in DOMAIN p : SameElement(doc.els[i], p[i])
  BY DEF Documents, Els
<1>2. DOMAIN p = 1..Len(p) /\ Len(p) \in Nat
  OBVIOUS
<1>3. doc.els \in Seq(Shown) /\ DOMAIN doc.els = DOMAIN p
  BY <1>1, <1>2
<1>4. ASSUME NEW i \in DOMAIN p
      PROVE  /\ doc.els[i].label \in Seq(Tokens) /\ doc.els[i].value \in Seq(Tokens)
             /\ doc.els[i].text \in Seq(Tokens) /\ doc.els[i].parent = p[i].parent
             /\ doc.els[i].parent \in Nat
  <2>1. doc.els[i] \in Shown
    BY <1>1
  <2> QED BY <2>1, <1>1 DEF Shown, SameElement
<1> QED BY <1>3, <1>4

(* The texts of some of the elements, one after the other.                   *)
LEMMA JoinedTexts ==
    ASSUME NEW p \in Seq(Scanned), NEW list, DOMAIN list = DOMAIN p, list = [j \in DOMAIN p |-> list[j]],
           \A j \in DOMAIN p : list[j] \in Seq(Tokens)
    PROVE  FlattenSeq(list) \in Seq(Tokens)
BY EachType

LEMMA VisibleType ==
    ASSUME NEW p \in Seq(Scanned), NEW doc \in Documents(p), NEW i
    PROVE  VisibleText(doc.els, doc.gone, i) \in Seq(Tokens)
<1> DEFINE els == doc.els
           seen(j) == /\ j \notin doc.gone
                       /\ \/ j = i
                          \/ /\ Under(els, i, j)
                             /\ \A k \in {j} \cup ToSet(Ancestors(els, j)) : Under(els, i, k) => ~els[k].unrendered
           list == [j \in DOMAIN els |-> IF seen(j) THEN els[j].text ELSE <<>>]
<1>1. VisibleText(els, doc.gone, i) = FlattenSeq(list)
  BY DEF VisibleText
<1> HIDE DEF seen
<1>2. DOMAIN els = DOMAIN p /\ \A j \in DOMAIN p : els[j].text \in Seq(Tokens)
  BY ElementTexts
<1> HIDE DEF els
<1>3. \A j \in DOMAIN p : list[j] \in Seq(Tokens)
  BY <1>2
<1>4. DOMAIN list = DOMAIN p /\ list = [j \in DOMAIN p |-> list[j]]
  BY <1>2
<1> HIDE DEF list
<1>5. FlattenSeq(list) \in Seq(Tokens)
  BY <1>3, <1>4, JoinedTexts
<1> QED BY <1>1, <1>5 DEF els

LEMMA CellTextType ==
    ASSUME NEW p \in Seq(Scanned), NEW doc \in Documents(p), NEW i
    PROVE  CellText(doc, i) \in Seq(Tokens)
<1> DEFINE els == doc.els
           seen(j) == Present(doc, j) /\ (j = i \/ Under(els, i, j))
           list == [j \in DOMAIN els |-> IF seen(j) THEN els[j].text ELSE <<>>]
<1>1. CellText(doc, i) = FlattenSeq(list)
  BY DEF CellText
<1> HIDE DEF seen
<1>2. DOMAIN els = DOMAIN p /\ \A j \in DOMAIN p : els[j].text \in Seq(Tokens)
  BY ElementTexts
<1> HIDE DEF els
<1>3. \A j \in DOMAIN p : list[j] \in Seq(Tokens)
  BY <1>2
<1>4. DOMAIN list = DOMAIN p /\ list = [j \in DOMAIN p |-> list[j]]
  BY <1>2
<1> HIDE DEF list
<1>5. FlattenSeq(list) \in Seq(Tokens)
  BY <1>3, <1>4, JoinedTexts
<1> QED BY <1>1, <1>5

LEMMA NameType ==
    ASSUME NEW p \in Seq(Scanned), NEW doc \in Documents(p), NEW i \in DOMAIN p
    PROVE  AccessibleName(doc.els, doc.gone, i) \in Seq(Tokens)
<1>1. doc.els[i].label \in Seq(Tokens) /\ <<>> \in Seq(Tokens)
  BY ElementTexts
<1>2. \A j : VisibleText(doc.els, doc.gone, j) \in Seq(Tokens)
  BY VisibleType
<1> DEFINE wrapping == Those(<<i>> \o Ancestors(doc.els, i), LAMBDA j : doc.els[j].tag = "label")
           wrapped == IF wrapping = <<>> THEN <<>> ELSE VisibleText(doc.els, doc.gone, wrapping[1])
<1>3. \/ AccessibleName(doc.els, doc.gone, i) = doc.els[i].label
      \/ AccessibleName(doc.els, doc.gone, i) = wrapped
      \/ AccessibleName(doc.els, doc.gone, i) = VisibleText(doc.els, doc.gone, i)
      \/ AccessibleName(doc.els, doc.gone, i) = <<>>
  BY DEF AccessibleName
<1>4. wrapped \in Seq(Tokens)
  BY <1>1, <1>2
<1> HIDE DEF wrapped
<1> QED BY <1>1, <1>2, <1>3, <1>4

LEMMA AncestorsType ==
    ASSUME NEW p \in Seq(Scanned), \A j \in DOMAIN p : p[j].parent < j,
           NEW doc \in Documents(p), NEW i \in DOMAIN p
    PROVE  Ancestors(doc.els, i) \in Seq(Nat)
<1> DEFINE els == doc.els
           N == Len(els)
           Up(f, n) == IF n = 0 THEN <<>> ELSE <<n>> \o f[els[n].parent]
           up == CHOOSE f : f = [n \in 0..N |-> Up(f, n)]
           Settled(f, k) == \A n \in 0..k : f[n] = Up(f, n)
           Good == {k \in 0..N : \E f \in [0..N -> Seq(Nat)] : Settled(f, k)}
<1>1. Ancestors(els, i) = Tail(up[i])
  BY DEF Ancestors
<1>2. N \in Nat /\ DOMAIN els = 1..N /\ i \in 1..N /\ \A n \in 1..N : els[n].parent \in 0..(n - 1)
  <2>1. /\ els \in Seq(Shown) /\ DOMAIN els = DOMAIN p
        /\ \A n \in DOMAIN p : els[n].parent = p[n].parent /\ els[n].parent \in Nat
    BY ElementTexts
  <2>2. DOMAIN p = 1..Len(p)
    OBVIOUS
  <2> HIDE DEF els
  <2> QED BY <2>1, <2>2
<1> HIDE DEF N, els
<1>3. 0 \in Good
  <2> DEFINE f == [n \in 0..N |-> <<>>]
  <2>1. f \in [0..N -> Seq(Nat)] /\ Settled(f, 0)
    BY <1>2
  <2> HIDE DEF f, Settled
  <2> QED BY <2>1, <1>2
<1>4. ASSUME NEW k \in 1..N, k - 1 \in Good PROVE k \in Good
  <2>1. PICK f \in [0..N -> Seq(Nat)] : Settled(f, k - 1)
    BY <1>4
  <2> DEFINE h == [f EXCEPT ![k] = <<k>> \o f[els[k].parent]]
  <2>2. els[k].parent \in 0..N /\ k \in 0..N /\ k \in Nat
    BY <1>2
  <2>3. <<k>> \o f[els[k].parent] \in Seq(Nat)
    BY <2>2
  <2>4. h \in [0..N -> Seq(Nat)]
    BY <2>3
  <2>5. ASSUME NEW n \in 0..k PROVE h[n] = Up(h, n)
    <3>1. n \in 0..N /\ (n # 0 => els[n].parent \in 0..(n - 1))
      BY <1>2
    <3>2. ASSUME n # 0 PROVE h[els[n].parent] = f[els[n].parent]
      <4>1. els[n].parent \in 0..N /\ els[n].parent < k
        BY <1>2, <3>1, <3>2
      <4> DEFINE e == <<k>> \o f[els[k].parent]
                 m == els[n].parent
      <4> HIDE DEF e, m
      <4>2. h = [f EXCEPT ![k] = e] /\ m # k
        BY <4>1 DEF e, m
      <4> QED BY <4>2 DEF m
    <3>3. CASE n = k
      <4> DEFINE e == <<k>> \o f[els[k].parent]
      <4>3. k # 0
        BY <1>2
      <4>4. h[k] = e
        <5> HIDE DEF e
        <5>1. h = [f EXCEPT ![k] = e]
          BY DEF e
        <5> QED BY <2>2, <5>1
      <4>1. h[k] = <<k>> \o f[els[k].parent] /\ k # 0
        BY <4>3, <4>4
      <4>2. Up(h, k) = <<k>> \o h[els[k].parent]
        BY <4>1
      <4> QED BY <3>2, <3>3, <4>1, <4>2
    <3>4. CASE n # k
      <4>1. h[n] = f[n] /\ n \in 0..(k - 1)
        BY <1>2, <3>1, <3>4
      <4>2. f[n] = Up(f, n)
        BY <2>1, <4>1
      <4> QED BY <3>2, <4>1, <4>2
    <3> QED BY <3>3, <3>4
  <2>6. Settled(h, k)
    BY <2>5
  <2> HIDE DEF h, Settled
  <2> QED BY <2>2, <2>4, <2>6
<1>5. N \in Good
  <2> HIDE DEF Good
  <2>1. \A k \in 0..N : k \in Good
    BY <1>2, <1>3, <1>4, Keeping!Induction
  <2> QED BY <1>2, <2>1
<1>6. PICK f \in [0..N -> Seq(Nat)] : Settled(f, N)
  BY <1>5
<1>7. \E g : g = [n \in 0..N |-> Up(g, n)]
  <2>1. f = [n \in 0..N |-> Up(f, n)]
    BY <1>6
  <2> HIDE DEF Up
  <2> QED BY <2>1
<1>8. up = [n \in 0..N |-> Up(up, n)]
  <2> HIDE DEF Up
  <2> QED BY <1>7
<1> HIDE DEF up
<1> DEFINE Typed == {n \in 0..N : \A m \in 0..n : up[m] \in Seq(Nat)}
<1>9. 0 \in Typed
  <2>1. up[0] = <<>>
    BY <1>2, <1>8
  <2>2. \A m \in 0..0 : up[m] \in Seq(Nat)
    <3>1. <<>> \in Seq(Nat) /\ \A m \in 0..0 : m = 0
      OBVIOUS
    <3> QED BY <2>1, <3>1
  <2> QED BY <1>2, <2>2
<1>10. ASSUME NEW n \in 1..N, n - 1 \in Typed PROVE n \in Typed
  <2>1. up[n] = <<n>> \o up[els[n].parent]
    <3>1. n \in 0..N /\ n # 0
      BY <1>2
    <3>2. up[n] = Up(up, n)
      BY <1>8, <3>1
    <3> QED BY <3>1, <3>2
  <2>2. up[els[n].parent] \in Seq(Nat) /\ n \in Nat
    BY <1>2, <1>10
  <2>3. up[n] \in Seq(Nat)
    BY <2>1, <2>2
  <2>4. \A m \in 0..n : m = n \/ m \in 0..(n - 1)
    BY <2>2
  <2>5. \A m \in 0..n : up[m] \in Seq(Nat)
    BY <2>3, <2>4, <1>10
  <2> QED BY <2>5
<1>11. up[els[i].parent] \in Seq(Nat) /\ up[i] = <<i>> \o up[els[i].parent]
  <2>1. \A n \in 0..N : n \in Typed
    <3> HIDE DEF Typed
    <3> QED BY <1>2, <1>9, <1>10, Keeping!Induction
  <2>2. N \in Typed
    <3> HIDE DEF Typed
    <3> QED BY <1>2, <2>1
  <2>3. els[i].parent \in 0..N /\ i \in 0..N /\ i # 0
    BY <1>2
  <2> QED BY <2>2, <2>3, <1>8
<1>12. Tail(up[i]) \in Seq(Nat)
  BY <1>2, <1>11
<1> QED BY <1>1, <1>12 DEF els

LEMMA FirstKnownType ==
    ASSUME NEW texts, DOMAIN texts \subseteq Nat, \A n \in DOMAIN texts : texts[n] \in Seq(Tokens)
    PROVE  FirstKnown(texts) \in Seq(Tokens)
<1> DEFINE known == {n \in DOMAIN texts : texts[n] # Absent}
           First(n) == \A m \in known : n <= m
<1>1. FirstKnown(texts) = IF known = {} THEN Absent ELSE texts[CHOOSE n \in known : First(n)]
  BY DEF FirstKnown
<1>2. CASE known = {}
  BY <1>1, <1>2 DEF Absent
<1>3. CASE known # {}
  <2>1. known \subseteq Nat /\ known \subseteq DOMAIN texts
    OBVIOUS
  <2> HIDE DEF known
  <2>2. \E n \in known : First(n)
    BY <1>3, <2>1, Keeping!LeastIn
  <2> DEFINE k == CHOOSE n \in known : First(n)
  <2>3. k \in known
    BY <2>2
  <2> HIDE DEF k
  <2> QED BY <1>1, <1>3, <2>1, <2>3 DEF k
<1> QED BY <1>2, <1>3

LEMMA GroupNameType ==
    ASSUME NEW p \in Seq(Scanned), \A j \in DOMAIN p : p[j].parent < j,
           NEW doc \in Documents(p), NEW i \in DOMAIN p
    PROVE  NearbyGroupName(doc, i) \in Seq(Tokens)
<1> DEFINE up == Ancestors(doc.els, i)
           Lent(n) == << IF IsContainer(doc.els[up[n]]) THEN FirstNamed(doc, up[n], {"heading"}) ELSE Absent,
                         FirstNamed(doc, up[n], {"link"}) >>
           list == [n \in DOMAIN up |-> Lent(n)]
<1>1. NearbyGroupName(doc, i) = FirstKnown(FlattenSeq(list))
  BY DEF NearbyGroupName
<1>2. ASSUME NEW box, NEW roles PROVE FirstNamed(doc, box, roles) \in Seq(Tokens)
  <2> DEFINE T(j) == IF Present(doc, j) /\ Under(doc.els, box, j) /\ RoleOf(doc.els[j]) \in roles
                     THEN AccessibleName(doc.els, doc.gone, j) ELSE Absent
             texts == [j \in DOMAIN doc.els |-> T(j)]
  <2>1. FirstNamed(doc, box, roles) = FirstKnown(texts)
    BY DEF FirstNamed
  <2>2. DOMAIN doc.els = DOMAIN p /\ DOMAIN p \subseteq Nat
    BY ElementTexts
  <2>3. \A j \in DOMAIN p : T(j) \in Seq(Tokens)
    BY NameType DEF Absent
  <2> HIDE DEF T
  <2>4. DOMAIN texts \subseteq Nat /\ \A j \in DOMAIN texts : texts[j] \in Seq(Tokens)
    BY <2>2, <2>3
  <2> HIDE DEF texts
  <2> QED BY <2>1, <2>4, FirstKnownType
<1>3. up \in Seq(Nat)
  BY AncestorsType
<1> HIDE DEF up
<1>4. ASSUME NEW n \in DOMAIN up PROVE Lent(n) \in Seq(Seq(Tokens))
  <2> DEFINE a == IF IsContainer(doc.els[up[n]]) THEN FirstNamed(doc, up[n], {"heading"}) ELSE Absent
             b == FirstNamed(doc, up[n], {"link"})
  <2>1. a \in Seq(Tokens) /\ b \in Seq(Tokens)
    BY <1>2 DEF Absent
  <2> HIDE DEF a, b
  <2>2. <<a, b>> \in Seq(Seq(Tokens))
    BY <2>1
  <2> QED BY <2>2 DEF a, b
<1> HIDE DEF Lent
<1>5. list \in Seq(Seq(Seq(Tokens)))
  <2>1. DOMAIN up = 1..Len(up) /\ Len(up) \in Nat
    BY <1>3
  <2> QED BY <1>4, <2>1
<1> HIDE DEF list
<1> DEFINE flat == FlattenSeq(list)
<1>6. flat \in Seq(Seq(Tokens))
  BY <1>5, FlattenType
<1> HIDE DEF flat
<1>7. DOMAIN flat \subseteq Nat /\ \A n \in DOMAIN flat : flat[n] \in Seq(Tokens)
  BY <1>6
<1>8. FirstKnown(flat) \in Seq(Tokens)
  BY <1>7, FirstKnownType
<1> QED BY <1>1, <1>8 DEF flat

LEMMA AttrsType ==
    ASSUME NEW p \in Seq(Scanned), NEW doc \in Documents(p), NEW i \in DOMAIN p, NEW name
    PROVE  SafeAttrs(doc.els[i], name) \in Seq(Atoms)
<1>1. doc.els[i].label \in Seq(Tokens)
  BY ElementTexts
<1>2. Atom(doc.els[i].label) \in Atoms
  BY <1>1, AtomType
<1> DEFINE a == Atom(doc.els[i].label)
<1> HIDE DEF a
<1>3. << a >> \in Seq(Atoms) /\ <<>> \in Seq(Atoms)
  BY <1>2 DEF a
<1> QED BY <1>3 DEF SafeAttrs, a

CountStep(c, m, row) == MostOf(m, Len(Children(c, row)))
Widest == INSTANCE FoldFacts WITH Op <- CountStep, Base <- LAMBDA c : 0

(* A table that was read: its columns, each with its heading.                *)
Headed(read) ==
    /\ read.columns \in Seq(ToSet(read.columns))
    /\ \A c \in ToSet(read.columns) : c.label \in Seq(Tokens)

LEMMA SomePositions ==
    ASSUME NEW p \in Seq(Scanned), NEW doc \in Documents(p), NEW keep
    PROVE  Kept([j \in DOMAIN doc.els |-> j], keep) \in Seq(DOMAIN p)
<1> DEFINE is == [j \in DOMAIN doc.els |-> j]
<1>1. DOMAIN doc.els = DOMAIN p /\ DOMAIN p = 1..Len(p) /\ Len(p) \in Nat
  BY ElementTexts
<1>2. is \in Seq(DOMAIN p)
  BY <1>1
<1> HIDE DEF is
<1> QED BY <1>2, KeptType DEF is

LEMMA HeadedNothing ==
    ASSUME NEW read, read.columns = <<>>
    PROVE  Headed(read)
BY DEF Headed, ToSet

LEMMA HeadedColumns ==
    ASSUME NEW n \in Nat, NEW cols, DOMAIN cols = 1..n, cols = [c \in 1..n |-> cols[c]],
           \A c \in 1..n : cols[c].label \in Seq(Tokens)
    PROVE  cols \in Seq(ToSet(cols)) /\ \A c \in ToSet(cols) : c.label \in Seq(Tokens)
<1>1. \A c \in 1..n : cols[c] \in ToSet(cols)
  BY DEF ToSet
<1> DEFINE T == ToSet(cols)
<1> HIDE DEF T
<1>2. cols \in Seq(T)
  BY <1>1 DEF T
<1> QED BY <1>2 DEF T, ToSet

LEMMA LabelType ==
    ASSUME NEW p \in Seq(Scanned), NEW doc \in Documents(p), NEW header, NEW c
    PROVE  LabelOf(doc, header, c) \in Seq(Tokens)
<1>1. \A i : CellText(doc, i) \in Seq(Tokens)
  BY CellTextType
<1>2. <<>> \in Seq(Tokens)
  OBVIOUS
<1> QED BY <1>1, <1>2 DEF LabelOf

(* A table is as wide as its headings, or as its widest row.                 *)
LEMMA WidthType ==
    ASSUME NEW p \in Seq(Scanned), NEW doc \in Documents(p), NEW header, NEW body \in Seq(DOMAIN p)
    PROVE  (IF header # 0 THEN Len(Children(doc, header))
            ELSE FoldLeft(LAMBDA m, r : MostOf(m, Len(Children(doc, r))), 0, body)) \in Nat
<1>1. ASSUME NEW i PROVE Len(Children(doc, i)) \in Nat
  <2>1. Children(doc, i) \in Seq(DOMAIN p)
    BY SomePositions DEF Children, Those
  <2> QED BY <2>1
<1>2. FoldLeft(LAMBDA m, r : MostOf(m, Len(Children(doc, r))), 0, body) \in Nat
  <2> DEFINE N == Len(body)
  <2>1. FoldLeft(LAMBDA m, r : MostOf(m, Len(Children(doc, r))), 0, body) = Widest!Fold(doc, body)
    BY DEF Widest!Fold, Widest!FoldOn, FoldLeft, MapThenFoldSet, Max, Widest!Top, CountStep
  <2>2. N \in Nat /\ DOMAIN body = 1..N
    OBVIOUS
  <2>3. \A n \in 1..N : \A m \in Nat : CountStep(doc, m, body[n]) \in Nat
    BY <1>1 DEF CountStep, MostOf
  <2>4. 0 \in Nat
    OBVIOUS
  <2> HIDE DEF N
  <2>5. Widest!Fold(doc, body) \in Nat
    BY <2>2, <2>3, <2>4, Widest!Stays
  <2> QED BY <2>1, <2>5
<1> QED BY <1>1, <1>2

LEMMA ReadHeaded ==
    ASSUME NEW p \in Seq(Scanned), NEW doc \in Documents(p), NEW header, NEW body \in Seq(DOMAIN p)
    PROVE  Headed(ReadBody(doc, header, body))
<1> DEFINE declared == IF header # 0 THEN Len(Children(doc, header))
                       ELSE FoldLeft(LAMBDA m, r : MostOf(m, Len(Children(doc, r))), 0, body)
           columns == LeastOf(declared, MaxColumns)
           rows == LeastOf(Len(body), LeastOf(MaxRows, MaxTableCells \div columns))
           read == ReadRows(doc, header, body, declared, columns, rows)
<1>1. ReadBody(doc, header, body) = IF columns = 0 THEN NothingRead ELSE read
  BY DEF ReadBody
<1>4. declared \in Nat
  BY WidthType
<1> HIDE DEF declared
<1>5. columns \in Nat
  BY <1>4, AnalysisAssumption DEF LeastOf
<1> HIDE DEF columns, rows
<1>6. Headed(read)
  <2> DEFINE Column(c) == ReadCells(doc, header, c, [r \in 1..rows |-> CellAt(doc, body[r], c)])
             cols == [c \in 1..columns |-> Column(c)]
  <2>1. read.columns = cols
    BY DEF ReadRows
  <2>2. \A c \in 1..columns : Column(c).label = LabelOf(doc, header, c)
    BY DEF ReadCells, ReadColumn, Summed
  <2> HIDE DEF Column
  <2>3. \A c \in 1..columns : cols[c].label \in Seq(Tokens)
    BY <2>2, LabelType
  <2>4. DOMAIN cols = 1..columns /\ cols = [c \in 1..columns |-> cols[c]]
    OBVIOUS
  <2> HIDE DEF cols
  <2>5. cols \in Seq(ToSet(cols)) /\ \A c \in ToSet(cols) : c.label \in Seq(Tokens)
    BY <1>5, <2>3, <2>4, HeadedColumns
  <2> QED BY <2>1, <2>5 DEF Headed
<1> HIDE DEF read
<1>7. Headed(NothingRead)
  BY HeadedNothing DEF NothingRead
<1> QED BY <1>1, <1>6, <1>7

LEMMA AnalysisHeaded ==
    ASSUME NEW p \in Seq(Scanned), NEW doc \in Documents(p), NEW done
    PROVE  Headed(AnalyzeDocument(doc, done))
<1> DEFINE table == ChooseTable(doc)
           rows == Below(doc, table, {"tr"})
           header == HeaderRow(doc, rows)
           body == Those(rows, LAMBDA r : r # header)
           read == ReadTable(doc, table)
           numeric == NumericOf(read)
           told == Analyzed(read, table, numeric, done)
<1>1. rows \in Seq(DOMAIN p)
  BY SomePositions DEF Below, Those
<1>2. body \in Seq(DOMAIN p)
  <2> HIDE DEF rows, header
  <2> QED BY <1>1, KeptType DEF Those
<1>3. read = ReadBody(doc, header, body)
  BY DEF ReadTable
<1> HIDE DEF table, rows, header, body
<1>4. Headed(read)
  BY <1>2, <1>3, ReadHeaded
<1> HIDE DEF read, numeric
<1>5. told.columns = <<>> \/ told.columns = read.columns
  BY DEF Analyzed, Figures, Refuse
<1>6. Headed(told)
  <2>1. CASE told.columns = <<>>
    BY <2>1, HeadedNothing
  <2>2. CASE told.columns = read.columns
    BY <1>4, <2>2 DEF Headed
  <2> QED BY <1>5, <2>1, <2>2
<1> HIDE DEF told
<1>7. Headed(Refuse("no-table-found", 0, <<>>))
  BY HeadedNothing DEF Refuse
<1>8. AnalyzeDocument(doc, done) = IF table = 0 THEN Refuse("no-table-found", 0, <<>>) ELSE told
  BY DEF AnalyzeDocument, AnalyzeRead, table, read, numeric, told
<1> QED BY <1>6, <1>7, <1>8

(* What a context says in words.                                             *)
Worded(told) ==
    /\ told.elements \in Seq(ToSet(told.elements))
    /\ \A el \in ToSet(told.elements) :
          el.name \in Atoms /\ el.groupName \in Atoms /\ el.value \in Atoms /\ el.attrs \in Seq(Atoms)
    /\ told.containers \in Seq(ToSet(told.containers))
    /\ \A c \in ToSet(told.containers) : c.attrs \in Seq(Atoms)
    /\ Headed(told.analysis)
    /\ told.title \in Atoms
    /\ told.earlier \in Seq(Seq(Tokens))

LEMMA TitleWords ==
    ASSUME NEW p \in Seq(Scanned), NEW doc \in Documents(p)
    PROVE  Raw(OnlyOurs(TitleText(doc))) \in Atoms
<1> DEFINE T(j) == IF Present(doc, j) /\ doc.els[j].tag = "title" THEN doc.els[j].text ELSE Absent
           texts == [j \in DOMAIN doc.els |-> T(j)]
<1>1. TitleText(doc) = FirstKnown(texts)
  BY DEF TitleText
<1>2. \A j \in DOMAIN texts : texts[j] \in Seq(Tokens)
  BY ElementTexts DEF Absent
<1>3. FirstKnown(texts) \in Seq(Tokens)
  <2>1. DOMAIN texts \subseteq Nat
    BY ElementTexts
  <2> HIDE DEF texts
  <2> QED BY <1>2, <2>1, FirstKnownType
<1>4. OnlyOurs(TitleText(doc)) \in Seq(Tokens)
  BY <1>1, <1>3, KeptType DEF OnlyOurs, Stripped
<1> QED BY <1>4 DEF Raw, Atoms

LEMMA TextsSpoken == Seq(Texts) \subseteq Seq(Seq(Tokens))
<1>1. Texts \subseteq Seq(Tokens)
  BY TextTokens
<1> QED BY <1>1

LEMMA ElementWords ==
    ASSUME NEW p \in Seq(Scanned), \A j \in DOMAIN p : p[j].parent < j,
           NEW doc \in Documents(p), NEW detections, NEW n, NEW i \in DOMAIN p,
           NEW el, el = Element(doc, detections, n, i)
    PROVE  /\ el.name \in Atoms /\ el.groupName \in Atoms /\ el.value \in Atoms /\ el.attrs \in Seq(Atoms)
           /\ el = [el EXCEPT !.container = el.container]
<1> DEFINE name == AccessibleName(doc.els, doc.gone, i)
           group == NearbyGroupName(doc, i)
           value == IF doc.els[i].tag \in {"input", "textarea"} THEN Atom(ControlValue(doc.els[i])) ELSE NoAtom
<1>1. name \in Seq(Tokens) /\ group \in Seq(Tokens)
  BY NameType, GroupNameType
<1>2. ControlValue(doc.els[i]) \in Seq(Tokens)
  BY ElementTexts DEF ControlValue
<1>3. value \in Atoms
  <2>1. Atom(ControlValue(doc.els[i])) \in Atoms
    BY <1>2, AtomType
  <2>2. NoAtom \in Atoms
    BY DEF NoAtom, Atoms, Absent
  <2> QED BY <2>1, <2>2
<1>4. /\ el.name = AtomOrNone(name) /\ el.groupName = AtomOrNone(group) /\ el.value = value
      /\ el.attrs = SafeAttrs(doc.els[i], name)
      /\ el = [el EXCEPT !.container = el.container]
  BY DEF Element, Named
<1> HIDE DEF name, group, value
<1>5. AtomOrNone(name) \in Atoms /\ AtomOrNone(group) \in Atoms
  BY <1>1, AtomType
<1>6. SafeAttrs(doc.els[i], name) \in Seq(Atoms)
  BY AttrsType
<1> QED BY <1>3, <1>4, <1>5, <1>6

LEMMA ContextWorded ==
    ASSUME NEW p \in Seq(Scanned), \A j \in DOMAIN p : p[j].parent < j,
           NEW redacted, redacted.doc \in Documents(p), NEW screenshot, NEW earlier \in Seq(Texts),
           NEW analysis, Headed(analysis),
           NEW told, told = BuildSanitizedContext(redacted, screenshot, earlier, MostElements, analysis)
    PROVE  Worded(told)
<1> DEFINE doc == redacted.doc
           found == redacted.detections
           at == Interesting(doc)
           E(n) == Element(doc, found, n, at[n])
           all == [n \in DOMAIN at |-> E(n)]
           kept == Budgeted(all, MostElements)
           order == Containers(doc, kept)
           E2(n) == [kept[n] EXCEPT !.container = NearestContainer(doc, order, kept[n].at)]
           elements == [n \in DOMAIN kept |-> E2(n)]
           C(n) == [attrs |-> SafeAttrs(doc.els[order[n]], Absent),
                    parent |-> NearestContainer(doc, order, order[n])]
           containers == [n \in DOMAIN order |-> C(n)]
           S == {E(n) : n \in DOMAIN at}
<1>1. /\ told.elements = elements /\ told.containers = containers /\ told.analysis = analysis
      /\ told.earlier = earlier /\ told.title = Raw(OnlyOurs(TitleText(doc)))
  BY DEF BuildSanitizedContext, Pruned, Assembled, ExtractPage
<1>0. told.title \in Atoms /\ told.earlier \in Seq(Seq(Tokens))
  BY <1>1, TitleWords, TextsSpoken
<1>2. at \in Seq(DOMAIN p) /\ order \in Seq(DOMAIN p)
  BY SomePositions DEF Interesting, Containers, Those
<1>3. DOMAIN at = 1..Len(at) /\ Len(at) \in Nat /\ \A n \in DOMAIN at : at[n] \in DOMAIN p
  BY <1>2
<1>4. ASSUME NEW n \in DOMAIN at
      PROVE  /\ E(n).name \in Atoms /\ E(n).groupName \in Atoms /\ E(n).value \in Atoms /\ E(n).attrs \in Seq(Atoms)
             /\ E(n) = [E(n) EXCEPT !.container = E(n).container]
  BY <1>3, ElementWords
<1> HIDE DEF E, at, found
<1>5. all \in Seq(S) /\ Len(all) \in Nat
  BY <1>3
<1> HIDE DEF all
<1>6. kept \in Seq(S)
  <2>1. LeastOf(MostElements, Len(all)) \in Nat /\ LeastOf(MostElements, Len(all)) <= Len(all)
    BY <1>5, PipelineAssumption DEF LeastOf
  <2> QED BY <1>5, <2>1 DEF Budgeted
<1> HIDE DEF kept, order
<1>7. /\ DOMAIN kept = 1..Len(kept) /\ Len(kept) \in Nat /\ \A n \in DOMAIN kept : kept[n] \in S
      /\ DOMAIN order = 1..Len(order) /\ Len(order) \in Nat /\ \A n \in DOMAIN order : order[n] \in DOMAIN p
  BY <1>2, <1>6
<1>8. ASSUME NEW n \in DOMAIN kept
      PROVE  /\ E2(n).name \in Atoms /\ E2(n).groupName \in Atoms /\ E2(n).value \in Atoms
             /\ E2(n).attrs \in Seq(Atoms)
  <2>1. PICK m \in DOMAIN at : kept[n] = E(m)
    BY <1>7
  <2> DEFINE box == NearestContainer(doc, order, kept[n].at)
             e == E(m)
  <2> HIDE DEF box
  <2>2. E2(n) = [e EXCEPT !.container = box]
    BY <2>1 DEF box
  <2>3. /\ [e EXCEPT !.container = box].name = e.name /\ [e EXCEPT !.container = box].groupName = e.groupName
        /\ [e EXCEPT !.container = box].value = e.value /\ [e EXCEPT !.container = box].attrs = e.attrs
    BY DEF E, Element, Named
  <2> HIDE DEF e
  <2> QED BY <2>2, <2>3, <1>4 DEF e
<1> HIDE DEF E2, doc
<1>9. ASSUME NEW n \in DOMAIN order PROVE C(n).attrs \in Seq(Atoms)
  <2>1. SafeAttrs(doc.els[order[n]], Absent) \in Seq(Atoms)
    BY <1>7, AttrsType DEF doc
  <2> QED BY <2>1
<1> HIDE DEF C
<1>10. /\ elements \in Seq(ToSet(elements))
       /\ \A el \in ToSet(elements) : \E n \in DOMAIN kept : el = E2(n)
  <2> DEFINE T == ToSet(elements)
  <2>1. (\A n \in DOMAIN kept : E2(n) \in T) /\ \A el \in T : \E n \in DOMAIN kept : el = E2(n)
    BY DEF ToSet
  <2> HIDE DEF T
  <2>2. elements \in Seq(T)
    BY <1>7, <2>1
  <2> QED BY <2>1, <2>2 DEF T
<1>11. /\ containers \in Seq(ToSet(containers))
       /\ \A c \in ToSet(containers) : \E n \in DOMAIN order : c = C(n)
  <2> DEFINE T == ToSet(containers)
  <2>1. (\A n \in DOMAIN order : C(n) \in T) /\ \A c \in T : \E n \in DOMAIN order : c = C(n)
    BY DEF ToSet
  <2> HIDE DEF T
  <2>2. containers \in Seq(T)
    BY <1>7, <2>1
  <2> QED BY <2>1, <2>2 DEF T
<1> HIDE DEF elements, containers
<1>12. \A el \in ToSet(elements) :
           el.name \in Atoms /\ el.groupName \in Atoms /\ el.value \in Atoms /\ el.attrs \in Seq(Atoms)
  BY <1>8, <1>10
<1>13. \A c \in ToSet(containers) : c.attrs \in Seq(Atoms)
  BY <1>9, <1>11
<1> QED BY <1>0, <1>1, <1>10, <1>11, <1>12, <1>13 DEF Worded

(* Every atom of a context that is sent is a field that the gates looked at. *)
LEMMA FieldsLookedAt ==
    ASSUME NEW told, Worded(told)
    PROVE  \A atom \in (UNION {{el.name, el.groupName, el.value} \cup ToSet(el.attrs) : el \in ToSet(told.elements)})
                           \cup {Label(c) : c \in ToSet(told.analysis.columns)}
                           \cup {told.title} \cup {Raw(text) : text \in ToSet(told.earlier)} :
              atom \in ToSet(OutboundTextFields(told)) /\ atom.text \in Seq(Tokens)
<1> DEFINE els == told.elements
           cons == told.containers
           cols == told.analysis.columns
           F(el) == << el.name, el.groupName, el.value >> \o el.attrs
           G(n) == F(els[n])
           said == [n \in DOMAIN els |-> G(n)]
           boxed == [n \in DOMAIN cons |-> cons[n].attrs]
           A == Atoms \cup {Label(c) : c \in ToSet(cols)}
           labels == [n \in DOMAIN cols |-> Label(cols[n])]
           a == FlattenSeq(said)
           b == FlattenSeq(boxed)
           first == << told.title >>
           before == told.earlier
           noted == [n \in DOMAIN before |-> Raw(before[n])]
<1>1. OutboundTextFields(told) = first \o a \o b \o labels \o noted
  BY DEF OutboundTextFields
<1>2. /\ els \in Seq(ToSet(els)) /\ cons \in Seq(ToSet(cons)) /\ cols \in Seq(ToSet(cols))
      /\ \A el \in ToSet(els) :
            el.name \in Atoms /\ el.groupName \in Atoms /\ el.value \in Atoms /\ el.attrs \in Seq(Atoms)
      /\ \A c \in ToSet(cons) : c.attrs \in Seq(Atoms)
      /\ \A c \in ToSet(cols) : c.label \in Seq(Tokens)
  BY DEF Worded, Headed
<1>3. ASSUME NEW el \in ToSet(els)
      PROVE  /\ F(el) \in Seq(Atoms)
             /\ {el.name, el.groupName, el.value} \cup ToSet(el.attrs) \subseteq ToSet(F(el))
  <2> DEFINE x == el.name
             y == el.groupName
             z == el.value
             w == el.attrs
             t == << x, y, z >> \o w
  <2>1. x \in Atoms /\ y \in Atoms /\ z \in Atoms /\ w \in Seq(Atoms)
    BY <1>2
  <2> HIDE DEF x, y, z, w
  <2>2. << x, y, z >> \in Seq(Atoms) /\ Len(<< x, y, z >>) = 3
    BY <2>1
  <2>3. /\ t \in Seq(Atoms) /\ DOMAIN t = 1..(3 + Len(w)) /\ t[1] = x /\ t[2] = y /\ t[3] = z
        /\ Len(w) \in Nat /\ DOMAIN w = 1..Len(w) /\ \A k \in 1..Len(w) : t[k + 3] = w[k]
    BY <2>1, <2>2
  <2> HIDE DEF t
  <2>4. 1 \in DOMAIN t /\ 2 \in DOMAIN t /\ 3 \in DOMAIN t /\ \A k \in 1..Len(w) : k + 3 \in DOMAIN t
    BY <2>3
  <2>5. \A e \in {x, y, z} \cup ToSet(w) : e \in ToSet(t)
    <3>1. \A k \in DOMAIN t : t[k] \in ToSet(t)
      BY DEF ToSet
    <3>2. x \in ToSet(t) /\ y \in ToSet(t) /\ z \in ToSet(t) /\ \A k \in 1..Len(w) : w[k] \in ToSet(t)
      BY <2>3, <2>4, <3>1
    <3>3. \A e \in ToSet(w) : \E k \in 1..Len(w) : e = w[k]
      BY <2>3 DEF ToSet
    <3> QED BY <3>2, <3>3
  <2> QED BY <2>3, <2>5 DEF t, x, y, z, w
<1>4. \A n \in DOMAIN els : els[n] \in ToSet(els) /\ G(n) \in Seq(Atoms)
  BY <1>3 DEF ToSet
<1>5. \A n \in DOMAIN cons : cons[n].attrs \in Seq(Atoms)
  BY <1>2 DEF ToSet
<1>6. /\ DOMAIN els = 1..Len(els) /\ Len(els) \in Nat /\ DOMAIN cons = 1..Len(cons) /\ Len(cons) \in Nat
      /\ DOMAIN cols = 1..Len(cols) /\ Len(cols) \in Nat
  BY <1>2
<1> DEFINE H(n) == cons[n].attrs
<1>7. said \in Seq(Seq(Atoms)) /\ boxed \in Seq(Seq(Atoms))
  <2>1. \A n \in DOMAIN cons : H(n) \in Seq(Atoms)
    BY <1>5
  <2>2. boxed = [n \in DOMAIN cons |-> H(n)]
    OBVIOUS
  <2> HIDE DEF G, H, els, cons, boxed
  <2>3. [n \in DOMAIN els |-> G(n)] \in Seq(Seq(Atoms))
    BY <1>4, <1>6
  <2>4. [n \in DOMAIN cons |-> H(n)] \in Seq(Seq(Atoms))
    BY <2>1, <1>6
  <2> QED BY <2>2, <2>3, <2>4
<1>8. a \in Seq(Atoms) /\ b \in Seq(Atoms)
  BY <1>7, FlattenType
<1>9. labels \in Seq(A) /\ \A c \in ToSet(cols) : Label(c) \in ToSet(labels)
  <2>1. \A n \in DOMAIN cols : Label(cols[n]) \in A
    BY DEF ToSet
  <2>2. \A c \in ToSet(cols) : \E n \in DOMAIN cols : c = cols[n]
    BY DEF ToSet
  <2>3. \A n \in DOMAIN cols : Label(cols[n]) \in ToSet(labels)
    BY DEF ToSet
  <2>4. \A c \in ToSet(cols) : Label(c) \in ToSet(labels)
    BY <2>2, <2>3
  <2> DEFINE L(n) == Label(cols[n])
  <2>5. labels = [n \in 1..Len(cols) |-> L(n)] /\ \A n \in 1..Len(cols) : L(n) \in A
    BY <1>6, <2>1
  <2> HIDE DEF A, L, labels
  <2>6. labels \in Seq(A)
    BY <1>6, <2>5
  <2> QED BY <2>4, <2>6
<1>16. noted \in Seq(Atoms) /\ \A text \in ToSet(before) : Raw(text) \in ToSet(noted)
  <2>1. before \in Seq(Seq(Tokens))
    BY DEF Worded
  <2> HIDE DEF before
  <2>2. DOMAIN before = 1..Len(before) /\ Len(before) \in Nat /\ \A n \in 1..Len(before) : before[n] \in Seq(Tokens)
    BY <2>1
  <2> DEFINE R(n) == Raw(before[n])
  <2>3. noted = [n \in 1..Len(before) |-> R(n)] /\ \A n \in 1..Len(before) : R(n) \in Atoms
    BY <2>2 DEF Raw, Atoms
  <2>4. \A text \in ToSet(before) : \E n \in DOMAIN before : text = before[n]
    BY DEF ToSet
  <2>5. \A n \in DOMAIN before : Raw(before[n]) \in ToSet(noted)
    BY DEF ToSet
  <2>6. \A text \in ToSet(before) : Raw(text) \in ToSet(noted)
    BY <2>4, <2>5
  <2> HIDE DEF noted, R
  <2>7. noted \in Seq(Atoms)
    BY <2>2, <2>3
  <2> QED BY <2>6, <2>7
<1>17. first \in Seq(Atoms) /\ told.title \in ToSet(first) /\ told.title \in Atoms
  <2>1. told.title \in Atoms
    BY DEF Worded
  <2> DEFINE title == told.title
  <2>2. title \in Atoms /\ first = << title >>
    BY <2>1
  <2> HIDE DEF title, first
  <2>3. first \in Seq(Atoms) /\ title \in ToSet(first)
    BY <2>2 DEF ToSet
  <2> QED BY <2>1, <2>3 DEF title
<1> HIDE DEF G, els, said, boxed, labels, a, b, first, noted, before
<1>10. /\ ToSet(a) \subseteq ToSet(OutboundTextFields(told))
       /\ ToSet(labels) \subseteq ToSet(OutboundTextFields(told))
       /\ ToSet(first) \subseteq ToSet(OutboundTextFields(told))
       /\ ToSet(noted) \subseteq ToSet(OutboundTextFields(told))
  <2>1. a \in Seq(A) /\ b \in Seq(A) /\ labels \in Seq(A) /\ first \in Seq(A) /\ noted \in Seq(A)
    BY <1>8, <1>9, <1>16, <1>17
  <2> HIDE DEF A
  <2> DEFINE ta == first \o a
             tab == ta \o b
             tabl == tab \o labels
             all == tabl \o noted
  <2>2. ta \in Seq(A) /\ ToSet(first) \subseteq ToSet(ta) /\ ToSet(a) \subseteq ToSet(ta)
    BY <2>1, JoinHolds
  <2> HIDE DEF ta
  <2>3. tab \in Seq(A) /\ ToSet(ta) \subseteq ToSet(tab)
    BY <2>1, <2>2, JoinHolds
  <2> HIDE DEF tab
  <2>4. tabl \in Seq(A) /\ ToSet(tab) \subseteq ToSet(tabl) /\ ToSet(labels) \subseteq ToSet(tabl)
    BY <2>1, <2>3, JoinHolds
  <2> HIDE DEF tabl
  <2>5. ToSet(tabl) \subseteq ToSet(all) /\ ToSet(noted) \subseteq ToSet(all)
    BY <2>1, <2>4, JoinHolds
  <2>6. OutboundTextFields(told) = all
    BY <1>1 DEF ta, tab, tabl
  <2> HIDE DEF all
  <2> QED BY <2>2, <2>3, <2>4, <2>5, <2>6
<1>11. ASSUME NEW el \in ToSet(els), NEW atom \in {el.name, el.groupName, el.value} \cup ToSet(el.attrs)
       PROVE  atom \in ToSet(a) /\ atom \in Atoms
  <2>1. PICK n \in DOMAIN els : el = els[n]
    BY DEF ToSet
  <2>2. n \in DOMAIN said /\ said[n] = F(el)
    BY <2>1 DEF said, G
  <2> HIDE DEF F
  <2>3. ToSet(said[n]) \subseteq ToSet(a)
    BY <1>7, <2>2, FlattenHolds DEF a
  <2>4. atom \in ToSet(F(el)) /\ F(el) \in Seq(Atoms)
    BY <1>3
  <2>5. atom \in Atoms
    BY <2>4 DEF ToSet
  <2> QED BY <2>2, <2>3, <2>4, <2>5
<1>12. ASSUME NEW c \in ToSet(cols)
       PROVE  Label(c) \in ToSet(labels) /\ Label(c).text \in Seq(Tokens)
  BY <1>2, <1>9 DEF Label
<1>13. \A atom \in Atoms : atom.text \in Seq(Tokens)
  BY DEF Atoms
<1> SUFFICES ASSUME NEW atom \in (UNION {{el.name, el.groupName, el.value} \cup ToSet(el.attrs) : el \in ToSet(els)})
                              \cup {Label(c) : c \in ToSet(cols)}
                              \cup {told.title} \cup {Raw(text) : text \in ToSet(before)}
             PROVE  atom \in ToSet(OutboundTextFields(told)) /\ atom.text \in Seq(Tokens)
  BY DEF els, before
<1>14. CASE atom \in (UNION {{el.name, el.groupName, el.value} \cup ToSet(el.attrs) : el \in ToSet(els)})
  <2>1. PICK el \in ToSet(els) : atom \in {el.name, el.groupName, el.value} \cup ToSet(el.attrs)
    BY <1>14
  <2> QED BY <2>1, <1>10, <1>11, <1>13
<1>15. CASE atom \in {Label(c) : c \in ToSet(cols)}
  <2>1. PICK c \in ToSet(cols) : atom = Label(c)
    BY <1>15
  <2>2. Label(c) \in ToSet(labels) /\ Label(c).text \in Seq(Tokens)
    BY <1>12
  <2>3. atom \in ToSet(labels) /\ atom.text \in Seq(Tokens)
    BY <2>1, <2>2
  <2> QED BY <2>3, <1>10
<1>18. CASE atom = told.title
  BY <1>10, <1>13, <1>17, <1>18
<1>19. CASE atom \in {Raw(text) : text \in ToSet(before)}
  <2>1. atom \in ToSet(noted)
    BY <1>16, <1>19
  <2>2. atom \in Atoms
    BY <1>16, <2>1 DEF ToSet
  <2> QED BY <1>10, <1>13, <2>1, <2>2
<1> QED BY <1>14, <1>15, <1>18, <1>19

(* A context is made of texts of the page from the moment it is sanitized,   *)
(* and one that is sent has passed the gate.                                 *)
Telling ==
    /\ Leading
    /\ stage \in {"sanitized", "sent", "blocked"} => Worded(context)
    /\ SentClean

LEMMA TellingStart == PipelineInit => Telling
BY LeadingStart DEF PipelineInit, Telling, SentClean

LEMMA TellingStep == Telling /\ [PipelineNext]_pipelineVars => Telling'
<1> SUFFICES ASSUME Telling, [PipelineNext]_pipelineVars PROVE Telling'
  OBVIOUS
<1>0. Leading /\ Leading'
  BY LeadingStep DEF Telling
<1>1. ASSUME DomRedact \/ NotBaked \/ Bake PROVE Telling'
  BY <1>0, <1>1 DEF Telling, SentClean, DomRedact, NotBaked, Bake
<1>2. ASSUME Sanitize PROVE Telling'
  <2>1. PICK done, sent, earlier :
          /\ earlier \in Earlier
          /\ context' = BuildSanitizedContext(redaction, sent, earlier, MostElements,
                                              AnalyzeDocument(redaction.doc, done))
    BY <1>2 DEF Sanitize
  <2>2. stage = "baked" /\ stage' = "sanitized"
    BY <1>2 DEF Sanitize
  <2>3. page \in Seq(Scanned) /\ (\A j \in DOMAIN page : page[j].parent < j) /\ redaction.doc \in Documents(page)
    BY <1>0, <2>2, PipelineAssumption DEF Leading, Inputs
  <2> DEFINE analysis == AnalyzeDocument(redaction.doc, done)
             told == context'
  <2>4. Headed(analysis)
    BY <2>3, AnalysisHeaded
  <2>5. told = BuildSanitizedContext(redaction, sent, earlier, MostElements, analysis)
    BY <2>1
  <2>7. earlier \in Seq(Texts)
    BY <2>1, EarlierAssumption
  <2> HIDE DEF analysis, told
  <2>6. Worded(told)
    BY <2>3, <2>4, <2>5, <2>7, ContextWorded
  <2> QED BY <1>0, <2>2, <2>6 DEF Telling, SentClean, told
<1>3. ASSUME Verify PROVE Telling'
  <2>1. /\ stage = "sanitized" /\ stage' \in {"sent", "blocked"} /\ context' = context
        /\ stage' = "sent" => VerifyOutboundRedaction(context)
    BY <1>3 DEF Verify
  <2>2. Worded(context)
    BY <2>1 DEF Telling
  <2>3. ASSUME stage' = "sent", NEW atom \in SentAtoms PROVE Matches(atom.text, MinConfidence) = {}
    <3>1. atom \in ToSet(OutboundTextFields(context)) /\ atom.text \in Seq(Tokens)
      BY <2>2, FieldsLookedAt DEF SentAtoms
    <3>2. ScanText(Blanked(atom.text), MinConfidence) = <<>>
      BY <2>1, <2>3, <3>1 DEF VerifyOutboundRedaction
    <3> QED BY <3>1, <3>2, GateFinds
  <2>4. SentAtoms' = SentAtoms
    BY <2>1 DEF SentAtoms
  <2> QED BY <1>0, <2>1, <2>2, <2>3, <2>4 DEF Telling, SentClean
<1>4. ASSUME UNCHANGED pipelineVars PROVE Telling'
  BY <1>0, <1>4 DEF Telling, pipelineVars, SentClean, SentAtoms
<1> QED BY <1>1, <1>2, <1>3, <1>4 DEF PipelineNext

(* Whatever is on the page, no name, group name, value, attribute or heading *)
(* of a context that passes the gate holds a whole value that a pattern is   *)
(* sure enough of (redaction/egress.ts).                                     *)
THEOREM SentIsClean == PipelineSpec => []SentClean
<1>1. Telling => SentClean
  BY DEF Telling
<1> QED BY <1>1, TellingStart, TellingStep, PTL DEF PipelineSpec
===============================================================================
