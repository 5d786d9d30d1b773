----------------------------- MODULE LoadProofs -----------------------------
(***************************************************************************)
(* Three things about the loader, for any files and whatever they refer    *)
(* to.                                                                     *)
(*                                                                         *)
(* Its recursion is bounded by its depth limit. The invariant, DepthInv,   *)
(* ties the depth an activation was handed to its place on the stack: one  *)
(* that opens a reference is below the limit, so the one it opens is at    *)
(* most at it.                                                             *)
(*                                                                         *)
(* A load that reports no gap left nothing out. What Complete asks of all  *)
(* that is reached from the paths is restated node by node: Fine is the    *)
(* least set that holds a node which is sound and whose references are all *)
(* in it, so that no chain of references among its members goes on for     *)
(* ever (FineEnds), and Complete follows once the roots are in it. The     *)
(* invariant, LoadInv, says of each activation on the stack what it has    *)
(* followed so far, while it has recorded no gap: each reference before    *)
(* the one it is at leads to a node of Fine. The last one is Ready, each   *)
(* other one Waits for the node the next one is loading.                   *)
(*                                                                         *)
(* Conversely, a complete configuration is reported no gap, but for the    *)
(* limits. If it is complete its roots are in Fine (CompleteIsFine). The   *)
(* invariant, GapInv, then says that every activation stands at a node of  *)
(* Fine and that its chains hold only nodes Above it, so that no reference *)
(* returns to them (FineNotUnder); that it holds all the documents before  *)
(* its reference say (Gathered, and Based after its includes), so that no  *)
(* base is missing; and that each `extends:` it resolves is its document's *)
(* own and Due, so that what it leads to is again a node of Fine. Two      *)
(* shapes break the last part, and are excluded by name: Mixed, where an   *)
(* included mapping lends its `file:` to a document's own, and Borrowed,   *)
(* where a document others extend redefines a base resolved below it.      *)
(***************************************************************************)
EXTENDS LoadContract, SequenceTheorems, WellFoundedInduction, FiniteSetTheorems, TLAPS

-----------------------------------------------------------------------------
(* Sequences that some set contains.                                       *)

IsList(q) == q \in Seq({q[i] : i \in DOMAIN q})

LEMMA ListIn ==
  ASSUME NEW S, NEW q \in Seq(S)
  PROVE  IsList(q)
<1> DEFINE T == {q[i] : i \in DOMAIN q}
<1>1. DOMAIN q = 1 .. Len(q) /\ Len(q) \in Nat /\ q = [i \in 1 .. Len(q) |-> q[i]]
  OBVIOUS
<1>2. q \in [1 .. Len(q) -> T]
  BY <1>1
<1> HIDE DEF T
<1>3. q \in Seq(T)
  BY <1>1, <1>2
<1> QED
  BY <1>3 DEF T, IsList

LEMMA FrontIs ==
  ASSUME NEW q, IsList(q), q # << >>
  PROVE  /\ IsList(Front(q))
         /\ Len(q) \in Nat \ {0} /\ Len(Front(q)) = Len(q) - 1
         /\ \A i \in 1 .. Len(q) - 1 : Front(q)[i] = q[i]
<1> DEFINE S == {q[i] : i \in DOMAIN q}
           n == Len(q) - 1
<1>1. q \in Seq(S)
  BY DEF IsList
<1>2. \A i \in 1 .. Len(q) : q[i] \in S
  BY <1>1, LenProperties
<1> HIDE DEF S
<1>3. Len(q) \in Nat /\ Len(q) # 0
  BY <1>1, LenProperties, EmptySeq
<1>4. n \in Int /\ \A i \in 1 .. n : q[i] \in S
  BY <1>2, <1>3
<1>5. Front(q) = SubSeq(q, 1, n)
  BY DEF Front
<1>6. n \in Nat
  BY <1>3
<1> HIDE DEF n
<1>7. /\ SubSeq(q, 1, n) \in Seq(S)
      /\ Len(SubSeq(q, 1, n)) = IF 1 <= n THEN n - 1 + 1 ELSE 0
      /\ \A i \in 1 .. n - 1 + 1 : SubSeq(q, 1, n)[i] = q[1 + i - 1]
  BY <1>4, SubSeqProperties
<1>8. n - 1 + 1 = n /\ \A i \in 1 .. n : 1 + i - 1 = i
  BY <1>6
<1>9. Len(SubSeq(q, 1, n)) = n
  BY <1>6, <1>7
<1>10. IsList(Front(q))
  BY <1>5, <1>7, ListIn
<1> QED
  BY <1>3, <1>5, <1>7, <1>8, <1>9, <1>10 DEF n

LEMMA AppendIs ==
  ASSUME NEW q, IsList(q), NEW e
  PROVE  /\ IsList(Append(q, e))
         /\ Len(q) \in Nat /\ Len(Append(q, e)) = Len(q) + 1
         /\ \A i \in 1 .. Len(q) : Append(q, e)[i] = q[i]
         /\ Append(q, e)[Len(q) + 1] = e
         /\ Append(q, e) # << >> /\ Last(Append(q, e)) = e
<1> DEFINE S == {q[i] : i \in DOMAIN q} \cup {e}
<1>1. q \in Seq({q[i] : i \in DOMAIN q})
  BY DEF IsList
<1>2. q \in Seq(S)
  BY <1>1, SeqMonotonic
<1>3. e \in S
  OBVIOUS
<1> HIDE DEF S
<1>4. /\ Append(q, e) \in Seq(S)
      /\ Len(Append(q, e)) = Len(q) + 1
      /\ \A i \in 1 .. Len(q) : Append(q, e)[i] = q[i]
      /\ Append(q, e)[Len(q) + 1] = e
  BY <1>2, <1>3, AppendProperties
<1>5. Len(q) \in Nat
  BY <1>2, LenProperties
<1>6. Len(Append(q, e)) # 0
  BY <1>4, <1>5
<1>7. Append(q, e) # << >>
  BY <1>6
<1>8. Last(Append(q, e)) = e
  BY <1>4 DEF Last
<1> QED
  BY <1>4, <1>5, <1>7, <1>8, ListIn

-----------------------------------------------------------------------------
(* The height of the stack.                                                *)

(* An activation k calls down.                                             *)
At(frame, k) ==
  /\ "depth" \in DOMAIN frame
  /\ frame.depth = k
  /\ k <= MaxDepth

(* A stack of activations, whatever else they hold.                        *)
Stacked(q) ==
  /\ IsList(q)
  /\ \A i \in 1 .. Len(q) : At(q[i], i - 1)

DepthInv == Stacked(stack)

LEMMA StackedIn ==
  ASSUME NEW S, NEW q \in Seq(S), \A i \in 1 .. Len(q) : At(q[i], i - 1)
  PROVE  Stacked(q)
BY ListIn DEF Stacked

(* Leaving out the last activation.                                        *)
LEMMA StackedFront ==
  ASSUME NEW q, Stacked(q), q # << >>
  PROVE  Stacked(Front(q)) /\ Len(Front(q)) = Len(q) - 1 /\ Len(q) \in Nat \ {0}
<1>1. IsList(q)
  BY DEF Stacked
<1>2. /\ IsList(Front(q)) /\ Len(q) \in Nat \ {0} /\ Len(Front(q)) = Len(q) - 1
      /\ \A i \in 1 .. Len(q) - 1 : Front(q)[i] = q[i]
  BY <1>1, FrontIs
<1>3. \A i \in 1 .. Len(Front(q)) : At(Front(q)[i], i - 1)
  BY <1>2 DEF Stacked
<1> QED
  BY <1>2, <1>3 DEF Stacked

(* One more activation, a call below the last.                             *)
LEMMA StackedAppend ==
  ASSUME NEW q, Stacked(q), NEW frame, At(frame, Len(q))
  PROVE  Stacked(Append(q, frame)) /\ Len(Append(q, frame)) = Len(q) + 1
<1>1. IsList(q)
  BY DEF Stacked
<1>2. /\ IsList(Append(q, frame))
      /\ Len(q) \in Nat /\ Len(Append(q, frame)) = Len(q) + 1
      /\ \A i \in 1 .. Len(q) : Append(q, frame)[i] = q[i]
      /\ Append(q, frame)[Len(q) + 1] = frame
  BY <1>1, AppendIs
<1>3. ASSUME NEW i \in 1 .. Len(q) + 1
      PROVE  At(Append(q, frame)[i], i - 1)
  <2>1. CASE i = Len(q) + 1
    BY <1>2, <2>1
  <2>2. CASE i \in 1 .. Len(q)
    BY <1>2, <2>2 DEF Stacked
  <2> QED
    BY <1>2, <1>3, <2>1, <2>2
<1> QED
  BY <1>2, <1>3 DEF Stacked

(* The last activation, and the others.                                    *)
LEMMA StackedLast ==
  ASSUME NEW q, Stacked(q), q # << >>
  PROVE  At(Last(q), Len(q) - 1)
BY StackedFront DEF Stacked, Last

LEMMA StackedReplace ==
  ASSUME NEW q, Stacked(q), q # << >>, NEW frame, At(frame, Len(q) - 1)
  PROVE  Stacked(Append(Front(q), frame))
BY StackedFront, StackedAppend

LEMMA StackedOne ==
  ASSUME NEW frame, At(frame, 0)
  PROVE  Stacked(<<frame>>)
<1>1. <<frame>> \in Seq({frame}) /\ Len(<<frame>>) = 1 /\ <<frame>>[1] = frame
  OBVIOUS
<1>2. ASSUME NEW i \in 1 .. 1
      PROVE  At(<<frame>>[i], i - 1)
  <2>1. i = 1 /\ i - 1 = 0
    OBVIOUS
  <2> QED
    BY <1>1, <2>1
<1> QED
  BY <1>1, <1>2, StackedIn

-----------------------------------------------------------------------------
(* Activations: nothing done to one changes the depth it was handed.       *)

LEMMA MissedAt ==
  ASSUME NEW frame, NEW k, At(frame, k), NEW why
  PROVE  At(Missed(frame, why), k)
BY DEF At, Missed

LEMMA AdvanceAt ==
  ASSUME NEW frame, NEW k, At(frame, k)
  PROVE  At(Advance(frame), k)
BY DEF At, Advance

LEMMA ReceiveAt ==
  ASSUME NEW frame, NEW k, At(frame, k), NEW document
  PROVE  At(Receive(frame, document), k)
<1>1. At([frame EXCEPT !.part = Append(@, document)], k)
  BY DEF At
<1> QED
  BY <1>1, AdvanceAt DEF Receive

LEMMA InheritAt ==
  ASSUME NEW frame, NEW k, At(frame, k), NEW want, NEW base
  PROVE  At(Inherit(frame, want, base), k)
<1>1. At([frame EXCEPT !.at = {}], k)
  BY DEF At
<1>2. At(Missed([frame EXCEPT !.at = {}], "nobase"), k)
  BY <1>1, MissedAt
<1> DEFINE done == [frame EXCEPT !.at = {}]
<1>3. ASSUME NEW data
      PROVE  At([done EXCEPT !.gaps = @ \cup base.gaps, !.data = data], k)
  BY <1>1 DEF At
<1> QED
  BY <1>2, <1>3 DEF Inherit

LEMMA FrameAt ==
  ASSUME NEW f, NEW want, NEW env, NEW depth, depth <= MaxDepth,
         NEW inc, NEW ext, NEW budget
  PROVE  At(Frame(f, want, env, depth, inc, ext, budget), depth)
BY DEF At, Frame

-----------------------------------------------------------------------------
(* The three ways a step changes the stack.                                *)

LEMMA UpdateKeeps ==
  ASSUME DepthInv, stack # << >>, NEW frame, At(frame, Len(stack) - 1), Update(frame)
  PROVE  DepthInv'
BY StackedReplace DEF DepthInv, Update, Below

(* The caller is below the limit, so the callee is at most at it.          *)
LEMMA CallKeeps ==
  ASSUME DepthInv, stack # << >>, NEW frame, At(frame, Len(stack) - 1),
         NEW callee, At(callee, Len(stack)), Call(frame, callee)
  PROVE  DepthInv'
<1> DEFINE mid == Append(Below, frame)
<1>1. Stacked(Below) /\ Len(Below) = Len(stack) - 1 /\ Len(stack) \in Nat
  BY StackedFront DEF DepthInv, Below
<1>2. Stacked(mid) /\ Len(mid) = Len(stack) - 1 + 1
  BY <1>1, StackedAppend
<1>3. Len(mid) = Len(stack)
  BY <1>1, <1>2
<1> HIDE DEF mid
<1>4. Stacked(Append(mid, callee))
  BY <1>2, <1>3, StackedAppend
<1> QED
  BY <1>4 DEF DepthInv, Call, mid

LEMMA ReturnKeeps ==
  ASSUME DepthInv, Len(stack) > 1, stack # << >>,
         NEW frame, At(frame, Len(stack) - 2), Return(frame)
  PROVE  DepthInv'
<1>1. Stacked(Below) /\ Len(Below) = Len(stack) - 1 /\ Len(stack) \in Nat
  BY StackedFront DEF DepthInv, Below
<1>2. Below # << >> /\ Len(Below) - 1 = Len(stack) - 2
  BY <1>1
<1>3. Stacked(Append(Front(Below), frame))
  BY <1>1, <1>2, StackedReplace
<1> QED
  BY <1>3 DEF DepthInv, Return

LEMMA TopAt ==
  ASSUME DepthInv, stack # << >>
  PROVE  At(Top, Len(stack) - 1) /\ Len(stack) \in Nat
BY StackedLast, StackedFront DEF DepthInv, Top

LEMMA CallerAt ==
  ASSUME DepthInv, Len(stack) > 1, stack # << >>
  PROVE  At(Caller, Len(stack) - 2)
<1>1. Stacked(Below) /\ Len(Below) = Len(stack) - 1 /\ Len(stack) \in Nat
  BY StackedFront DEF DepthInv, Below
<1>2. Below # << >> /\ Len(Below) - 1 = Len(stack) - 2
  BY <1>1
<1> QED
  BY <1>1, <1>2, StackedLast DEF Caller

-----------------------------------------------------------------------------
(* The walk.                                                               *)

LEMMA DepthInit == Init => DepthInv
<1>1. Stacked(<< >>)
  <2>1. << >> \in Seq({}) /\ Len(<< >>) = 0
    OBVIOUS
  <2>2. \A i \in 1 .. Len(<< >>) : At(<< >>[i], i - 1)
    BY <2>1
  <2> QED
    BY <2>1, <2>2, StackedIn
<1> QED
  BY <1>1 DEF Init, DepthInv

LEMMA IncludeKeeps ==
  ASSUME DepthInv, IncludeRefused \/ IncludeAgain \/ IncludeOpen
  PROVE  DepthInv'
<1>1. stack # << >>
  BY DEF IncludeRefused, IncludeAgain, IncludeOpen, Including
<1>2. At(Top, Len(stack) - 1) /\ Len(stack) \in Nat
  BY <1>1, TopAt
<1>3. CASE IncludeRefused
  <2>1. PICK why : Update(Advance(Missed(Top, why)))
    BY <1>3 DEF IncludeRefused
  <2> QED
    BY <1>1, <1>2, <2>1, MissedAt, AdvanceAt, UpdateKeeps
<1>4. CASE IncludeAgain
  BY <1>1, <1>2, <1>4, AdvanceAt, UpdateKeeps DEF IncludeAgain
<1>5. CASE IncludeOpen
  <2> DEFINE asked == [Top EXCEPT !.folded = @ \cup {Identity(Top)}]
             callee(b) == IncludeFrame(Top, b)
  <2>1. At(asked, Len(stack) - 1)
    BY <1>2 DEF At
  <2>2. \A b : At(callee(b), Len(stack))
    <3>1. Top.depth = Len(stack) - 1
      BY <1>2 DEF At
    <3>2. Top.depth + 1 = Len(stack) /\ Top.depth + 1 <= MaxDepth
      BY <1>2, <1>5, <3>1, LoadAssumption DEF IncludeOpen, Followable, Deep
    <3> QED
      BY <3>2, FrameAt DEF IncludeFrame
  <2> HIDE DEF asked, callee
  <2>3. \/ Update(Advance(Missed(asked, "files")))
        \/ Update(Advance(Missed(asked, "unread")))
        \/ \E document : Update(Receive(asked, document))
        \/ \E b : Call(asked, callee(b))
    BY <1>5 DEF IncludeOpen, asked, callee
  <2> QED
    BY <1>1, <2>1, <2>2, <2>3, MissedAt, AdvanceAt, ReceiveAt, UpdateKeeps, CallKeeps
<1> QED
  BY <1>3, <1>4, <1>5

LEMMA PathKeeps ==
  ASSUME DepthInv, OpenPath \/ ReturnPath
  PROVE  DepthInv'
<1>1. CASE OpenPath
  <2>1. At(Frame(paths[path], Full, <<ProjectDir>>, 0, {}, {}, 0), 0)
    BY FrameAt, LoadAssumption
  <2> QED
    BY <1>1, <2>1, StackedOne DEF OpenPath, DepthInv
<1>2. CASE ReturnPath
  <2>1. << >> \in Seq({}) /\ \A i \in 1 .. Len(<< >>) : At(<< >>[i], i - 1)
    OBVIOUS
  <2>2. Stacked(<< >>)
    BY <2>1, StackedIn
  <2> QED
    BY <1>2, <2>2 DEF ReturnPath, DepthInv
<1> QED
  BY <1>1, <1>2

LEMMA FoldKeeps ==
  ASSUME DepthInv, IncludesDone
  PROVE  DepthInv'
<1>1. stack # << >>
  BY DEF IncludesDone, Including
<1>2. At(Top, Len(stack) - 1)
  BY <1>1, TopAt
<1>3. PICK data, skip, todo :
        Update([Top EXCEPT !.phase = "extends", !.data = data, !.skip = skip,
                           !.todo = todo])
  BY DEF IncludesDone
<1>4. At([Top EXCEPT !.phase = "extends", !.data = data, !.skip = skip,
                     !.todo = todo], Len(stack) - 1)
  BY <1>2 DEF At
<1> QED
  BY <1>1, <1>3, <1>4, UpdateKeeps

LEMMA ExtendKeeps ==
  ASSUME DepthInv, ExtendRefused \/ ExtendOpen
  PROVE  DepthInv'
<1>1. stack # << >>
  BY DEF ExtendRefused, ExtendOpen, Extending
<1>2. At(Top, Len(stack) - 1) /\ Len(stack) \in Nat
  BY <1>1, TopAt
<1>3. CASE ExtendRefused
  <2>1. PICK s, why : Update([Missed(Top, why) EXCEPT !.todo = @ \ {s}])
    BY <1>3 DEF ExtendRefused
  <2>2. At([Missed(Top, why) EXCEPT !.todo = @ \ {s}], Len(stack) - 1)
    BY <1>2, MissedAt DEF At
  <2> QED
    BY <1>1, <2>1, <2>2, UpdateKeeps
<1>4. CASE ExtendOpen
  <2> DEFINE asked(s) == [Top EXCEPT !.todo = @ \ {s}]
             waiting(s) == [asked(s) EXCEPT !.at = {s}]
             callee(s, b) == BaseFrame(Top, Base(Top, s), b)
  <2>1. \A s : At(asked(s), Len(stack) - 1)
    BY <1>2 DEF At
  <2>2. \A s : At(waiting(s), Len(stack) - 1)
    BY <1>2 DEF At
  <2>3. \A s, b : At(callee(s, b), Len(stack))
    <3>1. Top.depth = Len(stack) - 1
      BY <1>2 DEF At
    <3>2. ~Deep(Top)
      BY <1>4 DEF ExtendOpen
    <3>3. Top.depth + 1 = Len(stack) /\ Top.depth + 1 <= MaxDepth
      BY <1>2, <3>1, <3>2, LoadAssumption DEF Deep
    <3> QED
      BY <3>3, FrameAt DEF BaseFrame
  <2>4. \E s : \/ Update(Missed(asked(s), "files"))
               \/ Update(Missed(asked(s), "unread"))
               \/ \E b : Call(waiting(s), callee(s, b))
    BY <1>4 DEF ExtendOpen
  <2> HIDE DEF asked, waiting, callee
  <2> QED
    BY <1>1, <2>1, <2>2, <2>3, <2>4, MissedAt, UpdateKeeps, CallKeeps
<1> QED
  BY <1>3, <1>4

LEMMA ReturnsKeep ==
  ASSUME DepthInv, ReturnInclude \/ ReturnBase
  PROVE  DepthInv'
<1>1. stack # << >> /\ Len(stack) > 1
  BY DEF ReturnInclude, ReturnBase, Finished, Extending
<1>2. At(Caller, Len(stack) - 2)
  BY <1>1, CallerAt
<1>3. CASE ReturnInclude
  <2> DEFINE told(g) == [Caller EXCEPT !.gaps = g]
  <2>1. \A g : At(told(g), Len(stack) - 2)
    BY <1>2 DEF At
  <2>2. \/ Return(Advance(Missed(Caller, "unread")))
        \/ \E g, document : Return(Receive(told(g), document))
    BY <1>3 DEF ReturnInclude
  <2> HIDE DEF told
  <2> QED
    BY <1>1, <1>2, <2>1, <2>2, MissedAt, AdvanceAt, ReceiveAt, ReturnKeeps
<1>4. CASE ReturnBase
  <2>1. At([Missed(Caller, "unread") EXCEPT !.at = {}], Len(stack) - 2)
    BY <1>2, MissedAt DEF At
  <2>2. \/ Return([Missed(Caller, "unread") EXCEPT !.at = {}])
        \/ \E want, base : Return(Inherit(Caller, want, base))
    BY <1>4 DEF ReturnBase
  <2> QED
    BY <1>1, <1>2, <2>1, <2>2, InheritAt, ReturnKeeps
<1> QED
  BY <1>3, <1>4

LEMMA DepthStep == DepthInv /\ [Next]_vars => DepthInv'
<1> SUFFICES ASSUME DepthInv, [Next]_vars PROVE DepthInv'
  OBVIOUS
<1>1. CASE OpenPath \/ ReturnPath
  BY <1>1, PathKeeps
<1>2. CASE OpenBlank \/ OpenRefused \/ Conclude
  BY <1>2 DEF OpenBlank, OpenRefused, Conclude, DepthInv
<1>3. CASE IncludeRefused \/ IncludeAgain \/ IncludeOpen
  BY <1>3, IncludeKeeps
<1>4. CASE IncludesDone
  BY <1>4, FoldKeeps
<1>5. CASE ExtendRefused \/ ExtendOpen
  BY <1>5, ExtendKeeps
<1>6. CASE ReturnInclude \/ ReturnBase
  BY <1>6, ReturnsKeep
<1>7. CASE UNCHANGED vars
  BY <1>7 DEF vars, DepthInv
<1> QED
  BY <1>1, <1>2, <1>3, <1>4, <1>5, <1>6, <1>7 DEF Next

(* The last activation is one below the height of the stack, and at most   *)
(* at the limit.                                                           *)
LEMMA DepthImplies == DepthInv => DepthBounded
<1> SUFFICES ASSUME DepthInv PROVE DepthBounded
  OBVIOUS
<1>1. CASE stack = << >>
  BY <1>1, LoadAssumption DEF DepthBounded
<1>2. CASE stack # << >>
  <2>1. At(Top, Len(stack) - 1) /\ Len(stack) \in Nat
    BY <1>2, TopAt
  <2> QED
    BY <2>1, LoadAssumption DEF At, DepthBounded
<1> QED
  BY <1>1, <1>2

(* The loader's recursion never holds more activations than                *)
(* MAX_REFERENCE_DEPTH allows, whatever files, cycles or chains it is      *)
(* given: include and cross-file extends share one count of levels.        *)
THEOREM DepthAlwaysBounded == Spec => []DepthBounded
<1>1. Init => DepthInv
  BY DepthInit
<1>2. DepthInv /\ [Next]_vars => DepthInv'
  BY DepthStep
<1>3. DepthInv => DepthBounded
  BY DepthImplies
<1> QED
  BY <1>1, <1>2, <1>3, PTL DEF Spec

-----------------------------------------------------------------------------
(* Induction and recursion on the naturals, with sets and functions in     *)
(* place of the library's operator parameters.                             *)
LEMMA InductionOnNat ==
  ASSUME NEW T, 0 \in T, \A n \in Nat : n \in T => n + 1 \in T
  PROVE  Nat \subseteq T
<1> SUFFICES ASSUME Nat \ T # {}
             PROVE  FALSE
  OBVIOUS
<1> DEFINE R == OpToRel(<, Nat)
<1>1. IsWellFoundedOn(R, Nat)
  BY NatLessThanWellFounded
<1>2. \A x, y \in Nat : x < y => <<x, y>> \in R
  BY DEF OpToRel
<1> HIDE DEF R
<1>3. PICK x \in Nat \ T : \A y \in Nat \ T : ~(<<y, x>> \in R)
  BY <1>1, WFMin
<1>4. x # 0 /\ x - 1 \in Nat
  BY <1>3
<1>5. x - 1 < x /\ (x - 1) + 1 = x
  BY <1>3
<1>6. <<x - 1, x>> \in R
  BY <1>2, <1>3, <1>4, <1>5
<1>7. x - 1 \in T
  BY <1>3, <1>4, <1>6
<1> QED
  BY <1>3, <1>4, <1>5, <1>7

(* What starts from c and goes on by steps stays in S.                     *)
Steps(step, S) == step \in [Nat \X S -> S]

Unfolds(f, S, c, step) ==
  /\ f \in [Nat -> S]
  /\ f[0] = c
  /\ \A n \in Nat : f[n + 1] = step[<<n, f[n]>>]

LEMMA RecursionOnNat ==
  ASSUME NEW S, NEW c \in S, NEW step, Steps(step, S)
  PROVE  \E f : Unfolds(f, S, c, step)
<1>0. step \in [Nat \X S -> S]
  BY DEF Steps
<1> DEFINE Upto(f, n) == /\ f \in [0 .. n -> S] /\ f[0] = c
                         /\ \A i \in 0 .. n : i + 1 <= n => f[i + 1] = step[<<i, f[i]>>]
<1>1. \A n \in Nat : \E f : Upto(f, n)
  <2> DEFINE T == {n \in Nat : \E f : Upto(f, n)}
  <2>1. 0 \in T
    <3>1. Upto([i \in 0 .. 0 |-> c], 0)
      OBVIOUS
    <3> QED
      BY <3>1
  <2>2. ASSUME NEW n \in Nat, n \in T
        PROVE  n + 1 \in T
    <3>1. PICK f : Upto(f, n)
      BY <2>2
    <3> DEFINE g == [i \in 0 .. n + 1 |-> IF i <= n THEN f[i] ELSE step[<<n, f[n]>>]]
    <3>2. f[n] \in S /\ step[<<n, f[n]>>] \in S
      BY <1>0, <3>1
    <3>3. g \in [0 .. n + 1 -> S]
      BY <3>1, <3>2
    <3>4. g[0] = c
      BY <3>1
    <3>5. ASSUME NEW i \in 0 .. n + 1, i + 1 <= n + 1
          PROVE  g[i + 1] = step[<<i, g[i]>>]
      <4>1. CASE i + 1 <= n
        BY <3>1, <4>1
      <4>2. CASE i = n
        BY <4>2
      <4> QED
        BY <3>5, <4>1, <4>2
    <3>6. Upto(g, n + 1)
      BY <3>3, <3>4, <3>5
    <3> HIDE DEF Upto, g
    <3>7. \E u : Upto(u, n + 1)
      BY <3>6
    <3> QED
      BY <3>7
  <2> HIDE DEF T
  <2>3. Nat \subseteq T
    BY <2>1, <2>2, InductionOnNat
  <2> QED
    BY <2>3 DEF T
<1>2. ASSUME NEW n \in Nat, NEW m \in Nat, NEW f, NEW g, Upto(f, n), Upto(g, m)
      PROVE  \A i \in Nat : i <= n /\ i <= m => f[i] = g[i]
  <2> DEFINE T == {i \in Nat : i <= n /\ i <= m => f[i] = g[i]}
  <2>1. 0 \in T
    BY <1>2
  <2>2. ASSUME NEW i \in Nat, i \in T
        PROVE  i + 1 \in T
    <3> SUFFICES ASSUME i + 1 <= n, i + 1 <= m
                 PROVE  f[i + 1] = g[i + 1]
      OBVIOUS
    <3>1. f[i] = g[i] /\ i \in 0 .. n /\ i \in 0 .. m
      BY <2>2
    <3>2. f[i + 1] = step[<<i, f[i]>>] /\ g[i + 1] = step[<<i, g[i]>>]
      BY <1>2, <3>1
    <3> QED
      BY <3>1, <3>2
  <2> HIDE DEF T
  <2>3. Nat \subseteq T
    BY <2>1, <2>2, InductionOnNat
  <2> QED
    BY <2>3 DEF T
<1> DEFINE a == [n \in Nat |-> CHOOSE f : Upto(f, n)]
           h == [n \in Nat |-> a[n][n]]
<1>3. \A n \in Nat : Upto(a[n], n)
  BY <1>1, Zenon
<1> HIDE DEF a
<1>4. h \in [Nat -> S] /\ h[0] = c
  BY <1>3
<1>5. ASSUME NEW n \in Nat
      PROVE  h[n + 1] = step[<<n, h[n]>>]
  <2>1. Upto(a[n], n) /\ Upto(a[n + 1], n + 1)
    BY <1>3
  <2>2. a[n + 1][n + 1] = step[<<n, a[n + 1][n]>>]
    BY <2>1
  <2>3. n <= n /\ n <= n + 1 /\ n + 1 \in Nat
    OBVIOUS
  <2> HIDE DEF Upto
  <2>4. a[n + 1][n] = a[n][n]
    BY <1>2, <2>1, <2>3
  <2> QED
    BY <2>2, <2>4
<1> QED
  BY <1>4, <1>5 DEF Unfolds

-----------------------------------------------------------------------------
(* What was followed to the end.                                           *)

WrittenDocs == \A f \in File : IsDocument(docs[f]) => IsWritten(docs[f])

Nodes == [file : File \cup {Away}, svc : Service \cup {Full}]

(* What Complete asks of a node by itself.                                 *)
Sound(n) ==
  /\ Readable(n)
  /\ n.svc # Full => Mentions(n.file, n.svc)
  /\ Usable(n) /\ Included(n.file) # {} => \E s \in Service : Mentions(n.file, s)

Inductive(S) == \A n \in Nodes : Sound(n) /\ (Usable(n) => Needs(n) \subseteq S) => n \in S

(* The nodes all of whose references end: the least inductive set.         *)
Fine == {n \in Nodes : \A S \in SUBSET Nodes : Inductive(S) => n \in S}

LEMMA FineAll ==
  ASSUME NEW n \in Nodes, Sound(n), Usable(n) => Needs(n) \subseteq Fine
  PROVE  n \in Fine
<1> SUFFICES ASSUME NEW S \in SUBSET Nodes, Inductive(S)
             PROVE  n \in S
  BY DEF Fine
<1>1. Fine \subseteq S
  BY DEF Fine
<1>2. Usable(n) => Needs(n) \subseteq S
  BY <1>1
<1> QED
  BY <1>2 DEF Inductive

LEMMA FineIn ==
  ASSUME NEW S \in SUBSET Nodes, Inductive(S)
  PROVE  Fine \subseteq S
BY DEF Fine

LEMMA FineSound ==
  ASSUME NEW n \in Fine
  PROVE  n \in Nodes /\ Sound(n) /\ (Usable(n) => Needs(n) \subseteq Fine)
<1> DEFINE S == {m \in Fine : Sound(m) /\ (Usable(m) => Needs(m) \subseteq Fine)}
<1>1. Fine \subseteq Nodes
  BY DEF Fine
<1>2. S \in SUBSET Nodes
  BY <1>1
<1>3. ASSUME NEW m \in Nodes, Sound(m), Usable(m) => Needs(m) \subseteq S
      PROVE  m \in S
  <2>1. Usable(m) => Needs(m) \subseteq Fine
    BY <1>3
  <2>2. m \in Fine
    BY <1>3, <2>1, FineAll
  <2> QED
    BY <1>3, <2>1, <2>2
<1> HIDE DEF S
<1>4. Inductive(S)
  BY <1>3, Zenon DEF Inductive
<1>5. Fine \subseteq S
  BY <1>2, <1>4, FineIn
<1> QED
  BY <1>1, <1>5 DEF S

(* No chain of references among them goes on for ever.                     *)
LEMMA FineEnds ==
  ASSUME NEW X \in SUBSET Fine, \A n \in X : Usable(n) /\ Needs(n) \cap X # {}
  PROVE  X = {}
<1> DEFINE S == Nodes \ X
<1>1. S \in SUBSET Nodes
  OBVIOUS
<1>2. ASSUME NEW m \in Nodes, Sound(m), Usable(m) => Needs(m) \subseteq S
      PROVE  m \in S
  BY <1>2
<1> HIDE DEF S
<1>3. Inductive(S)
  BY <1>2, Zenon DEF Inductive
<1>4. Fine \subseteq S
  BY <1>1, <1>3, FineIn
<1> QED
  BY <1>4 DEF S

-----------------------------------------------------------------------------
(* From the roots to everything reached.                                   *)

LEMMA NeedsAreNodes ==
  ASSUME WrittenDocs, NEW n \in Nodes, Usable(n)
  PROVE  Needs(n) \in SUBSET Nodes
<1>1. n.file \in File /\ IsDocument(docs[n.file]) /\ IsWritten(docs[n.file])
  BY DEF Usable, WrittenDocs
<1> DEFINE c == docs[n.file]
<1>2. ASSUME NEW g \in Included(n.file)
      PROVE  g \in File \cup {Away}
  <2>1. PICK i \in DOMAIN c.include : g \in ToSet(c.include[i])
    BY <1>2 DEF Included, Entries
  <2>2. c.include \in Seq(Seq(File \cup {Away}))
    BY <1>1 DEF IsWritten
  <2>3. c.include[i] \in Seq(File \cup {Away})
    BY <2>1, <2>2
  <2> QED
    BY <2>1, <2>3 DEF ToSet
<1>3. ASSUME NEW s \in Service, OwnExt(n.file, s) # NoExt
      PROVE  /\ OwnExt(n.file, s).svc \in Service
             /\ "file" \in DOMAIN OwnExt(n.file, s) => OwnExt(n.file, s).file \in File \cup {Away}
  <2>1. OwnExt(n.file, s) \in Exts \ {NoExt}
    BY <1>1, <1>3 DEF OwnExt, IsWritten, HasBody
  <2> QED
    BY <2>1 DEF Exts
<1>4. \A g \in Included(n.file) : Node(g, Full) \in Nodes
  BY <1>2 DEF Node, Nodes
<1>5. ASSUME NEW s \in IF n.svc = Full THEN Service ELSE {n.svc}, OwnExt(n.file, s) # NoExt
      PROVE  IF "file" \in DOMAIN OwnExt(n.file, s)
             THEN Node(OwnExt(n.file, s).file, OwnExt(n.file, s).svc) \in Nodes
             ELSE Node(n.file, OwnExt(n.file, s).svc) \in Nodes
  <2>1. s \in Service
    BY DEF Nodes
  <2> QED
    BY <1>1, <1>3, <1>5, <2>1 DEF Node, Nodes
<1>6. \A m \in Needs(n) : m \in Nodes
  BY <1>4, <1>5 DEF Needs
<1> QED
  BY <1>6

LEMMA NodesCounted ==
  ASSUME IsFiniteSet(File), IsFiniteSet(Service)
  PROVE  /\ IsFiniteSet(Nodes) /\ NodeCount \in Nat
         /\ \A S \in SUBSET Nodes : Cardinality(S) \in Nat /\ Cardinality(S) <= NodeCount
<1> DEFINE A == File \cup {Away}
           B == Service \cup {Full}
           f == [p \in A \X B |-> [file |-> p[1], svc |-> p[2]]]
<1>1. /\ IsFiniteSet(A) /\ Cardinality(A) \in Nat /\ Cardinality(A) <= Cardinality(File) + 1
      /\ Cardinality(File) \in Nat
  BY FS_AddElement, FS_CardinalityType
<1>2. /\ IsFiniteSet(B) /\ Cardinality(B) \in Nat /\ Cardinality(B) <= Cardinality(Service) + 1
      /\ Cardinality(Service) \in Nat
  <2>1. IsFiniteSet(B) /\ Cardinality(Service) \in Nat
    BY FS_AddElement, FS_CardinalityType
  <2>2. Cardinality(B) = IF Full \in Service THEN Cardinality(Service) ELSE Cardinality(Service) + 1
    BY FS_AddElement
  <2> HIDE DEF B
  <2> QED
    BY <2>1, <2>2
<1>3. ASSUME NEW n \in Nodes
      PROVE  \E p \in A \X B : f[p] = n
  <2>1. n = [file |-> n.file, svc |-> n.svc] /\ n.file \in A /\ n.svc \in B
    BY DEF Nodes
  <2>2. <<n.file, n.svc>> \in A \X B /\ f[<<n.file, n.svc>>] = n
    BY <2>1
  <2> QED
    BY <2>2
<1>4. f \in [A \X B -> Nodes]
  BY DEF Nodes
<1> HIDE DEF A, B, f
<1>5. f \in Surjection(A \X B, Nodes)
  BY <1>3, <1>4 DEF Surjection
<1>6. IsFiniteSet(A \X B) /\ Cardinality(A \X B) = Cardinality(A) * Cardinality(B)
  BY <1>1, <1>2, FS_Product
<1>7. IsFiniteSet(Nodes) /\ Cardinality(Nodes) <= Cardinality(A \X B)
  BY <1>5, <1>6, FS_Surjection
<1>8. Cardinality(A) * Cardinality(B) <= NodeCount /\ NodeCount \in Nat
  <2>1. \A a, b, c, d \in Nat : a <= c /\ b <= d => a * b <= c * d /\ c * d \in Nat
    <3> SUFFICES ASSUME NEW a \in Nat, NEW b \in Nat, NEW c \in Nat, NEW d \in Nat,
                        a <= c, b <= d
                 PROVE  a * b <= c * d /\ c * d \in Nat
      OBVIOUS
    <3>1. a * b <= c * b
      OBVIOUS
    <3>2. c * b <= c * d
      OBVIOUS
    <3> QED
      BY <3>1, <3>2
  <2> QED
    BY <1>1, <1>2, <2>1 DEF NodeCount
<1>9. ASSUME NEW S \in SUBSET Nodes
      PROVE  Cardinality(S) \in Nat /\ Cardinality(S) <= NodeCount
  <2>1. IsFiniteSet(S) /\ Cardinality(S) <= Cardinality(Nodes)
    BY <1>7, FS_Subset
  <2>2. Cardinality(S) \in Nat /\ Cardinality(Nodes) \in Nat
    BY <1>7, <2>1, FS_CardinalityType
  <2> QED
    BY <1>6, <1>7, <1>8, <2>1, <2>2, FS_CardinalityType
<1> QED
  BY <1>7, <1>8, <1>9

(* Everything reached from fine roots is fine.                             *)
LEMMA ReachedIsFine ==
  ASSUME WrittenDocs, NodeCount \in Nat, Roots \subseteq Fine
  PROVE  Reached \subseteq Fine
<1> DEFINE body(f, k) == IF k = 0 THEN Roots ELSE LET S == f[k - 1] IN S \cup After(S)
           step == [q \in Nat \X SUBSET Fine |-> q[2] \cup After(q[2])]
           reach == CHOOSE f : f = [k \in Nat |-> body(f, k)]
<1>1. ASSUME NEW S \in SUBSET Fine
      PROVE  After(S) \in SUBSET Fine
  BY FineSound DEF After
<1>2. Steps(step, SUBSET Fine)
  BY <1>1 DEF Steps
<1>3. Roots \in SUBSET Fine
  OBVIOUS
<1>4. \A k \in Nat : \A S \in SUBSET Fine : step[<<k, S>>] = S \cup After(S)
  OBVIOUS
<1> HIDE DEF step
<1>5. PICK f : Unfolds(f, SUBSET Fine, Roots, step)
  BY <1>2, <1>3, RecursionOnNat
<1>6. ASSUME NEW k \in Nat
      PROVE  f[k] = body(f, k)
  <2>1. CASE k = 0
    BY <1>5, <2>1 DEF Unfolds
  <2>2. CASE k # 0
    <3>1. k - 1 \in Nat /\ (k - 1) + 1 = k
      BY <2>2
    <3>2. f[k - 1] \in SUBSET Fine /\ f[(k - 1) + 1] = step[<<k - 1, f[k - 1]>>]
      BY <1>5, <3>1 DEF Unfolds
    <3> QED
      BY <1>4, <2>2, <3>1, <3>2
  <2> QED
    BY <2>1, <2>2
<1>7. f = [k \in Nat |-> body(f, k)]
  BY <1>5, <1>6 DEF Unfolds
<1> HIDE DEF body
<1>8. reach = [k \in Nat |-> body(reach, k)]
  BY <1>7, Zenon
<1>9. Reached = reach[NodeCount]
  BY Zenon DEF Reached, body, reach
<1> HIDE DEF reach
<1>10. \A k \in Nat : reach[k] = body(reach, k)
  BY <1>8
<1> DEFINE T == {k \in Nat : reach[k] \in SUBSET Fine}
<1>11. 0 \in T
  BY <1>10 DEF body
<1>12. ASSUME NEW k \in Nat, k \in T
       PROVE  k + 1 \in T
  <2>1. k + 1 # 0 /\ (k + 1) - 1 = k /\ k + 1 \in Nat
    OBVIOUS
  <2>2. reach[k + 1] = reach[k] \cup After(reach[k])
    BY <1>10, <2>1 DEF body
  <2> QED
    BY <1>1, <1>12, <2>1, <2>2
<1> HIDE DEF T
<1>13. Nat \subseteq T
  BY <1>11, <1>12, InductionOnNat
<1> QED
  BY <1>9, <1>13 DEF T

(* Peeling off what refers to nothing left leaves nothing of it.           *)
LEMMA FineIsAcyclic ==
  ASSUME IsFiniteSet(File), IsFiniteSet(Service), NEW R \in SUBSET Fine
  PROVE  Acyclic(R)
<1> DEFINE kept(S) == {n \in S : Usable(n) /\ Needs(n) \cap S # {}}
           body(f, k) == IF k = 0 THEN R ELSE LET rest == f[k - 1] IN kept(rest)
           step == [q \in Nat \X SUBSET R |-> kept(q[2])]
           peel == CHOOSE f : f = [k \in Nat |-> body(f, k)]
<1>1. ASSUME NEW S \in SUBSET R
      PROVE  kept(S) \in SUBSET R
  OBVIOUS
<1>2. Steps(step, SUBSET R)
  BY <1>1 DEF Steps
<1>3. \A k \in Nat : \A S \in SUBSET R : step[<<k, S>>] = kept(S)
  OBVIOUS
<1> HIDE DEF step
<1>4. PICK f : Unfolds(f, SUBSET R, R, step)
  BY <1>2, RecursionOnNat
<1>5. ASSUME NEW k \in Nat
      PROVE  f[k] = body(f, k)
  <2>1. CASE k = 0
    BY <1>4, <2>1 DEF Unfolds
  <2>2. CASE k # 0
    <3>1. k - 1 \in Nat /\ (k - 1) + 1 = k
      BY <2>2
    <3>2. f[k - 1] \in SUBSET R /\ f[(k - 1) + 1] = step[<<k - 1, f[k - 1]>>]
      BY <1>4, <3>1 DEF Unfolds
    <3> QED
      BY <1>3, <2>2, <3>1, <3>2
  <2> QED
    BY <2>1, <2>2
<1>6. f = [k \in Nat |-> body(f, k)]
  BY <1>4, <1>5 DEF Unfolds
<1> HIDE DEF body
<1>7. peel = [k \in Nat |-> body(peel, k)]
  BY <1>6, Zenon
<1>8. Acyclic(R) <=> peel[NodeCount] = {}
  BY Zenon DEF Acyclic, body, peel, kept
<1> HIDE DEF peel
<1>9. \A k \in Nat : peel[k] = body(peel, k)
  BY <1>7
<1>10. /\ NodeCount \in Nat /\ IsFiniteSet(Nodes)
       /\ \A S \in SUBSET Nodes : Cardinality(S) \in Nat /\ Cardinality(S) <= NodeCount
  BY NodesCounted
<1>11. Fine \subseteq Nodes
  BY DEF Fine
<1> DEFINE T == {k \in Nat : /\ peel[k] \in SUBSET R
                             /\ peel[k] # {} => Cardinality(peel[k]) + k <= NodeCount}
<1>12. 0 \in T
  <2>1. peel[0] = R
    BY <1>9 DEF body
  <2>2. R \in SUBSET Nodes
    BY <1>11
  <2>3. Cardinality(R) \in Nat /\ Cardinality(R) <= NodeCount
    BY <1>10, <2>2
  <2> QED
    BY <2>1, <2>3
<1>13. ASSUME NEW k \in Nat, k \in T
       PROVE  k + 1 \in T
  <2> DEFINE S == peel[k]
  <2>1. k + 1 # 0 /\ (k + 1) - 1 = k /\ k + 1 \in Nat
    OBVIOUS
  <2>2. peel[k + 1] = kept(S)
    <3> HIDE DEF kept
    <3>1. peel[k + 1] = body(peel, k + 1)
      BY <1>9, <2>1
    <3> QED
      BY <2>1, <3>1 DEF body
  <2>3. S \in SUBSET R /\ S \in SUBSET Nodes /\ kept(S) \in SUBSET S
    BY <1>11, <1>13
  <2>4. S # {} => kept(S) # S
    <3> SUFFICES ASSUME kept(S) = S PROVE S = {}
      OBVIOUS
    <3>1. \A n \in S : Usable(n) /\ Needs(n) \cap S # {}
      OBVIOUS
    <3>2. S \in SUBSET Fine
      BY <2>3
    <3> HIDE DEF S, kept
    <3> QED
      BY <3>1, <3>2, FineEnds
  <2>5. kept(S) # {} => Cardinality(kept(S)) + (k + 1) <= NodeCount
    <3> SUFFICES ASSUME kept(S) # {}
                 PROVE  Cardinality(kept(S)) + (k + 1) <= NodeCount
      OBVIOUS
    <3> HIDE DEF kept
    <3>1. S # {} /\ kept(S) # S
      BY <2>3, <2>4
    <3>2. Cardinality(S) + k <= NodeCount
      BY <1>13, <3>1
    <3>3. IsFiniteSet(S)
      BY <1>10, <2>3, FS_Subset
    <3>4. Cardinality(kept(S)) <= Cardinality(S) /\ Cardinality(kept(S)) # Cardinality(S)
      BY <2>3, <3>1, <3>3, FS_Subset
    <3>5. Cardinality(S) \in Nat /\ Cardinality(kept(S)) \in Nat
      BY <1>10, <2>3
    <3> QED
      BY <1>10, <3>2, <3>4, <3>5
  <2> HIDE DEF kept, S
  <2>6. peel[k + 1] \in SUBSET R
    BY <2>2, <2>3
  <2> QED
    BY <2>1, <2>2, <2>5, <2>6
<1> HIDE DEF T
<1>14. Nat \subseteq T
  BY <1>12, <1>13, InductionOnNat
<1>15. peel[NodeCount] \in SUBSET R /\
       (peel[NodeCount] # {} => Cardinality(peel[NodeCount]) + NodeCount <= NodeCount)
  BY <1>10, <1>14 DEF T
<1>16. peel[NodeCount] = {}
  <2> SUFFICES ASSUME peel[NodeCount] # {} PROVE FALSE
    OBVIOUS
  <2>1. peel[NodeCount] \in SUBSET Nodes
    BY <1>11, <1>15
  <2>2. Cardinality(peel[NodeCount]) \in Nat /\ IsFiniteSet(peel[NodeCount])
    BY <1>10, <2>1, FS_Subset
  <2>3. Cardinality(peel[NodeCount]) = 0
    BY <1>10, <1>15, <2>2
  <2> QED
    BY <2>2, <2>3, FS_EmptySet
<1> QED
  BY <1>8, <1>16

LEMMA FineIsComplete ==
  ASSUME WrittenDocs, IsFiniteSet(File), IsFiniteSet(Service), Roots \subseteq Fine
  PROVE  Complete
<1>1. NodeCount \in Nat
  BY NodesCounted
<1>2. Reached \in SUBSET Fine
  BY <1>1, ReachedIsFine
<1>3. Acyclic(Reached)
  BY <1>2, FineIsAcyclic
<1>4. \A n \in Reached : Sound(n)
  BY <1>2, FineSound
<1> QED
  BY <1>3, <1>4 DEF Complete, Sound

-----------------------------------------------------------------------------
(* What the documents of a project say.                                    *)

LEMMA ProjectHere ==
  ASSUME NEW f \in File
  PROVE  f \in ProjectOf(f)
BY DEF ProjectOf

LEMMA ProjectBelow ==
  ASSUME NEW f \in File, IsDocument(docs[f]), NEW g \in Included(f) \cap File
  PROVE  ProjectOf(g) \subseteq ProjectOf(f)
<1> DEFINE Closed(S) == \A h \in S : IsDocument(docs[h]) => Included(h) \cap File \subseteq S
<1> SUFFICES ASSUME NEW h \in ProjectOf(g), NEW S \in SUBSET File, f \in S, Closed(S)
             PROVE  h \in S
  BY DEF ProjectOf
<1>1. g \in S
  OBVIOUS
<1> QED
  BY <1>1 DEF ProjectOf

LEMMA SaidHere ==
  ASSUME NEW f \in File, IsDocument(docs[f]), NEW s
  PROVE  /\ docs[f].services[s] # NoService => Mentions(f, s)
         /\ OwnExt(f, s).form = "mapping" => Maps(f, s)
BY ProjectHere DEF Mentions, Maps

LEMMA SaidBelow ==
  ASSUME NEW f \in File, IsDocument(docs[f]), NEW g \in Included(f) \cap File, NEW s
  PROVE  /\ Mentions(g, s) => Mentions(f, s)
         /\ Maps(g, s) => Maps(f, s)
BY ProjectBelow DEF Mentions, Maps

-----------------------------------------------------------------------------
(* Services and their merge.                                               *)

IsBody(b) ==
  /\ b = [image |-> b.image, caps |-> b.caps, vols |-> b.vols, ext |-> b.ext]
  /\ b.ext \in Exts

IsSaid(b) == b = NoBody \/ IsBody(b)

LEMMA Bodies ==
  /\ NoService # NoBody
  /\ \A i, c, v, e : HasBody([image |-> i, caps |-> c, vols |-> v, ext |-> e])
<1>1. NoService # NoBody
  BY DEF NoService, NoBody
<1>2. ASSUME NEW i, NEW c, NEW v, NEW e
      PROVE  HasBody([image |-> i, caps |-> c, vols |-> v, ext |-> e])
  <2>1. DOMAIN [image |-> i, caps |-> c, vols |-> v, ext |-> e] # DOMAIN NoService
    BY DEF NoService
  <2>2. DOMAIN [image |-> i, caps |-> c, vols |-> v, ext |-> e] # DOMAIN NoBody
    BY DEF NoBody
  <2> QED
    BY <2>1, <2>2 DEF HasBody
<1> QED
  BY <1>1, <1>2

LEMMA BodyIsSaid ==
  ASSUME NEW b
  PROVE  /\ IsBody(b) => HasBody(b) /\ b # NoService /\ b # NoBody
         /\ IsSaid(b) => b # NoService
         /\ IsSaid(b) /\ HasBody(b) => IsBody(b)
<1>1. IsBody(b) => HasBody(b)
  <2> SUFFICES ASSUME IsBody(b) PROVE HasBody(b)
    OBVIOUS
  <2>1. b = [image |-> b.image, caps |-> b.caps, vols |-> b.vols, ext |-> b.ext]
    BY DEF IsBody
  <2>2. HasBody([image |-> b.image, caps |-> b.caps, vols |-> b.vols, ext |-> b.ext])
    BY Bodies, Zenon
  <2> QED
    BY <2>1, <2>2, Zenon
<1> QED
  BY <1>1, Bodies DEF IsSaid, HasBody

HasFile(e) == "file" \in DOMAIN e
IsMapping(e) == e.form = "mapping"

LEMMA ExtForms ==
  ASSUME NEW e \in Exts
  PROVE  /\ e = NoExt \/ e \in [form : {"short", "mapping"}, svc : Service]
              \/ e \in [form : {"mapping"}, svc : Service, file : File \cup {Away}]
         /\ e # NoExt => e.svc \in Service
         /\ HasFile(e) => e # NoExt /\ IsMapping(e) /\ e.file \in File \cup {Away}
         /\ IsMapping(e) => e # NoExt
BY DEF Exts, HasFile, IsMapping, NoExt

LEMMA MergeExtIs ==
  ASSUME NEW b \in Exts, NEW t \in Exts
  PROVE  /\ MergeExt(b, t) \in Exts
         /\ t = NoExt => MergeExt(b, t) = b
         /\ t # NoExt => MergeExt(b, t) # NoExt
         /\ IsMapping(MergeExt(b, t)) => IsMapping(b) \/ IsMapping(t)
         /\ t # NoExt /\ (HasFile(t) \/ ~IsMapping(b) \/ ~IsMapping(t)) => MergeExt(b, t) = t
<1> DEFINE o == [k \in DOMAIN t \cup DOMAIN b |-> IF k \in DOMAIN t THEN t[k] ELSE b[k]]
<1>1. CASE t = NoExt
  BY <1>1, ExtForms DEF MergeExt
<1>2. CASE t # NoExt /\ IsMapping(t) /\ IsMapping(b)
  <2>1. MergeExt(b, t) = o
    BY <1>2 DEF MergeExt, IsMapping
  <2>2. b # NoExt
    BY <1>2, ExtForms
  <2>3. ASSUME HasFile(t)
        PROVE  o = t /\ t \in Exts
    <3>1. DOMAIN t = {"form", "svc", "file"}
      BY <2>3, ExtForms DEF HasFile, NoExt
    <3>2. DOMAIN b \subseteq {"form", "svc", "file"}
      BY <2>2, ExtForms
    <3>3. t = [k \in DOMAIN t |-> t[k]]
      BY ExtForms, <1>2
    <3>4. DOMAIN t \cup DOMAIN b = DOMAIN t
      BY <3>1, <3>2
    <3> QED
      BY <3>3, <3>4
  <2>4. ASSUME ~HasFile(t), ~HasFile(b)
        PROVE  o \in Exts /\ o # NoExt
    <3>1. DOMAIN t = {"form", "svc"} /\ DOMAIN b = {"form", "svc"}
      BY <2>2, <2>4, <1>2, ExtForms DEF HasFile
    <3>2. t = [k \in DOMAIN t |-> t[k]]
      BY ExtForms, <1>2
    <3>3. o = t
      BY <3>1, <3>2
    <3> QED
      BY <1>2, <3>3
  <2>5. ASSUME ~HasFile(t), HasFile(b)
        PROVE  o \in Exts /\ o # NoExt
    <3>1. DOMAIN t = {"form", "svc"} /\ DOMAIN b = {"form", "svc", "file"}
      BY <2>2, <2>5, <1>2, ExtForms DEF HasFile
    <3>2. DOMAIN o = {"form", "svc", "file"} /\ o["form"] = t.form /\ o["svc"] = t.svc
            /\ o["file"] = b.file
      BY <3>1
    <3>3. t.form = "mapping" /\ t.svc \in Service /\ b.file \in File \cup {Away}
      BY <1>2, <2>5, ExtForms DEF IsMapping
    <3>4. o = [form |-> t.form, svc |-> t.svc, file |-> b.file]
      BY <3>2
    <3> HIDE DEF o
    <3>5. o \in [form : {"mapping"}, svc : Service, file : File \cup {Away}]
      BY <3>3, <3>4
    <3>6. o # NoExt
      <4>1. DOMAIN NoExt = {"form"}
        BY DEF NoExt
      <4> QED
        BY <3>2, <4>1
    <3> QED
      BY <3>5, <3>6 DEF Exts
  <2> HIDE DEF o
  <2> QED
    BY <1>2, <2>1, <2>3, <2>4, <2>5
<1>3. CASE t # NoExt /\ ~(IsMapping(t) /\ IsMapping(b))
  BY <1>3 DEF MergeExt, IsMapping
<1> QED
  BY <1>1, <1>2, <1>3

LEMMA MergeServiceIs ==
  ASSUME NEW base, NEW top, IsSaid(base), IsSaid(top), NEW tags
  PROVE  /\ IsSaid(MergeService(base, top, tags))
         /\ HasBody(top) => HasBody(MergeService(base, top, tags))
         /\ HasBody(base) /\ ~HasBody(top) => MergeService(base, top, tags) = base
         /\ HasBody(top) /\ ~HasBody(base) => MergeService(base, top, tags) = top
         /\ HasBody(base) /\ HasBody(top) =>
              MergeService(base, top, tags).ext = MergeExt(base.ext, top.ext)
         /\ ~HasBody(base) /\ ~HasBody(top) => MergeService(base, top, tags) = NoBody
<1>1. CASE top = NoBody
  BY <1>1, Bodies, BodyIsSaid DEF MergeService, IsSaid, HasBody
<1>2. CASE top # NoBody /\ base = NoBody
  BY <1>2, Bodies, BodyIsSaid DEF MergeService, IsSaid, HasBody
<1>3. CASE top # NoBody /\ base # NoBody
  <2> DEFINE i == IF top.image # Unset THEN top.image
                  ELSE IF "reset" \in tags THEN Unset ELSE base.image
             c == IF "override" \in tags THEN top.caps ELSE MergeAppended(base.caps, top.caps)
             v == MergeKeyed(base.vols, top.vols)
             e == MergeExt(base.ext, top.ext)
             m == [image |-> i, caps |-> c, vols |-> v, ext |-> e]
  <2>1. IsBody(base) /\ IsBody(top)
    BY <1>3 DEF IsSaid
  <2>2. HasBody(base) /\ HasBody(top)
    BY <2>1, BodyIsSaid
  <2>3. MergeService(base, top, tags) = m
    BY <1>3 DEF MergeService
  <2>4. e \in Exts
    BY <2>1, MergeExtIs DEF IsBody
  <2> HIDE DEF i, c, v, e
  <2>5. m = [image |-> m.image, caps |-> m.caps, vols |-> m.vols, ext |-> m.ext] /\ m.ext = e
    OBVIOUS
  <2>6. IsBody(m)
    BY <2>4, <2>5 DEF IsBody
  <2>7. HasBody(m)
    BY <2>6, BodyIsSaid
  <2> HIDE DEF m
  <2> QED
    BY <2>2, <2>3, <2>5, <2>6, <2>7 DEF IsSaid, e
<1> QED
  BY <1>1, <1>2, <1>3

-----------------------------------------------------------------------------
(* Documents and their merge.                                              *)

(* Only services of A are there, and only those of B with a mapping under  *)
(* their `extends:`.                                                       *)
Said(b, s, B) == IsSaid(b) /\ (HasBody(b) /\ IsMapping(b.ext) => s \in B)

Says(data, A, B) ==
  /\ data = [s \in Service |-> data[s]]
  /\ \A s \in Service : data[s] # NoService => s \in A /\ Said(data[s], s, B)

LEMMA MergeServiceSays ==
  ASSUME NEW s, NEW B, NEW base, NEW top, Said(base, s, B), Said(top, s, B), NEW tags
  PROVE  Said(MergeService(base, top, tags), s, B)
<1> DEFINE m == MergeService(base, top, tags)
<1>1. IsSaid(base) /\ IsSaid(top)
  BY DEF Said
<1>2. IsSaid(m)
  BY <1>1, MergeServiceIs
<1>3. CASE HasBody(base) /\ HasBody(top)
  <2>1. m.ext = MergeExt(base.ext, top.ext)
    BY <1>1, <1>3, MergeServiceIs
  <2>2. base.ext \in Exts /\ top.ext \in Exts
    BY <1>1, <1>3, BodyIsSaid DEF IsBody
  <2>3. IsMapping(m.ext) => IsMapping(base.ext) \/ IsMapping(top.ext)
    BY <2>1, <2>2, MergeExtIs
  <2>4. HasBody(base) /\ HasBody(top) /\ IsSaid(m)
    BY <1>2, <1>3
  <2> HIDE DEF m
  <2>5. Said(m, s, B)
    BY <2>3, <2>4 DEF Said
  <2> QED
    BY <2>5 DEF m
<1>4. CASE HasBody(base) /\ ~HasBody(top)
  <2>1. MergeService(base, top, tags) = base
    BY <1>1, <1>4, MergeServiceIs
  <2> QED
    BY <2>1, Zenon
<1>5. CASE HasBody(top) /\ ~HasBody(base)
  <2>1. MergeService(base, top, tags) = top
    BY <1>1, <1>5, MergeServiceIs
  <2> QED
    BY <2>1, Zenon
<1>6. CASE ~HasBody(top) /\ ~HasBody(base)
  <2>1. m = NoBody
    BY <1>1, <1>6, MergeServiceIs
  <2> QED
    BY <1>2, <2>1 DEF Said, HasBody
<1> QED
  BY <1>3, <1>4, <1>5, <1>6

LEMMA MergeServicesSays ==
  ASSUME NEW A, NEW B, NEW base, NEW top, Says(base, A, B), Says(top, A, B), NEW tags
  PROVE  Says(MergeServices(base, top, tags), A, B)
<1> DEFINE m == MergeServices(base, top, tags)
<1>1. m = [s \in Service |-> m[s]]
  BY DEF MergeServices
<1>2. ASSUME NEW s \in Service, m[s] # NoService
      PROVE  s \in A /\ Said(m[s], s, B)
  <2>1. CASE top[s] = NoService
    BY <1>2, <2>1 DEF MergeServices, Says
  <2>2. CASE top[s] # NoService /\ base[s] = NoService
    BY <1>2, <2>2 DEF MergeServices, Says
  <2>3. CASE top[s] # NoService /\ base[s] # NoService
    <3>1. m[s] = MergeService(base[s], top[s], tags[s])
      BY <2>3 DEF MergeServices
    <3>2. s \in A /\ Said(base[s], s, B) /\ Said(top[s], s, B)
      BY <2>3 DEF Says
    <3> QED
      BY <3>1, <3>2, MergeServiceSays
  <2> QED
    BY <2>1, <2>2, <2>3
<1> HIDE DEF m
<1>3. Says(m, A, B)
  BY <1>1, <1>2 DEF Says
<1> QED
  BY <1>3 DEF m

LEMMA NothingSays == \A A, B : Says(Nothing, A, B)
BY DEF Says, Nothing

(* What has been merged after each of the documents.                       *)
MergedBy(q, m) ==
  /\ m[0] = Nothing
  /\ \A i \in 1 .. Len(q) : m[i] = MergeServices(m[i - 1], q[i].data, q[i].tags)

LEMMA MergeUnfolds ==
  ASSUME NEW q, Len(q) \in Nat
  PROVE  \E m : MergedBy(q, m) /\ MergeDocuments(q) = m[Len(q)]
<1> DEFINE next(x, i) == MergeServices(x, q[i].data, q[i].tags)
           body(m, i) == IF i = 0 THEN Nothing ELSE MergeServices(m[i - 1], q[i].data, q[i].tags)
           Upto(m, n) == m = [i \in 0 .. n |-> body(m, i)]
           T == {n \in Nat : \E m : Upto(m, n)}
           merged == CHOOSE m : m = [i \in 0 .. Len(q) |-> body(m, i)]
<1>1. 0 \in T
  <2> DEFINE g == [i \in 0 .. 0 |-> Nothing]
  <2>1. \A i \in 0 .. 0 : body(g, i) = Nothing
    OBVIOUS
  <2>2. Upto(g, 0)
    BY <2>1
  <2> QED
    BY <2>2
<1>2. ASSUME NEW n \in Nat, n \in T
      PROVE  n + 1 \in T
  <2>1. PICK m : Upto(m, n)
    BY <1>2
  <2> DEFINE g == [i \in 0 .. n + 1 |-> IF i = n + 1 THEN next(m[n], n + 1) ELSE m[i]]
  <2> HIDE DEF next
  <2>2. ASSUME NEW i \in 0 .. n + 1
        PROVE  g[i] = body(g, i)
    <3>1. CASE i = 0
      <4>1. m[0] = body(m, 0)
        BY <2>1
      <4> QED
        BY <3>1, <4>1
    <3>2. CASE i = n + 1
      <4>1. i # 0 /\ i - 1 = n /\ n \in 0 .. n + 1 /\ n # n + 1
        BY <3>2
      <4>2. g[i - 1] = m[n] /\ g[i] = next(m[n], n + 1)
        BY <3>2, <4>1
      <4> QED
        BY <3>2, <4>1, <4>2 DEF next
    <3>3. CASE i # 0 /\ i # n + 1
      <4>1. i \in 0 .. n /\ i - 1 \in 0 .. n + 1 /\ i - 1 # n + 1
        BY <3>3
      <4>2. g[i] = m[i] /\ g[i - 1] = m[i - 1]
        BY <3>3, <4>1
      <4>3. m[i] = body(m, i)
        BY <2>1, <4>1
      <4> QED
        BY <3>3, <4>2, <4>3
    <3> QED
      BY <3>1, <3>2, <3>3
  <2>3. g = [i \in 0 .. n + 1 |-> g[i]]
    OBVIOUS
  <2> HIDE DEF g, body
  <2>4. Upto(g, n + 1)
    BY <2>2, <2>3
  <2> HIDE DEF Upto
  <2>5. \E m1 : Upto(m1, n + 1)
    BY <2>4
  <2> QED
    BY <2>5
<1> HIDE DEF T
<1>3. Nat \subseteq T
  BY <1>1, <1>2, InductionOnNat
<1> HIDE DEF body
<1>4. \E m : Upto(m, Len(q))
  BY <1>3 DEF T
<1>5. merged = [i \in 0 .. Len(q) |-> body(merged, i)]
  BY <1>4, Zenon
<1>6. MergeDocuments(q) = merged[Len(q)]
  BY Zenon DEF MergeDocuments, merged, body
<1> HIDE DEF merged
<1>7. \A i \in 0 .. Len(q) : merged[i] = body(merged, i)
  BY <1>5
<1>8. merged[0] = Nothing
  BY <1>7 DEF body
<1>9. \A i \in 1 .. Len(q) : merged[i] = MergeServices(merged[i - 1], q[i].data, q[i].tags)
  BY <1>7 DEF body
<1>10. MergedBy(q, merged)
  BY <1>8, <1>9 DEF MergedBy
<1> QED
  BY <1>6, <1>10

LEMMA MergedSays ==
  ASSUME NEW A, NEW B, NEW q, NEW m, MergedBy(q, m), NEW n \in Nat, n <= Len(q), Len(q) \in Nat,
         \A i \in 1 .. n : Says(q[i].data, A, B)
  PROVE  Says(m[n], A, B)
<1> DEFINE T == {k \in Nat : k <= n => Says(m[k], A, B)}
<1>1. 0 \in T
  BY NothingSays DEF MergedBy
<1>2. ASSUME NEW k \in Nat, k \in T
      PROVE  k + 1 \in T
  <2> SUFFICES ASSUME k + 1 <= n PROVE Says(m[k + 1], A, B)
    OBVIOUS
  <2>1. k <= n /\ k + 1 \in 1 .. n /\ k + 1 \in 1 .. Len(q) /\ (k + 1) - 1 = k
    OBVIOUS
  <2>2. m[k + 1] = MergeServices(m[k], q[k + 1].data, q[k + 1].tags)
    BY <2>1 DEF MergedBy
  <2>3. Says(m[k], A, B) /\ Says(q[k + 1].data, A, B)
    BY <1>2, <2>1
  <2> QED
    BY <2>2, <2>3, MergeServicesSays
<1> HIDE DEF T
<1>3. Nat \subseteq T
  BY <1>1, <1>2, InductionOnNat
<1> QED
  BY <1>3 DEF T

(* A list of documents that together say no more than that.                *)
Documents(q, A, B) ==
  /\ q \in Seq({q[i] : i \in DOMAIN q})
  /\ \A i \in 1 .. Len(q) : Says(q[i].data, A, B)

LEMMA MergeDocumentsSays ==
  ASSUME NEW A, NEW B, NEW q, Documents(q, A, B)
  PROVE  Says(MergeDocuments(q), A, B)
<1>1. Len(q) \in Nat
  BY LenProperties DEF Documents
<1>2. PICK m : MergedBy(q, m) /\ MergeDocuments(q) = m[Len(q)]
  BY <1>1, MergeUnfolds
<1>3. \A i \in 1 .. Len(q) : Says(q[i].data, A, B)
  BY DEF Documents
<1>4. Len(q) <= Len(q)
  BY <1>1
<1>5. Says(m[Len(q)], A, B)
  BY <1>1, <1>2, <1>3, <1>4, MergedSays
<1> QED
  BY <1>2, <1>5

(* A service over its base names what it named.                            *)
LEMMA MergeUnder ==
  ASSUME NEW base, NEW top, IsSaid(base), IsBody(top), top.ext # NoExt, NEW tags
  PROVE  /\ IsBody(MergeService(base, top, tags))
         /\ IsMapping(MergeService(base, top, tags).ext) => IsMapping(top.ext)
         /\ HasFile(top.ext) \/ ~IsMapping(top.ext) \/ ~(HasBody(base) /\ IsMapping(base.ext)) =>
              MergeService(base, top, tags).ext = top.ext
<1> DEFINE m == MergeService(base, top, tags)
<1>1. HasBody(top) /\ IsSaid(top) /\ top.ext \in Exts
  BY BodyIsSaid DEF IsBody, IsSaid
<1>2. IsSaid(m) /\ HasBody(m)
  BY <1>1, MergeServiceIs
<1>3. IsBody(m)
  BY <1>2, BodyIsSaid
<1>4. CASE ~HasBody(base)
  <2>1. m = top
    BY <1>1, <1>4, MergeServiceIs
  <2> HIDE DEF m
  <2>2. /\ IsBody(m) /\ (IsMapping(m.ext) => IsMapping(top.ext)) /\ m.ext = top.ext
    BY <1>3, <2>1
  <2> QED
    BY <2>2 DEF m
<1>5. CASE HasBody(base)
  <2>1. m.ext = MergeExt(base.ext, top.ext)
    BY <1>1, <1>5, MergeServiceIs
  <2>2. base.ext \in Exts
    BY <1>5, BodyIsSaid DEF IsBody
  <2>3. /\ HasFile(top.ext) \/ ~IsMapping(base.ext) \/ ~IsMapping(top.ext) => m.ext = top.ext
    BY <1>1, <2>1, <2>2, MergeExtIs
  <2> HIDE DEF m
  <2>4. /\ IsBody(m) /\ (IsMapping(m.ext) => IsMapping(top.ext))
        /\ HasFile(top.ext) \/ ~IsMapping(top.ext) \/ ~(HasBody(base) /\ IsMapping(base.ext)) =>
             m.ext = top.ext
    BY <1>3, <1>5, <2>3
  <2> QED
    BY <2>4 DEF m
<1> QED
  BY <1>4, <1>5

LEMMA OwnKept ==
  ASSUME NEW A, NEW B, NEW base, Says(base, A, B), NEW top, NEW tags, NEW s \in Service,
         IsBody(top[s]), top[s].ext # NoExt,
         HasFile(top[s].ext) \/ ~IsMapping(top[s].ext) \/ s \notin B
  PROVE  /\ IsBody(MergeServices(base, top, tags)[s])
         /\ MergeServices(base, top, tags)[s].ext = top[s].ext
<1>1. top[s] # NoService
  BY BodyIsSaid
<1>2. CASE base[s] = NoService
  BY <1>1, <1>2 DEF MergeServices
<1>3. CASE base[s] # NoService
  <2>1. MergeServices(base, top, tags)[s] = MergeService(base[s], top[s], tags[s])
    BY <1>1, <1>3 DEF MergeServices
  <2>2. IsSaid(base[s]) /\ (HasBody(base[s]) /\ IsMapping(base[s].ext) => s \in B)
    BY <1>3 DEF Says, Said
  <2>3. /\ IsBody(MergeService(base[s], top[s], tags[s]))
        /\ MergeService(base[s], top[s], tags[s]).ext = top[s].ext
    BY <2>2, MergeUnder
  <2> QED
    BY <2>1, <2>3
<1> QED
  BY <1>2, <1>3

-----------------------------------------------------------------------------
(* A document as parsed, and folded with what it includes.                 *)

Declared(f) == {s \in Service : docs[f].services[s] # NoService}
Mapped(f) == {s \in Service : IsMapping(OwnExt(f, s))}

LEMMA ParsedSays ==
  ASSUME WrittenDocs, NEW f \in File, IsDocument(docs[f]), NEW env
  PROVE  /\ Says(Parsed(f, env), Declared(f), Mapped(f))
         /\ \A s \in Service :
              /\ OwnExt(f, s) \in Exts
              /\ OwnExt(f, s) # NoExt =>
                   IsBody(Parsed(f, env)[s]) /\ Parsed(f, env)[s].ext = OwnExt(f, s)
<1> DEFINE w(s) == docs[f].services[s]
           p(s) == Parsed(f, env)[s]
<1>1. IsWritten(docs[f])
  BY DEF WrittenDocs
<1>2. ASSUME NEW s \in Service
      PROVE  w(s) = NoService \/ w(s) = NoBody \/ w(s).ext \in Exts
  BY <1>1 DEF IsWritten
<1>3. \A s \in Service : p(s) = Written(f, s, env)
  BY DEF Parsed
<1>4. NoExt \in Exts /\ ~IsMapping(NoExt)
  BY DEF Exts, NoExt, IsMapping
<1>5. ASSUME NEW s \in Service, HasBody(w(s))
      PROVE  IsBody(p(s)) /\ p(s).ext = OwnExt(f, s) /\ OwnExt(f, s) \in Exts
  <2> DEFINE i == CASE w(s).kind = "plain" -> <<f, s>>
                    [] w(s).kind = "ref" -> EnvValue(env)
                    [] OTHER -> Unset
             c == CASE w(s).kind = "plain" -> <<Common, <<f, s>>>>
                    [] w(s).kind \in {"reset", "override"} -> <<<<f, s>>>>
                    [] OTHER -> << >>
             v == IF w(s).kind = "plain"
                  THEN <<[key |-> Sock, src |-> <<f, s>>], [key |-> <<f, s>>, src |-> <<f, s>>]>>
                  ELSE << >>
             e == w(s).ext
             b == [image |-> i, caps |-> c, vols |-> v, ext |-> e]
  <2>1. p(s) = b
    BY <1>3, <1>5, Zenon DEF Written
  <2>2. e \in Exts
    BY <1>2, <1>5 DEF HasBody
  <2>3. OwnExt(f, s) = e
    BY <1>5 DEF OwnExt
  <2> HIDE DEF i, c, v, e
  <2>4. b = [image |-> b.image, caps |-> b.caps, vols |-> b.vols, ext |-> b.ext] /\ b.ext = e
    OBVIOUS
  <2>5. IsBody(b)
    BY <2>2, <2>4 DEF IsBody
  <2> HIDE DEF b
  <2> QED
    BY <2>1, <2>2, <2>3, <2>4, <2>5
<1>6. ASSUME NEW s \in Service, ~HasBody(w(s))
      PROVE  p(s) = w(s) /\ OwnExt(f, s) = NoExt
  BY <1>3, <1>6 DEF Written, OwnExt
<1>7. Parsed(f, env) = [s \in Service |-> p(s)]
  BY DEF Parsed
<1>8. ASSUME NEW s \in Service, p(s) # NoService
      PROVE  s \in Declared(f) /\ Said(p(s), s, Mapped(f))
  <2>1. CASE HasBody(w(s))
    <3>1. w(s) # NoService
      BY <2>1 DEF HasBody
    <3>2. IsSaid(p(s)) /\ (IsMapping(p(s).ext) => s \in Mapped(f))
      BY <1>5, <2>1 DEF IsSaid, Mapped
    <3> QED
      BY <3>1, <3>2 DEF Declared, Said
  <2>2. CASE ~HasBody(w(s))
    <3>1. p(s) = NoBody /\ w(s) = NoBody
      BY <1>6, <1>8, <2>2 DEF HasBody
    <3> QED
      BY <3>1, Bodies DEF Declared, Said, IsSaid, HasBody
  <2> QED
    BY <2>1, <2>2
<1> HIDE DEF p, w
<1>9. Says(Parsed(f, env), Declared(f), Mapped(f))
  BY <1>7, <1>8 DEF Says, p
<1>10. \A s \in Service : /\ OwnExt(f, s) \in Exts
                          /\ OwnExt(f, s) # NoExt => IsBody(p(s)) /\ p(s).ext = OwnExt(f, s)
  BY <1>4, <1>5, <1>6
<1> QED
  BY <1>9, <1>10 DEF p

LEMMA SaysMore ==
  ASSUME NEW data, NEW A, NEW B, Says(data, A, B), NEW C, NEW D, A \subseteq C, B \subseteq D
  PROVE  Says(data, C, D)
BY DEF Says, Said

(* The folded entries, the earlier over the later, and the document over   *)
(* them all.                                                               *)
LEMMA FoldUnfolds ==
  ASSUME NEW frame, NEW A, NEW B, Documents(frame.parts, A, B)
  PROVE  \E q, m :
           LET n == Len(frame.parts)
           IN  /\ n \in Nat /\ Len(q) = n + 1 /\ MergedBy(q, m)
               /\ \A i \in 1 .. n : (n - i) + 1 \in 1 .. n /\ q[i] = frame.parts[(n - i) + 1]
               /\ Fold(frame) = MergeServices(m[n], frame.data, NoTags)
<1> DEFINE S == {frame.parts[i] : i \in DOMAIN frame.parts}
           own == [data |-> frame.data, tags |-> NoTags]
           back == Reverse(frame.parts)
           q == Append(back, own)
           n == Len(frame.parts)
<1>1. frame.parts \in Seq(S)
  BY DEF Documents
<1>2. n \in Nat /\ \A i \in 1 .. n : frame.parts[i] \in S
  BY <1>1, LenProperties
<1>3. back = [i \in 1 .. n |-> frame.parts[(n - i) + 1]]
  BY DEF Reverse
<1>4. \A i \in 1 .. n : (n - i) + 1 \in 1 .. n
  BY <1>2
<1>5. \A i \in 1 .. n : back[i] \in S /\ back[i] = frame.parts[(n - i) + 1]
  <2> SUFFICES ASSUME NEW i \in 1 .. n PROVE back[i] \in S /\ back[i] = frame.parts[(n - i) + 1]
    OBVIOUS
  <2>1. back[i] = frame.parts[(n - i) + 1]
    BY <1>3
  <2> QED
    BY <1>2, <1>4, <2>1
<1> HIDE DEF S
<1>6. back \in [1 .. n -> S]
  BY <1>3, <1>5
<1> HIDE DEF back, n
<1>7. back \in Seq(S) /\ Len(back) = n
  BY <1>2, <1>6
<1> DEFINE U == S \cup {own}
<1>8. back \in Seq(U) /\ own \in U
  BY <1>7, SeqMonotonic
<1> HIDE DEF U
<1>9. /\ Len(q) = n + 1
      /\ \A i \in 1 .. n : q[i] = back[i]
      /\ q[n + 1] = own
  BY <1>7, <1>8, AppendProperties
<1> HIDE DEF q
<1>10. Len(q) \in Nat
  BY <1>2, <1>9
<1>11. PICK m : MergedBy(q, m) /\ MergeDocuments(q) = m[Len(q)]
  BY <1>10, MergeUnfolds
<1>12. n + 1 \in 1 .. Len(q) /\ (n + 1) - 1 = n
  BY <1>2, <1>9
<1>13. m[n + 1] = MergeServices(m[n], q[n + 1].data, q[n + 1].tags)
  BY <1>11, <1>12 DEF MergedBy
<1>14. q[n + 1].data = frame.data /\ q[n + 1].tags = NoTags
  BY <1>9
<1>15. Fold(frame) = m[n + 1]
  BY <1>9, <1>11 DEF Fold, q, back
<1>16. Fold(frame) = MergeServices(m[n], frame.data, NoTags)
  BY <1>13, <1>14, <1>15
<1>17. /\ n \in Nat /\ Len(q) = n + 1 /\ MergedBy(q, m)
       /\ \A i \in 1 .. n : (n - i) + 1 \in 1 .. n /\ q[i] = frame.parts[(n - i) + 1]
       /\ Fold(frame) = MergeServices(m[n], frame.data, NoTags)
  BY <1>2, <1>4, <1>5, <1>9, <1>11, <1>16
<1> QED
  BY <1>17 DEF n

LEMMA FoldIs ==
  ASSUME NEW frame, NEW A, NEW B, Documents(frame.parts, A, B)
  PROVE  \E m : Says(m, A, B) /\ Fold(frame) = MergeServices(m, frame.data, NoTags)
<1> DEFINE n == Len(frame.parts)
<1>1. PICK q, m :
        /\ n \in Nat /\ Len(q) = n + 1 /\ MergedBy(q, m)
        /\ \A i \in 1 .. n : (n - i) + 1 \in 1 .. n /\ q[i] = frame.parts[(n - i) + 1]
        /\ Fold(frame) = MergeServices(m[n], frame.data, NoTags)
  BY FoldUnfolds
<1>2. \A i \in 1 .. n : Says(q[i].data, A, B)
  BY <1>1 DEF Documents
<1>3. n <= Len(q) /\ Len(q) \in Nat
  BY <1>1
<1> HIDE DEF n
<1>4. Says(m[n], A, B)
  BY <1>1, <1>2, <1>3, MergedSays
<1> QED
  BY <1>1, <1>4

MentionedBy(f) == {s \in Service : Mentions(f, s)}
MappedBy(f)    == {s \in Service : Maps(f, s)}
MappedBelow(f) == {s \in Service : \E g \in Included(f) \cap File : Maps(g, s)}

(* What a document is after its includes: it says no more than its         *)
(* project, and every `extends:` of its own stands as it is written.       *)
Folds(f, data) ==
  /\ Says(data, MentionedBy(f), MappedBy(f))
  /\ \A s \in Service : OwnExt(f, s) # NoExt => IsBody(data[s]) /\ data[s].ext = OwnExt(f, s)

LEMMA ProjectSays ==
  ASSUME NEW f \in File, IsDocument(docs[f])
  PROVE  /\ Declared(f) \subseteq MentionedBy(f)
         /\ Mapped(f) \subseteq MappedBy(f)
         /\ MappedBelow(f) \subseteq MappedBy(f)
         /\ \A g \in Included(f) \cap File : /\ MentionedBy(g) \subseteq MentionedBy(f)
                                             /\ MappedBy(g) \subseteq MappedBelow(f)
<1>1. \A s \in Service : /\ s \in Declared(f) => s \in MentionedBy(f)
                         /\ s \in Mapped(f) => s \in MappedBy(f)
  BY SaidHere DEF Declared, Mapped, MentionedBy, MappedBy, IsMapping
<1>2. \A g \in Included(f) \cap File : \A s \in Service :
        /\ Mentions(g, s) => Mentions(f, s)
        /\ Maps(g, s) => Maps(f, s)
  BY SaidBelow
<1> QED
  BY <1>1, <1>2 DEF Declared, Mapped, MentionedBy, MappedBy, MappedBelow

LEMMA ParsedFolds ==
  ASSUME WrittenDocs, NEW f \in File, IsDocument(docs[f]), NEW env
  PROVE  Folds(f, Parsed(f, env))
<1>1. Says(Parsed(f, env), Declared(f), Mapped(f))
  BY ParsedSays
<1>2. Says(Parsed(f, env), MentionedBy(f), MappedBy(f))
  BY <1>1, ProjectSays, SaysMore
<1> QED
  BY <1>2, ParsedSays DEF Folds

LEMMA FoldFolds ==
  ASSUME WrittenDocs, ~Mixed, NEW frame, frame.file \in File, IsDocument(docs[frame.file]),
         frame.data = Parsed(frame.file, frame.env),
         Documents(frame.parts, MentionedBy(frame.file), MappedBelow(frame.file))
  PROVE  Folds(frame.file, Fold(frame))
<1> DEFINE f == frame.file
           A == MentionedBy(f)
           B == MappedBelow(f)
           d == frame.data
<1>1. PICK m : Says(m, A, B) /\ Fold(frame) = MergeServices(m, d, NoTags)
  BY FoldIs
<1>2. Folds(f, d)
  BY ParsedFolds
<1>3. Says(m, A, MappedBy(f)) /\ Says(d, A, MappedBy(f))
  BY <1>1, <1>2, ProjectSays, SaysMore DEF Folds
<1>4. Says(MergeServices(m, d, NoTags), A, MappedBy(f))
  BY <1>3, MergeServicesSays
<1>5. ASSUME NEW s \in Service, OwnExt(f, s) # NoExt
      PROVE  /\ IsBody(MergeServices(m, d, NoTags)[s])
             /\ MergeServices(m, d, NoTags)[s].ext = OwnExt(f, s)
  <2>1. IsBody(d[s]) /\ d[s].ext = OwnExt(f, s)
    BY <1>2, <1>5 DEF Folds
  <2>2. HasFile(d[s].ext) \/ ~IsMapping(d[s].ext) \/ s \notin B
    BY <2>1 DEF Mixed, HasFile, IsMapping, MappedBelow
  <2> HIDE DEF B, d
  <2>3. /\ IsBody(MergeServices(m, d, NoTags)[s])
        /\ MergeServices(m, d, NoTags)[s].ext = d[s].ext
    BY <1>1, <1>5, <2>1, <2>2, OwnKept
  <2> QED
    BY <2>1, <2>3
<1> QED
  BY <1>1, <1>4, <1>5 DEF Folds

-----------------------------------------------------------------------------
(* In-file bases.                                                          *)

LEMMA TargetIs ==
  ASSUME NEW frame, NEW A, NEW B, Says(frame.data, A, B), NEW s \in Service, NEW t \in Target(frame, s)
  PROVE  /\ t \in Service /\ s \notin frame.skip
         /\ IsBody(frame.data[s]) /\ frame.data[s].ext # NoExt
         /\ t = frame.data[s].ext.svc /\ Target(frame, s) = {t}
         /\ InFileTarget(frame.data[s]) = {t}
<1> DEFINE b == frame.data[s]
<1>1. s \notin frame.skip /\ t \in InFileTarget(b)
  BY DEF Target
<1>2. HasBody(b) /\ b.ext.form # "none" /\ t = b.ext.svc /\ InFileTarget(b) = {t}
  BY <1>1 DEF InFileTarget
<1>3. Target(frame, s) = {t}
  BY <1>1, <1>2 DEF Target
<1>4. b # NoService
  BY <1>2 DEF HasBody
<1>5. IsBody(b)
  BY <1>2, <1>4, BodyIsSaid DEF Says, Said
<1>6. b.ext # NoExt
  BY <1>2 DEF NoExt
<1>7. t \in Service
  BY <1>2, <1>5, <1>6, ExtForms DEF IsBody
<1> QED
  BY <1>1, <1>2, <1>3, <1>5, <1>6, <1>7

(* One more round of inheriting.                                           *)
Resolved(frame, cut, up) ==
  [s \in Service |->
     IF Target(frame, s) = {} \/ s \in cut \/ Undeclared(frame, s)
     THEN frame.data[s]
     ELSE LET t == CHOOSE u \in Target(frame, s) : TRUE
          IN  MergeService(up[t], frame.data[s], Tags(frame.file)[s])]

LEMMA InheritedUnfolds ==
  ASSUME NEW frame, NEW cut
  PROVE  \E u : /\ u[0] = frame.data
                /\ \A i \in 1 .. Cardinality(Service) : u[i] = Resolved(frame, cut, u[i - 1])
                /\ Inherited(frame, cut) = u[Cardinality(Service)]
<1> DEFINE N == Cardinality(Service)
           next(x) == Resolved(frame, cut, x)
           body(m, i) == IF i = 0 THEN frame.data
                         ELSE [s \in Service |->
                           IF Target(frame, s) = {} \/ s \in cut \/ Undeclared(frame, s)
                           THEN frame.data[s]
                           ELSE LET t == CHOOSE u \in Target(frame, s) : TRUE
                                IN  MergeService(m[i - 1][t], frame.data[s], Tags(frame.file)[s])]
           Upto(m, n) == m = [i \in 0 .. n |-> body(m, i)]
           T == {n \in Nat : \E m : Upto(m, n)}
           up == CHOOSE m : m = [i \in 0 .. N |-> body(m, i)]
<1>0. N \in Nat
  BY LoadAssumption, FS_CardinalityType
<1>1. \A m, i : i = 0 => body(m, i) = frame.data
  OBVIOUS
<1>2. \A m, i : i # 0 => body(m, i) = next(m[i - 1])
  BY DEF Resolved
<1>3. Inherited(frame, cut) = up[N]
  BY Zenon DEF Inherited, up, body
<1> HIDE DEF N, next, body
<1>4. 0 \in T
  <2> DEFINE g == [i \in 0 .. 0 |-> frame.data]
  <2>1. \A i \in 0 .. 0 : body(g, i) = frame.data
    BY <1>1
  <2>2. Upto(g, 0)
    BY <2>1
  <2> QED
    BY <2>2
<1>5. ASSUME NEW n \in Nat, n \in T
      PROVE  n + 1 \in T
  <2>1. PICK m : Upto(m, n)
    BY <1>5
  <2> DEFINE g == [i \in 0 .. n + 1 |-> IF i = n + 1 THEN next(m[n]) ELSE m[i]]
  <2>2. ASSUME NEW i \in 0 .. n + 1
        PROVE  g[i] = body(g, i)
    <3>1. CASE i = 0
      <4>1. m[0] = body(m, 0)
        BY <2>1
      <4>2. g[0] = m[0]
        OBVIOUS
      <4> QED
        BY <1>1, <3>1, <4>1, <4>2
    <3>2. CASE i = n + 1
      <4>1. i # 0 /\ i - 1 = n /\ n \in 0 .. n + 1 /\ n # n + 1
        BY <3>2
      <4>2. g[i - 1] = m[n] /\ g[i] = next(m[n])
        BY <3>2, <4>1
      <4> QED
        BY <1>2, <4>1, <4>2
    <3>3. CASE i # 0 /\ i # n + 1
      <4>1. i \in 0 .. n /\ i - 1 \in 0 .. n + 1 /\ i - 1 # n + 1
        BY <3>3
      <4>2. g[i] = m[i] /\ g[i - 1] = m[i - 1]
        BY <3>3, <4>1
      <4>3. m[i] = body(m, i)
        BY <2>1, <4>1
      <4> QED
        BY <1>2, <3>3, <4>2, <4>3
    <3> QED
      BY <3>1, <3>2, <3>3
  <2>3. g = [i \in 0 .. n + 1 |-> g[i]]
    OBVIOUS
  <2> HIDE DEF g
  <2>4. Upto(g, n + 1)
    BY <2>2, <2>3
  <2> HIDE DEF Upto
  <2>5. \E m1 : Upto(m1, n + 1)
    BY <2>4
  <2> QED
    BY <2>5
<1> HIDE DEF T
<1>6. Nat \subseteq T
  BY <1>4, <1>5, InductionOnNat
<1>7. \E m : Upto(m, N)
  BY <1>0, <1>6 DEF T
<1>8. up = [i \in 0 .. N |-> body(up, i)]
  BY <1>7, Zenon
<1> HIDE DEF up
<1>9. \A i \in 0 .. N : up[i] = body(up, i)
  BY <1>8
<1>10. up[0] = frame.data
  BY <1>0, <1>1, <1>9
<1>11. \A i \in 1 .. N : up[i] = next(up[i - 1])
  BY <1>0, <1>2, <1>9
<1> QED
  BY <1>3, <1>10, <1>11 DEF N, next

LEMMA InheritedSays ==
  ASSUME NEW frame, NEW A, NEW B, Says(frame.data, A, B), NEW cut
  PROVE  /\ Says(Inherited(frame, cut), A, B)
         /\ \A s \in Service : Inherited(frame, cut)[s] # NoService <=> frame.data[s] # NoService
<1> DEFINE N == Cardinality(Service)
           d == frame.data
           D == {s \in Service : d[s] # NoService}
           ok(up) == Says(up, D, B) /\ \A s \in D : up[s] # NoService
<1>0. N \in Nat
  BY LoadAssumption, FS_CardinalityType
<1>1. PICK u : /\ u[0] = d
               /\ \A i \in 1 .. N : u[i] = Resolved(frame, cut, u[i - 1])
               /\ Inherited(frame, cut) = u[N]
  BY InheritedUnfolds
<1>2. ok(d)
  BY DEF Says
<1>3. ASSUME NEW up, ok(up)
      PROVE  ok(Resolved(frame, cut, up))
  <2> DEFINE r == Resolved(frame, cut, up)
  <2>1. r = [s \in Service |-> r[s]]
    BY DEF Resolved
  <2>2. ASSUME NEW s \in Service
        PROVE  /\ r[s] # NoService => s \in D /\ Said(r[s], s, B)
               /\ s \in D => r[s] # NoService
    <3>1. CASE Target(frame, s) = {} \/ s \in cut \/ Undeclared(frame, s)
      <4>1. r[s] = d[s]
        BY <3>1 DEF Resolved
      <4> HIDE DEF r
      <4> QED
        BY <4>1 DEF Says
    <3>2. CASE ~(Target(frame, s) = {} \/ s \in cut \/ Undeclared(frame, s))
      <4> DEFINE t == CHOOSE x \in Target(frame, s) : TRUE
                 m == MergeService(up[t], d[s], Tags(frame.file)[s])
      <4>1. t \in Target(frame, s) /\ d[t] # NoService
        BY <3>2 DEF Undeclared
      <4>2. r[s] = m
        BY <3>2 DEF Resolved
      <4> HIDE DEF t, r
      <4>3. t \in D /\ IsBody(d[s]) /\ d[s].ext # NoExt
        BY <4>1, TargetIs
      <4>4. IsSaid(up[t])
        BY <1>3, <4>3 DEF Says, Said
      <4>5. IsBody(m) /\ (IsMapping(m.ext) => IsMapping(d[s].ext))
        BY <4>3, <4>4, MergeUnder
      <4>6. s \in D /\ (IsMapping(d[s].ext) => s \in B)
        BY <4>3, BodyIsSaid DEF Says, Said
      <4> HIDE DEF m
      <4> QED
        BY <4>2, <4>5, <4>6, BodyIsSaid DEF Said, IsSaid
    <3> QED
      BY <3>1, <3>2
  <2> HIDE DEF r, D
  <2>3. Says(r, D, B)
    BY <2>1, <2>2 DEF Says
  <2>4. \A s \in D : r[s] # NoService
    BY <2>2 DEF D
  <2> QED
    BY <2>3, <2>4 DEF r
<1> HIDE DEF ok
<1> DEFINE T == {k \in Nat : k <= N => ok(u[k])}
<1>4. 0 \in T
  BY <1>1, <1>2
<1>5. ASSUME NEW k \in Nat, k \in T
      PROVE  k + 1 \in T
  <2> SUFFICES ASSUME k + 1 <= N PROVE ok(u[k + 1])
    OBVIOUS
  <2>1. k <= N /\ k + 1 \in 1 .. N /\ (k + 1) - 1 = k
    BY <1>0
  <2>2. u[k + 1] = Resolved(frame, cut, u[k])
    BY <1>1, <2>1
  <2>3. ok(u[k])
    BY <1>5, <2>1
  <2> QED
    BY <1>3, <2>2, <2>3
<1> HIDE DEF T
<1>6. Nat \subseteq T
  BY <1>4, <1>5, InductionOnNat
<1>7. ok(Inherited(frame, cut))
  BY <1>0, <1>1, <1>6 DEF T
<1>8. D \subseteq A
  BY DEF Says
<1> HIDE DEF D
<1>9. Says(Inherited(frame, cut), D, B)
  BY <1>7 DEF ok
<1>10. Says(Inherited(frame, cut), A, B)
  BY <1>8, <1>9, SaysMore
<1>11. \A s \in Service : Inherited(frame, cut)[s] # NoService <=> s \in D
  BY <1>0, <1>7, <1>9 DEF Says, ok
<1> QED
  BY <1>10, <1>11 DEF D

(* Following targets among finitely many services, each of which has one,  *)
(* comes back to a service: one from which fewest can be followed.         *)
LEMMA Descends ==
  ASSUME NEW frame, NEW X \in SUBSET Service, X # {},
         \A s \in X : \E t \in X : Target(frame, s) = {t}
  PROVE  \E s \in X : OnCycle(frame, s)
<1> DEFINE Closed(S) == \A t \in S : Target(frame, t) \subseteq S
           From(s) == {t \in Service : \A S \in SUBSET Service :
                         Target(frame, s) \subseteq S /\ Closed(S) => t \in S}
           size == [s \in X |-> Cardinality(From(s))]
<1>1. \A s \in X : IsFiniteSet(From(s)) /\ size[s] \in Nat
  <2>1. ASSUME NEW s \in X
        PROVE  IsFiniteSet(From(s)) /\ Cardinality(From(s)) \in Nat
    <3>1. From(s) \in SUBSET Service
      OBVIOUS
    <3> HIDE DEF From
    <3> QED
      BY <3>1, LoadAssumption, FS_Subset, FS_CardinalityType
  <2> QED
    BY <2>1
<1>2. \A s \in X : \A t \in X : Target(frame, s) = {t} => t \in From(s) /\ From(t) \subseteq From(s)
  OBVIOUS
<1>3. \A s \in X : s \in From(s) => OnCycle(frame, s)
  BY DEF OnCycle
<1>4. \A s \in X : size[s] = Cardinality(From(s))
  OBVIOUS
<1> HIDE DEF From, size
<1>5. \E s \in X : \A t \in X : size[s] <= size[t]
  <2> DEFINE T == {k \in Nat : \A s \in X : size[s] <= k => \E r \in X : \A t \in X : size[r] <= size[t]}
  <2>1. 0 \in T
    BY <1>1
  <2>2. ASSUME NEW k \in Nat, k \in T
        PROVE  k + 1 \in T
    <3> SUFFICES ASSUME NEW s \in X, size[s] <= k + 1
                 PROVE  \E r \in X : \A t \in X : size[r] <= size[t]
      OBVIOUS
    <3>1. CASE \E r \in X : size[r] <= k
      BY <2>2, <3>1
    <3>2. CASE \A r \in X : ~(size[r] <= k)
      BY <1>1, <3>2
    <3> QED
      BY <3>1, <3>2
  <2> HIDE DEF T
  <2>3. Nat \subseteq T
    BY <2>1, <2>2, InductionOnNat
  <2>4. PICK s : s \in X
    OBVIOUS
  <2>5. size[s] \in T /\ size[s] <= size[s]
    BY <1>1, <2>3, <2>4
  <2> QED
    BY <2>4, <2>5 DEF T
<1>6. PICK s \in X : \A t \in X : size[s] <= size[t]
  BY <1>5
<1>7. PICK t \in X : Target(frame, s) = {t}
  OBVIOUS
<1>8. t \in From(s) /\ From(t) \subseteq From(s)
  BY <1>2, <1>7
<1>9. From(t) = From(s)
  <2>1. From(t) # From(s) => Cardinality(From(t)) < Cardinality(From(s))
    BY <1>1, <1>8, FS_Subset, FS_CardinalityType
  <2>2. size[s] <= size[t] /\ size[s] \in Nat /\ size[t] \in Nat
    BY <1>1, <1>6
  <2> QED
    BY <1>4, <2>1, <2>2
<1> QED
  BY <1>3, <1>8, <1>9

(* Nothing is cut only where nothing comes back.                           *)
LEMMA NoCut ==
  ASSUME NEW frame, {} \in Cuts(frame)
  PROVE  \A s \in Service : ~OnCycle(frame, s)
<1> SUFFICES ASSUME NEW s \in Service, OnCycle(frame, s)
             PROVE  FALSE
  OBVIOUS
<1> DEFINE cyclic == {t \in Service : OnCycle(frame, t)}
           cycle(r) == {t \in cyclic : r \in Chain(frame.data, t) /\ t \in Chain(frame.data, r)}
<1>1. \A r \in cyclic : Cardinality({} \cap cycle(r)) = 1
  BY DEF Cuts
<1>2. s \in cyclic
  OBVIOUS
<1> HIDE DEF cyclic, cycle
<1>3. Cardinality({} \cap cycle(s)) = 1
  BY <1>1, <1>2
<1>4. {} \cap cycle(s) = {}
  OBVIOUS
<1>5. Cardinality({}) = 0
  BY FS_EmptySet
<1> QED
  BY <1>3, <1>4, <1>5

-----------------------------------------------------------------------------
(* Activations.                                                            *)

Followed(f, s) == Node(f, s) \in Fine

(* The services whose own `extends:` this activation does not leave alone. *)
Wanted(frame, W) ==
  /\ frame.want = Full => W = Service
  /\ frame.want # Full => (frame.data[frame.want] # NoService => frame.want \in W)
  /\ \A s \in W : \A t \in InFileTarget(frame.data[s]) : frame.data[t] # NoService => t \in W
  /\ \A s \in W : OwnExt(frame.file, s) # NoExt => s \notin frame.skip

(* Past its includes. While nothing was missed, each was followed, and so  *)
(* was each base in another file but those to come and the one it waits    *)
(* for.                                                                    *)
ExtendPhase(frame) ==
  /\ Folds(frame.file, frame.data)
  /\ \E W \in SUBSET Service : Wanted(frame, W)
  /\ frame.gaps = {} =>
       /\ \A g \in Included(frame.file) : Followed(g, Full)
       /\ \A s \in Service \ frame.skip : HasFile(OwnExt(frame.file, s)) =>
            \/ s \in frame.todo \cup frame.at
            \/ Followed(OwnExt(frame.file, s).file, OwnExt(frame.file, s).svc)
  /\ frame.todo \subseteq {s \in Service : CrossFile(frame.data[s])}

IsOpen(frame) ==
  /\ frame.file \in File /\ IsDocument(docs[frame.file])
  /\ frame.want \in Service \cup {Full}

(* A document whose includes were followed is sound, in full and for each  *)
(* service it says something of.                                           *)
LEMMA FinishedIsSound ==
  ASSUME NEW frame, IsOpen(frame), ExtendPhase(frame), ~Vacuous(frame),
         NEW s \in Service \cup {Full}, s # Full => frame.data[s] # NoService
  PROVE  Node(frame.file, s) \in Nodes /\ Sound(Node(frame.file, s))
<1> DEFINE n == Node(frame.file, s)
<1>1. n \in Nodes /\ n.file = frame.file /\ n.svc = s
  BY DEF Node, Nodes, IsOpen
<1>2. Usable(n)
  BY <1>1 DEF Usable, IsOpen
<1>3. Says(frame.data, MentionedBy(frame.file), MappedBy(frame.file))
  BY DEF ExtendPhase, Folds
<1>4. s # Full => Mentions(frame.file, s)
  BY <1>3 DEF Says, MentionedBy
<1>5. ASSUME Included(frame.file) # {}
      PROVE  \E t \in Service : Mentions(frame.file, t)
  <2>1. Entries(frame.file) # << >>
    BY <1>5 DEF Included
  <2>2. frame.data # Nothing
    BY <2>1 DEF Vacuous
  <2>3. frame.data = [t \in Service |-> frame.data[t]]
    BY <1>3 DEF Says
  <2>4. \E t \in Service : frame.data[t] # NoService
    BY <2>2, <2>3 DEF Nothing
  <2> QED
    BY <1>3, <2>4 DEF Says, MentionedBy
<1> HIDE DEF n
<1>6. Sound(n)
  BY <1>1, <1>2, <1>4, <1>5 DEF Sound, Readable
<1> QED
  BY <1>1, <1>6 DEF n

(* What a node's document asks for, one kind at a time.                    *)
LEMMA NeedsFollowed ==
  ASSUME NEW f, NEW s, \A g \in Included(f) : Followed(g, Full),
         \A t \in IF s = Full THEN Service ELSE {s} : OwnExt(f, t) # NoExt =>
           IF HasFile(OwnExt(f, t)) THEN Followed(OwnExt(f, t).file, OwnExt(f, t).svc)
           ELSE Followed(f, OwnExt(f, t).svc)
  PROVE  Needs(Node(f, s)) \subseteq Fine
<1>1. Node(f, s).file = f /\ Node(f, s).svc = s
  BY DEF Node
<1> DEFINE n == Node(f, s)
           S == IF n.svc = Full THEN Service ELSE {n.svc}
           of(ext) == IF "file" \in DOMAIN ext THEN Node(ext.file, ext.svc) ELSE Node(n.file, ext.svc)
<1>2. S = IF s = Full THEN Service ELSE {s}
  BY <1>1
<1> HIDE DEF n, S
<1>3. \A g \in Included(n.file) : Node(g, Full) \in Fine
  BY <1>1 DEF Followed, n
<1>4. n.file = f
  BY <1>1 DEF n
<1>5. ASSUME NEW t \in S, OwnExt(n.file, t) # NoExt
      PROVE  of(OwnExt(n.file, t)) \in Fine
  BY <1>2, <1>4, <1>5 DEF Followed, HasFile
<1>6. \A e \in {OwnExt(n.file, t) : t \in S} \ {NoExt} : of(e) \in Fine
  BY <1>5
<1> HIDE DEF of
<1>7. Needs(n) = {Node(g, Full) : g \in Included(n.file)}
                   \cup {of(e) : e \in {OwnExt(n.file, t) : t \in S} \ {NoExt}}
  BY Zenon DEF Needs, of, S
<1>8. Needs(n) \subseteq Fine
  BY <1>3, <1>6, <1>7
<1> QED
  BY <1>8 DEF n

(* Done without a gap, the document is followed to the end: in full if it  *)
(* was asked for in full, for one service if that is there.                *)
LEMMA FinishedIsFollowed ==
  ASSUME WrittenDocs, NEW frame, IsOpen(frame), ExtendPhase(frame), ~Vacuous(frame),
         frame.gaps = {}, frame.todo = {}, frame.at = {}, {} \in Cuts(frame),
         \A s \in Service : ~Undeclared(frame, s),
         frame.want # Full => frame.data[frame.want] # NoService
  PROVE  Followed(frame.file, frame.want)
<1> DEFINE f == frame.file
           d == frame.data
<1>1. PICK W \in SUBSET Service : Wanted(frame, W)
  BY DEF ExtendPhase
<1>2. f \in File /\ IsDocument(docs[f])
  BY DEF IsOpen
<1>3. Says(d, MentionedBy(f), MappedBy(f))
  BY DEF ExtendPhase, Folds
<1>4. \A s \in Service : OwnExt(f, s) \in Exts
  BY <1>2, ParsedSays
<1>5. \A g \in Included(f) : Followed(g, Full)
  BY DEF ExtendPhase
<1> DEFINE Live == {s \in W : d[s] # NoService}
           X == {s \in Live : ~Followed(f, s)}
           Own == {s \in W : OwnExt(f, s) # NoExt}
(* In another file.                                                        *)
<1>6. ASSUME NEW s \in Own, HasFile(OwnExt(f, s))
      PROVE  Followed(OwnExt(f, s).file, OwnExt(f, s).svc)
  <2>1. s \in Service \ frame.skip
    BY <1>1, <1>6 DEF Wanted
  <2> QED
    BY <1>6, <2>1 DEF ExtendPhase
(* In this one.                                                            *)
<1>7. ASSUME NEW s \in Own, ~HasFile(OwnExt(f, s))
      PROVE  /\ Target(frame, s) = {OwnExt(f, s).svc}
             /\ OwnExt(f, s).svc \in Live
  <2> DEFINE e == OwnExt(f, s)
  <2>1. s \in Service /\ s \notin frame.skip /\ e # NoExt /\ e \in Exts
    BY <1>1, <1>4, <1>7 DEF Wanted
  <2>2. IsBody(d[s]) /\ d[s].ext = e
    BY <2>1 DEF ExtendPhase, Folds
  <2>3. HasBody(d[s])
    BY <2>2, BodyIsSaid
  <2>4. e.form # "none"
    BY <2>1, ExtForms DEF NoExt
  <2> HIDE DEF e, d
  <2>5. InFileTarget(d[s]) = {e.svc}
    BY <1>7, <2>2, <2>3, <2>4 DEF InFileTarget, HasFile, e
  <2>6. Target(frame, s) = {e.svc}
    BY <2>1, <2>5 DEF Target, d
  <2>7. d[e.svc] # NoService
    BY <2>1, <2>6 DEF Undeclared, d
  <2>8. e.svc \in W
    BY <1>1, <2>5, <2>7 DEF Wanted, d
  <2> QED
    BY <2>6, <2>7, <2>8 DEF e, d
<1>8. \A s \in Service : ~OnCycle(frame, s)
  BY NoCut
<1>9. ASSUME NEW s \in X
      PROVE  \E t \in X : Target(frame, s) = {t}
  <2>1. s \in Service /\ s \in W /\ d[s] # NoService /\ s # Full
    BY LoadAssumption
  <2>2. Node(f, s) \in Nodes /\ Sound(Node(f, s))
    BY <2>1, FinishedIsSound
  <2>3. s \in Own /\ ~HasFile(OwnExt(f, s)) /\ ~Followed(f, OwnExt(f, s).svc)
    <3> SUFFICES ASSUME s \in Own =>
                   IF HasFile(OwnExt(f, s)) THEN Followed(OwnExt(f, s).file, OwnExt(f, s).svc)
                   ELSE Followed(f, OwnExt(f, s).svc)
                 PROVE  Followed(f, s)
      BY <1>6
    <3>1. Needs(Node(f, s)) \subseteq Fine
      <4>1. \A t \in IF s = Full THEN Service ELSE {s} : OwnExt(f, t) # NoExt =>
              IF HasFile(OwnExt(f, t)) THEN Followed(OwnExt(f, t).file, OwnExt(f, t).svc)
              ELSE Followed(f, OwnExt(f, t).svc)
        BY <2>1
      <4> HIDE DEF f
      <4> QED
        BY <1>5, <4>1, NeedsFollowed
    <3> QED
      BY <2>2, <3>1, FineAll DEF Followed
  <2>4. Target(frame, s) = {OwnExt(f, s).svc} /\ OwnExt(f, s).svc \in Live
    BY <1>7, <2>3
  <2> QED
    BY <2>3, <2>4
<1>10. X = {}
  <2>1. X \in SUBSET Service
    BY <1>1
  <2> HIDE DEF X
  <2>2. X # {} => \E s \in X : OnCycle(frame, s)
    BY <1>9, <2>1, Descends
  <2> QED
    BY <1>8, <2>1, <2>2
<1>11. \A s \in Live : Followed(f, s)
  BY <1>10
<1>12. CASE frame.want # Full
  <2>1. frame.want \in Live
    BY <1>1, <1>12 DEF Wanted
  <2> QED
    BY <1>11, <2>1
<1>13. CASE frame.want = Full
  <2>1. W = Service
    BY <1>1, <1>13 DEF Wanted
  <2>2. \A t \in Service : OwnExt(f, t) # NoExt =>
          IF HasFile(OwnExt(f, t)) THEN Followed(OwnExt(f, t).file, OwnExt(f, t).svc)
          ELSE Followed(f, OwnExt(f, t).svc)
    BY <1>6, <1>7, <1>11, <2>1
  <2>3. Node(f, Full) \in Nodes /\ Sound(Node(f, Full))
    BY FinishedIsSound
  <2> HIDE DEF f
  <2>4. Needs(Node(f, Full)) \subseteq Fine
    BY <1>5, <2>2, NeedsFollowed
  <2>5. Followed(f, Full)
    BY <2>3, <2>4, FineAll DEF Followed
  <2> QED
    BY <1>13, <2>5 DEF f
<1> QED
  BY <1>12, <1>13

(* At its includes: while nothing was missed, each reference before the    *)
(* one it is at was followed.                                              *)
IncludePhase(frame) ==
  LET f == frame.file IN
  /\ frame.data = Parsed(f, frame.env)
  /\ frame.at = {}
  /\ frame.entry \in Nat \ {0} /\ frame.ref \in Nat \ {0}
  /\ frame.entry <= Len(Entries(f)) => frame.ref <= Len(Entries(f)[frame.entry])
  /\ frame.gaps = {} => \A i \in DOMAIN Entries(f) : \A j \in DOMAIN Entries(f)[i] :
       i < frame.entry \/ (i = frame.entry /\ j < frame.ref) => Followed(Entries(f)[i][j], Full)
  /\ Documents(frame.part, MentionedBy(f), MappedBelow(f))
  /\ Documents(frame.parts, MentionedBy(f), MappedBelow(f))

(* The last activation has followed all it folded in, and waits for none.  *)
Ready(frame) ==
  \/ /\ frame.phase = "include" /\ IncludePhase(frame)
     /\ frame.gaps = {} => \A p \in frame.folded : Followed(p[1], Full)
  \/ /\ frame.phase = "extends" /\ ExtendPhase(frame)
     /\ frame.at = {}

(* Another waits for the document, or the service, that the next one is    *)
(* loading.                                                                *)
Waits(frame, callee) ==
  \/ /\ frame.phase = "include" /\ IncludePhase(frame)
     /\ frame.entry <= Len(Entries(frame.file))
     /\ callee.want = Full /\ callee.file = Reference(frame)
     /\ frame.gaps = {} => \A p \in frame.folded : Followed(p[1], Full) \/ p[1] = callee.file
  \/ /\ frame.phase = "extends" /\ ExtendPhase(frame)
     /\ callee.want # Full
     /\ \E s \in Service :
          /\ frame.at = {s} /\ s \notin frame.todo /\ CrossFile(frame.data[s])
          /\ Base(frame, s) = <<callee.file, callee.want>>

Fields == {"file", "want", "env", "depth", "inc", "ext", "budget", "data", "phase", "entry",
           "ref", "folded", "part", "parts", "skip", "todo", "at", "gaps"}

IsActivation(frame) ==
  /\ DOMAIN frame = Fields
  /\ IsOpen(frame)

(* The stack: each waits for the next, and the last for none.              *)
Chained(q) ==
  /\ q \in Seq({q[i] : i \in DOMAIN q})
  /\ \A i \in 1 .. Len(q) : IsActivation(q[i])
  /\ \A i \in 1 .. Len(q) - 1 : Waits(q[i], q[i + 1])

Resting(q) == q # << >> => Ready(Last(q))

From(q, f) == q # << >> => q[1].file = f /\ q[1].want = Full

-----------------------------------------------------------------------------
(* All of it is about the files, which no step changes.                    *)

LEMMA FilesKept ==
  ASSUME docs' = docs
  PROVE  /\ \A f : Entries(f)' = Entries(f)
         /\ \A f : Included(f)' = Included(f)
         /\ \A f, s : OwnExt(f, s)' = OwnExt(f, s)
         /\ \A n : Usable(n)' = Usable(n)
         /\ \A n : Readable(n)' = Readable(n)
         /\ \A n : Needs(n)' = Needs(n)
         /\ \A f : ProjectOf(f)' = ProjectOf(f)
<1>1. \A f : Entries(f)' = Entries(f)
  BY DEF Entries
<1>2. \A f : Included(f)' = Included(f)
  BY <1>1 DEF Included
<1>3. \A f, s : OwnExt(f, s)' = OwnExt(f, s)
  BY DEF OwnExt
<1>4. \A n : Usable(n)' = Usable(n)
  BY DEF Usable
<1>5. \A n : Readable(n)' = Readable(n)
  BY <1>4 DEF Readable
<1>6. \A n : Needs(n)' = Needs(n)
  BY <1>2, <1>3, Zenon DEF Needs
<1>7. \A f : ProjectOf(f)' = ProjectOf(f)
  BY <1>2 DEF ProjectOf
<1> QED
  BY <1>1, <1>2, <1>3, <1>4, <1>5, <1>6, <1>7

LEMMA FineKept ==
  ASSUME docs' = docs
  PROVE  /\ \A f, s : Followed(f, s)' = Followed(f, s)
         /\ \A f : MentionedBy(f)' = MentionedBy(f)
         /\ \A f : MappedBy(f)' = MappedBy(f)
         /\ \A f : MappedBelow(f)' = MappedBelow(f)
         /\ Mixed' = Mixed
<1>1. \A f, s : Mentions(f, s)' = Mentions(f, s)
  BY FilesKept DEF Mentions
<1>2. \A f, s : Maps(f, s)' = Maps(f, s)
  BY FilesKept DEF Maps
<1>3. \A n : Sound(n)' = Sound(n)
  BY <1>1, FilesKept DEF Sound
<1>4. \A S : Inductive(S)' = Inductive(S)
  BY <1>3, FilesKept DEF Inductive
<1>5. Fine' = Fine
  BY <1>4 DEF Fine
<1>6. \A f, s : Followed(f, s)' = Followed(f, s)
  BY <1>5 DEF Followed
<1>7. \A f : MentionedBy(f)' = MentionedBy(f)
  BY <1>1 DEF MentionedBy
<1>8. \A f : MappedBy(f)' = MappedBy(f)
  BY <1>2 DEF MappedBy
<1>9. \A f : MappedBelow(f)' = MappedBelow(f)
  BY <1>2, FilesKept DEF MappedBelow
<1>10. Mixed' = Mixed
  BY <1>2, FilesKept DEF Mixed
<1> QED
  BY <1>6, <1>7, <1>8, <1>9, <1>10

LEMMA StackKept ==
  ASSUME docs' = docs, supplied' = supplied
  PROVE  /\ \A q : Chained(q)' = Chained(q)
         /\ \A q : Resting(q)' = Resting(q)
<1>1. \A env : EnvValue(env)' = EnvValue(env)
  BY DEF EnvValue
<1>2. \A f, s, env : Written(f, s, env)' = Written(f, s, env)
  BY <1>1 DEF Written
<1>3. \A f, env : Parsed(f, env)' = Parsed(f, env)
  BY <1>2 DEF Parsed
<1>4. \A f, data : Folds(f, data)' = Folds(f, data)
  BY FilesKept, FineKept DEF Folds
<1>5. \A frame, W : Wanted(frame, W)' = Wanted(frame, W)
  BY FilesKept DEF Wanted
<1>6. \A frame : ExtendPhase(frame)' = ExtendPhase(frame)
  BY <1>4, <1>5, FilesKept, FineKept DEF ExtendPhase
<1>7. \A frame : IncludePhase(frame)' = IncludePhase(frame)
  BY <1>3, FilesKept, FineKept DEF IncludePhase
<1>8. \A frame : Ready(frame)' = Ready(frame)
  BY <1>6, <1>7, FineKept DEF Ready
<1>9. \A frame : Reference(frame)' = Reference(frame)
  BY FilesKept DEF Reference
<1>10. \A frame, callee : Waits(frame, callee)' = Waits(frame, callee)
  BY <1>6, <1>7, <1>9, FilesKept, FineKept DEF Waits
<1>11. \A frame : IsActivation(frame)' = IsActivation(frame)
  BY DEF IsActivation, IsOpen
<1>12. \A q : Chained(q)' = Chained(q)
  BY <1>10, <1>11 DEF Chained
<1>13. \A q : Resting(q)' = Resting(q)
  BY <1>8 DEF Resting
<1> QED
  BY <1>12, <1>13

SameTask(a, b) == a.file = b.file /\ a.want = b.want

LEMMA WaitsSame ==
  ASSUME NEW c, NEW a, NEW b, Waits(c, a), SameTask(b, a)
  PROVE  Waits(c, b)
BY DEF Waits, SameTask

LEMMA ChainedIs ==
  ASSUME NEW q, Chained(q)
  PROVE  /\ IsList(q) /\ Len(q) \in Nat /\ (q # << >> => Len(q) # 0)
         /\ \A i \in 1 .. Len(q) : IsActivation(q[i])
         /\ q # << >> => IsActivation(Last(q))
<1>1. IsList(q)
  BY DEF Chained, IsList
<1>2. Len(q) \in Nat
  BY <1>1, LenProperties DEF IsList
<1>3. q # << >> => Len(q) # 0
  BY <1>1, FrontIs
<1>4. \A i \in 1 .. Len(q) : IsActivation(q[i])
  BY DEF Chained
<1>5. q # << >> => Len(q) \in 1 .. Len(q)
  BY <1>2, <1>3
<1> QED
  BY <1>1, <1>2, <1>3, <1>4, <1>5 DEF Last

LEMMA ChainedFront ==
  ASSUME NEW q, Chained(q), q # << >>
  PROVE  /\ Chained(Front(q))
         /\ Len(Front(q)) = Len(q) - 1
         /\ Front(q) # << >> => Waits(Last(Front(q)), Last(q))
         /\ \A f : From(q, f) => From(Front(q), f)
<1> DEFINE p == Front(q)
           n == Len(q)
<1>1. IsList(q) /\ \A i \in 1 .. n : IsActivation(q[i])
  BY ChainedIs
<1>2. IsList(p) /\ n \in Nat \ {0} /\ Len(p) = n - 1 /\ \A i \in 1 .. n - 1 : p[i] = q[i]
  BY <1>1, FrontIs
<1>3. \A i \in 1 .. n - 1 : Waits(q[i], q[i + 1])
  BY DEF Chained
<1>4. Last(q) = q[n]
  BY DEF Last
<1>5. Last(p) = p[n - 1]
  BY <1>2 DEF Last
<1> HIDE DEF p, n
<1>6. \A i \in 1 .. Len(p) : IsActivation(p[i])
  BY <1>1, <1>2
<1>7. ASSUME NEW i \in 1 .. Len(p) - 1
      PROVE  Waits(p[i], p[i + 1])
  <2>1. i \in 1 .. n - 1 /\ i + 1 \in 1 .. n - 1
    BY <1>2
  <2>2. p[i] = q[i] /\ p[i + 1] = q[i + 1]
    BY <1>2, <2>1
  <2> QED
    BY <1>3, <2>1, <2>2
<1>8. Chained(p)
  BY <1>2, <1>6, <1>7 DEF Chained, IsList
<1>9. p # << >> => n - 1 \in 1 .. n - 1 /\ (n - 1) + 1 = n /\ 1 \in 1 .. n - 1
  BY <1>2, <1>8, ChainedIs
<1>10. p # << >> => Waits(Last(p), Last(q))
  BY <1>2, <1>3, <1>4, <1>5, <1>9
<1>11. p # << >> => p[1] = q[1]
  BY <1>2, <1>9
<1>12. \A f : From(q, f) => From(p, f)
  BY <1>11 DEF From
<1> QED
  BY <1>2, <1>8, <1>10, <1>12 DEF p, n

LEMMA ChainedAppend ==
  ASSUME NEW q, Chained(q), NEW frame, IsActivation(frame),
         q # << >> => Waits(Last(q), frame)
  PROVE  /\ Chained(Append(q, frame))
         /\ Append(q, frame) # << >> /\ Last(Append(q, frame)) = frame
         /\ q # << >> => \A f : From(q, f) => From(Append(q, frame), f)
         /\ q = << >> => From(Append(q, frame), frame.file) \/ frame.want # Full
<1> DEFINE r == Append(q, frame)
           n == Len(q)
<1>1. IsList(q) /\ n \in Nat /\ (q # << >> => n # 0) /\ \A i \in 1 .. n : IsActivation(q[i])
  BY ChainedIs
<1>2. /\ IsList(r) /\ Len(r) = n + 1 /\ (\A i \in 1 .. n : r[i] = q[i]) /\ r[n + 1] = frame
      /\ r # << >> /\ Last(r) = frame
  BY <1>1, AppendIs
<1>3. \A i \in 1 .. n - 1 : Waits(q[i], q[i + 1])
  BY DEF Chained
<1>4. q # << >> => Waits(q[n], frame)
  BY DEF Last
<1>5. q = << >> => n = 0
  OBVIOUS
<1> HIDE DEF r, n
<1>6. ASSUME NEW i \in 1 .. Len(r)
      PROVE  IsActivation(r[i])
  <2>1. CASE i = n + 1
    BY <1>2, <2>1
  <2>2. CASE i # n + 1
    <3>1. i \in 1 .. n
      BY <1>1, <1>2, <2>2
    <3> QED
      BY <1>1, <1>2, <3>1
  <2> QED
    BY <2>1, <2>2
<1>7. ASSUME NEW i \in 1 .. Len(r) - 1
      PROVE  Waits(r[i], r[i + 1])
  <2>1. i \in 1 .. n
    BY <1>1, <1>2
  <2>2. r[i] = q[i]
    BY <1>2, <2>1
  <2>3. CASE i = n
    <3>1. q # << >> /\ r[i + 1] = frame
      BY <1>1, <1>2, <1>5, <2>1, <2>3
    <3> QED
      BY <1>4, <2>2, <2>3, <3>1
  <2>4. CASE i # n
    <3>1. i \in 1 .. n - 1 /\ i + 1 \in 1 .. n
      BY <1>1, <2>1, <2>4
    <3>2. r[i + 1] = q[i + 1]
      BY <1>2, <3>1
    <3> QED
      BY <1>3, <2>2, <3>1, <3>2
  <2> QED
    BY <2>3, <2>4
<1>8. Chained(r)
  BY <1>2, <1>6, <1>7 DEF Chained, IsList
<1>9. q # << >> => r[1] = q[1]
  BY <1>1, <1>2
<1>10. q = << >> => r[1] = frame
  BY <1>2, <1>5
<1>11. q # << >> => \A f : From(q, f) => From(r, f)
  BY <1>9 DEF From
<1>12. q = << >> => From(r, frame.file) \/ frame.want # Full
  BY <1>10 DEF From
<1> QED
  BY <1>2, <1>8, <1>11, <1>12 DEF r

LEMMA ChainedReplace ==
  ASSUME NEW q, Chained(q), q # << >>, NEW frame, IsActivation(frame), SameTask(frame, Last(q))
  PROVE  /\ Chained(Append(Front(q), frame))
         /\ Append(Front(q), frame) # << >> /\ Last(Append(Front(q), frame)) = frame
         /\ \A f : From(q, f) => From(Append(Front(q), frame), f)
<1> DEFINE p == Front(q)
           r == Append(p, frame)
<1>1. /\ Chained(p) /\ Len(p) = Len(q) - 1
      /\ p # << >> => Waits(Last(p), Last(q))
      /\ \A f : From(q, f) => From(p, f)
  BY ChainedFront
<1>2. Len(q) \in Nat /\ Len(q) # 0
  BY ChainedIs
<1> HIDE DEF p
<1>3. p # << >> => Waits(Last(p), frame)
  BY <1>1, WaitsSame
<1>4. /\ Chained(r) /\ r # << >> /\ Last(r) = frame
      /\ p # << >> => \A f : From(p, f) => From(r, f)
      /\ p = << >> => From(r, frame.file) \/ frame.want # Full
  BY <1>1, <1>3, ChainedAppend
<1> HIDE DEF r
<1>5. ASSUME NEW f, From(q, f)
      PROVE  From(r, f)
  <2>1. CASE p # << >>
    BY <1>1, <1>4, <1>5, <2>1
  <2>2. CASE p = << >>
    <3>1. Len(q) = 1
      BY <1>1, <1>2, <2>2
    <3>2. Last(q) = q[1]
      BY <3>1 DEF Last
    <3>3. frame.file = f /\ frame.want = Full
      BY <1>5, <3>2 DEF From, SameTask
    <3> QED
      BY <1>4, <2>2, <3>3
  <2> QED
    BY <2>1, <2>2
<1> QED
  BY <1>4, <1>5 DEF p, r

-----------------------------------------------------------------------------
(* Activations.                                                            *)

(* What is done to one leaves its task alone.                              *)
Keeps(frame, to) == IsActivation(to) /\ SameTask(to, frame)

LEMMA MissedIs ==
  ASSUME NEW frame, IsActivation(frame), NEW why
  PROVE  /\ Keeps(frame, Missed(frame, why)) /\ Missed(frame, why).gaps # {}
         /\ \A k \in Fields \ {"gaps"} : Missed(frame, why)[k] = frame[k]
<1> DEFINE m == Missed(frame, why)
<1>1. /\ DOMAIN m = Fields
      /\ \A k \in Fields \ {"gaps"} : m[k] = frame[k]
      /\ m.gaps = frame.gaps \cup {<<frame.file, why>>}
  BY DEF Missed, IsActivation, Fields
<1>2. m.file = frame.file /\ m.want = frame.want
  BY <1>1 DEF Fields
<1> HIDE DEF m
<1>3. Keeps(frame, m) /\ m.gaps # {}
  BY <1>1, <1>2 DEF Keeps, SameTask, IsActivation, IsOpen
<1> QED
  BY <1>1, <1>3 DEF m

LEMMA AdvanceIs ==
  ASSUME NEW frame, IsActivation(frame)
  PROVE  /\ Keeps(frame, Advance(frame))
         /\ Advance(frame).gaps = frame.gaps
         /\ Advance(frame).phase = frame.phase
         /\ Advance(frame).data = frame.data /\ Advance(frame).env = frame.env
         /\ Advance(frame).at = frame.at /\ Advance(frame).folded = frame.folded
         /\ IF frame.ref < Len(Entries(frame.file)[frame.entry])
            THEN /\ Advance(frame).ref = frame.ref + 1 /\ Advance(frame).entry = frame.entry
                 /\ Advance(frame).part = frame.part /\ Advance(frame).parts = frame.parts
            ELSE /\ Advance(frame).ref = 1 /\ Advance(frame).entry = frame.entry + 1
                 /\ Advance(frame).part = << >>
                 /\ Advance(frame).parts = IF frame.part = << >> THEN frame.parts
                                           ELSE Append(frame.parts, Folded(frame.part))
<1> DEFINE next == [frame EXCEPT !.ref = @ + 1]
           ps == IF frame.part = << >> THEN frame.parts ELSE Append(frame.parts, Folded(frame.part))
           over == [frame EXCEPT !.ref = 1, !.entry = @ + 1, !.part = << >>, !.parts = ps]
           a == Advance(frame)
<1>1. CASE frame.ref < Len(Entries(frame.file)[frame.entry])
  <2>1. a = next
    BY <1>1 DEF Advance
  <2>2. /\ DOMAIN next = Fields /\ next.file = frame.file /\ next.want = frame.want
        /\ next.gaps = frame.gaps /\ next.phase = frame.phase /\ next.data = frame.data
        /\ next.env = frame.env /\ next.at = frame.at /\ next.folded = frame.folded
        /\ next.ref = frame.ref + 1 /\ next.entry = frame.entry
        /\ next.part = frame.part /\ next.parts = frame.parts
    BY DEF IsActivation, Fields
  <2> HIDE DEF a, next
  <2>3. Keeps(frame, a)
    BY <2>1, <2>2 DEF Keeps, SameTask, IsActivation, IsOpen
  <2> QED
    BY <1>1, <2>1, <2>2, <2>3 DEF a
<1>2. CASE ~(frame.ref < Len(Entries(frame.file)[frame.entry]))
  <2>1. a = over
    BY <1>2, Zenon DEF Advance
  <2> HIDE DEF ps
  <2>2. /\ DOMAIN over = Fields /\ over.file = frame.file /\ over.want = frame.want
        /\ over.gaps = frame.gaps /\ over.phase = frame.phase /\ over.data = frame.data
        /\ over.env = frame.env /\ over.at = frame.at /\ over.folded = frame.folded
        /\ over.ref = 1 /\ over.entry = frame.entry + 1
        /\ over.part = << >> /\ over.parts = ps
    BY DEF IsActivation, Fields
  <2> HIDE DEF a, over
  <2>3. Keeps(frame, a)
    BY <2>1, <2>2 DEF Keeps, SameTask, IsActivation, IsOpen
  <2> QED
    BY <1>2, <2>1, <2>2, <2>3 DEF a, ps
<1> QED
  BY <1>1, <1>2

LEMMA DocumentsAppend ==
  ASSUME NEW A, NEW B, NEW q, Documents(q, A, B), NEW d, Says(d.data, A, B)
  PROVE  Documents(Append(q, d), A, B)
<1> DEFINE r == Append(q, d)
<1>1. IsList(q) /\ \A i \in 1 .. Len(q) : Says(q[i].data, A, B)
  BY DEF Documents, IsList
<1>2. /\ IsList(r) /\ Len(q) \in Nat /\ Len(r) = Len(q) + 1
      /\ \A i \in 1 .. Len(q) : r[i] = q[i]
      /\ r[Len(q) + 1] = d
  BY <1>1, AppendIs
<1> HIDE DEF r
<1>3. ASSUME NEW i \in 1 .. Len(r)
      PROVE  Says(r[i].data, A, B)
  <2>1. CASE i = Len(q) + 1
    BY <1>2, <2>1
  <2>2. CASE i # Len(q) + 1
    <3>1. i \in 1 .. Len(q)
      BY <1>2, <2>2
    <3> QED
      BY <1>1, <1>2, <3>1
  <2> QED
    BY <2>1, <2>2
<1>4. Documents(r, A, B)
  BY <1>2, <1>3 DEF Documents, IsList
<1> QED
  BY <1>4 DEF r

LEMMA DocumentsNone == \A A, B : Documents(<< >>, A, B)
<1>1. IsList(<< >>)
  <2>1. << >> \in Seq({})
    OBVIOUS
  <2> QED
    BY <2>1, ListIn
<1>2. Len(<< >>) = 0
  OBVIOUS
<1> QED
  BY <1>1, <1>2 DEF Documents, IsList

LEMMA FoldedSays ==
  ASSUME NEW A, NEW B, NEW q, Documents(q, A, B)
  PROVE  Says(Folded(q).data, A, B)
<1>1. CASE Len(q) = 1
  <2>1. 1 \in 1 .. Len(q)
    BY <1>1
  <2> QED
    BY <1>1, <2>1 DEF Folded, Documents
<1>2. CASE Len(q) # 1
  <2>1. Folded(q).data = MergeDocuments(q)
    BY <1>2 DEF Folded
  <2> QED
    BY <2>1, MergeDocumentsSays
<1> QED
  BY <1>1, <1>2

LEMMA EntriesAre ==
  ASSUME WrittenDocs, NEW f \in File, IsDocument(docs[f])
  PROVE  /\ Len(Entries(f)) \in Nat /\ DOMAIN Entries(f) = 1 .. Len(Entries(f))
         /\ \A i \in DOMAIN Entries(f) :
              /\ Len(Entries(f)[i]) \in Nat \ {0}
              /\ DOMAIN Entries(f)[i] = 1 .. Len(Entries(f)[i])
              /\ \A j \in DOMAIN Entries(f)[i] : Entries(f)[i][j] \in Included(f) \cap (File \cup {Away})
<1> DEFINE es == Entries(f)
           S == Seq(File \cup {Away}) \ {<< >>}
<1>1. es \in Seq(S)
  BY DEF WrittenDocs, IsWritten, Entries
<1> HIDE DEF es, S
<1>2. Len(es) \in Nat /\ DOMAIN es = 1 .. Len(es) /\ \A i \in DOMAIN es : es[i] \in S
  BY <1>1, LenProperties
<1>3. ASSUME NEW i \in DOMAIN es
      PROVE  /\ Len(es[i]) \in Nat \ {0} /\ DOMAIN es[i] = 1 .. Len(es[i])
             /\ \A j \in DOMAIN es[i] : es[i][j] \in File \cup {Away}
  <2>1. es[i] \in Seq(File \cup {Away}) /\ es[i] # << >>
    BY <1>2 DEF S
  <2> QED
    BY <2>1, LenProperties, EmptySeq
<1>4. \A i \in DOMAIN es : \A j \in DOMAIN es[i] : es[i][j] \in Included(f)
  BY DEF Included, es, ToSet
<1> QED
  BY <1>2, <1>3, <1>4 DEF es

(* On from a reference: one that was followed, or else a gap.              *)
LEMMA AdvanceReady ==
  ASSUME WrittenDocs, NEW frame, IsActivation(frame),
         frame.phase = "include", IncludePhase(frame), frame.entry <= Len(Entries(frame.file)),
         frame.gaps = {} => /\ Followed(Reference(frame), Full)
                            /\ \A p \in frame.folded : Followed(p[1], Full)
  PROVE  Ready(Advance(frame))
<1> DEFINE f == frame.file
           es == Entries(f)
           a == Advance(frame)
           n == frame.entry
           r == frame.ref
           A == MentionedBy(f)
           B == MappedBelow(f)
<1>1. /\ Keeps(frame, a) /\ a.phase = frame.phase /\ a.data = frame.data /\ a.env = frame.env
      /\ a.at = frame.at /\ a.folded = frame.folded /\ a.gaps = frame.gaps
      /\ IF r < Len(es[n])
         THEN a.ref = r + 1 /\ a.entry = n /\ a.part = frame.part /\ a.parts = frame.parts
         ELSE /\ a.ref = 1 /\ a.entry = n + 1 /\ a.part = << >>
              /\ a.parts = IF frame.part = << >> THEN frame.parts
                           ELSE Append(frame.parts, Folded(frame.part))
  BY AdvanceIs
<1>2. a.file = f
  BY <1>1 DEF Keeps, SameTask
<1>3. f \in File /\ IsDocument(docs[f])
  BY DEF IsActivation, IsOpen
<1>4. /\ Len(es) \in Nat /\ DOMAIN es = 1 .. Len(es)
      /\ \A i \in DOMAIN es : Len(es[i]) \in Nat \ {0} /\ DOMAIN es[i] = 1 .. Len(es[i])
  BY <1>3, EntriesAre
<1>5. /\ frame.data = Parsed(f, frame.env) /\ frame.at = {}
      /\ n \in Nat \ {0} /\ r \in Nat \ {0} /\ n <= Len(es) /\ r <= Len(es[n])
      /\ Documents(frame.part, A, B) /\ Documents(frame.parts, A, B)
  BY DEF IncludePhase
<1>6. frame.gaps = {} => \A i \in DOMAIN es : \A j \in DOMAIN es[i] :
        i < n \/ (i = n /\ j < r) => Followed(es[i][j], Full)
  BY DEF IncludePhase
<1>7. frame.gaps = {} => Followed(es[n][r], Full)
  BY DEF Reference
<1> HIDE DEF es, a, n, r, f, A, B
<1>8. CASE r < Len(es[n])
  <2>1. frame.gaps = {} => \A i \in DOMAIN es : \A j \in DOMAIN es[i] :
          i < n \/ (i = n /\ j < r + 1) => Followed(es[i][j], Full)
    BY <1>4, <1>5, <1>6, <1>7
  <2>2. n <= Len(es) => r + 1 <= Len(es[n])
    BY <1>4, <1>5, <1>8
  <2>3. a.ref = r + 1 /\ a.entry = n /\ a.part = frame.part /\ a.parts = frame.parts
    BY <1>1, <1>8
  <2>4. r + 1 \in Nat \ {0}
    BY <1>5
  <2>5. IncludePhase(a)
    BY <1>1, <1>2, <1>5, <2>1, <2>2, <2>3, <2>4 DEF IncludePhase, es, A, B
  <2> QED
    BY <1>1, <2>5 DEF Ready, a
<1>9. CASE ~(r < Len(es[n]))
  <2>1. r = Len(es[n]) /\ n \in DOMAIN es /\ n + 1 \in Nat \ {0} /\ 1 \in Nat \ {0}
    BY <1>4, <1>5, <1>9
  <2>2. ASSUME frame.gaps = {}, NEW i \in DOMAIN es, NEW j \in DOMAIN es[i], i < n + 1 \/ (i = n + 1 /\ j < 1)
        PROVE  Followed(es[i][j], Full)
    <3>1. i \in Nat /\ j \in Nat \ {0} /\ j <= Len(es[i])
      BY <1>4
    <3>2. i < n \/ i = n
      BY <1>5, <2>2, <3>1
    <3>3. CASE i < n
      BY <1>6, <2>2, <3>3
    <3>4. CASE i = n
      <4>1. j < r \/ j = r
        BY <1>5, <2>1, <3>1, <3>4
      <4> QED
        BY <1>6, <1>7, <2>2, <3>4, <4>1
    <3> QED
      BY <3>2, <3>3, <3>4
  <2>3. n + 1 <= Len(es) => 1 <= Len(es[n + 1])
    BY <1>4, <1>5
  <2>4. a.ref = 1 /\ a.entry = n + 1
    BY <1>1, <1>9
  <2>5. Documents(a.part, A, B)
    BY <1>1, <1>9, DocumentsNone
  <2>6. Documents(a.parts, A, B)
    <3>1. Documents(Append(frame.parts, Folded(frame.part)), A, B)
      BY <1>5, FoldedSays, DocumentsAppend
    <3> QED
      BY <1>1, <1>5, <1>9, <3>1
  <2>7. IncludePhase(a)
    BY <1>1, <1>2, <1>5, <2>1, <2>2, <2>3, <2>4, <2>5, <2>6 DEF IncludePhase, es, A, B
  <2> QED
    BY <1>1, <2>7 DEF Ready, a
<1> QED
  BY <1>8, <1>9

(* A gap changes nothing else of where an activation stands.               *)
LEMMA MissedPhase ==
  ASSUME NEW frame, IsActivation(frame), NEW why
  PROVE  /\ IncludePhase(frame) => IncludePhase(Missed(frame, why))
         /\ ExtendPhase(frame) => ExtendPhase(Missed(frame, why))
         /\ Missed(frame, why).phase = frame.phase
         /\ Missed(frame, why).entry = frame.entry /\ Missed(frame, why).at = frame.at
         /\ Missed(frame, why).todo = frame.todo /\ Missed(frame, why).file = frame.file
<1> DEFINE m == Missed(frame, why)
<1>1. m.gaps # {} /\ \A k \in Fields \ {"gaps"} : m[k] = frame[k]
  BY MissedIs
<1> HIDE DEF m
<1>2. /\ m.file = frame.file /\ m.want = frame.want /\ m.env = frame.env
      /\ m.data = frame.data /\ m.phase = frame.phase
      /\ m.entry = frame.entry /\ m.ref = frame.ref
      /\ m.part = frame.part /\ m.parts = frame.parts
      /\ m.skip = frame.skip /\ m.todo = frame.todo /\ m.at = frame.at
  BY <1>1 DEF Fields
<1>3. IncludePhase(frame) => IncludePhase(m)
  BY <1>1, <1>2 DEF IncludePhase
<1>4. \A W : Wanted(frame, W) => Wanted(m, W)
  BY <1>2 DEF Wanted
<1>5. ExtendPhase(frame) => ExtendPhase(m)
  BY <1>1, <1>2, <1>4 DEF ExtendPhase
<1> QED
  BY <1>2, <1>3, <1>5 DEF m

LEMMA PhaseIs ==
  ASSUME NEW frame
  PROVE  /\ Ready(frame) /\ frame.phase = "include" =>
              IncludePhase(frame) /\ (frame.gaps = {} => \A p \in frame.folded : Followed(p[1], Full))
         /\ Ready(frame) /\ frame.phase = "extends" => ExtendPhase(frame) /\ frame.at = {}
         /\ IncludePhase(frame) /\ frame.phase = "include" /\ frame.gaps # {} => Ready(frame)
BY DEF Ready

(* A new activation.                                                       *)
LEMMA FrameReady ==
  ASSUME WrittenDocs, NEW f \in File, IsDocument(docs[f]), NEW want \in Service \cup {Full},
         NEW env, NEW depth, NEW inc, NEW ext, NEW budget
  PROVE  /\ IsActivation(Frame(f, want, env, depth, inc, ext, budget))
         /\ Ready(Frame(f, want, env, depth, inc, ext, budget))
         /\ Frame(f, want, env, depth, inc, ext, budget).file = f
         /\ Frame(f, want, env, depth, inc, ext, budget).want = want
<1> DEFINE F == Frame(f, want, env, depth, inc, ext, budget)
<1>1. /\ DOMAIN F = Fields /\ F.file = f /\ F.want = want /\ F.env = env
      /\ F.data = Parsed(f, env) /\ F.phase = "include" /\ F.entry = 1 /\ F.ref = 1
      /\ F.folded = {} /\ F.part = << >> /\ F.parts = << >> /\ F.at = {}
  BY DEF Frame, Fields
<1> HIDE DEF F
<1>2. IsActivation(F)
  BY <1>1 DEF IsActivation, IsOpen
<1>3. /\ Len(Entries(f)) \in Nat /\ DOMAIN Entries(f) = 1 .. Len(Entries(f))
      /\ \A i \in DOMAIN Entries(f) :
           /\ Len(Entries(f)[i]) \in Nat \ {0} /\ DOMAIN Entries(f)[i] = 1 .. Len(Entries(f)[i])
  BY EntriesAre
<1>4. 1 <= Len(Entries(f)) => 1 <= Len(Entries(f)[1])
  BY <1>3
<1>5. \A i \in DOMAIN Entries(f) : \A j \in DOMAIN Entries(f)[i] : ~(i < 1 \/ (i = 1 /\ j < 1))
  BY <1>3
<1>6. IncludePhase(F)
  BY <1>1, <1>4, <1>5, DocumentsNone DEF IncludePhase
<1>7. Ready(F)
  BY <1>1, <1>6 DEF Ready
<1> QED
  BY <1>1, <1>2, <1>7 DEF F

-----------------------------------------------------------------------------
(* The three ways a step changes the stack.                                *)

Carried(q) ==
  /\ q # << >> /\ Chained(q) /\ Resting(q)
  /\ \A f : From(stack, f) => From(q, f)

LEMMA UpdateCarries ==
  ASSUME Chained(stack), stack # << >>,
         NEW frame, Keeps(Top, frame), Ready(frame), Update(frame)
  PROVE  Carried(stack')
<1> DEFINE q == Append(Front(stack), frame)
<1>1. /\ Chained(q) /\ q # << >> /\ Last(q) = frame
      /\ \A f : From(stack, f) => From(q, f)
  BY ChainedReplace DEF Keeps, Top
<1> HIDE DEF q
<1>2. Carried(q)
  BY <1>1 DEF Carried, Resting
<1> QED
  BY <1>2 DEF q, Update, Below

LEMMA CallCarries ==
  ASSUME Chained(stack), stack # << >>,
         NEW frame, Keeps(Top, frame), NEW callee, IsActivation(callee),
         Waits(frame, callee), Ready(callee), Call(frame, callee)
  PROVE  Carried(stack')
<1> DEFINE p == Append(Front(stack), frame)
           q == Append(p, callee)
<1>1. /\ Chained(p) /\ p # << >> /\ Last(p) = frame
      /\ \A f : From(stack, f) => From(p, f)
  BY ChainedReplace DEF Keeps, Top
<1> HIDE DEF p
<1>2. /\ Chained(q) /\ q # << >> /\ Last(q) = callee
      /\ \A f : From(p, f) => From(q, f)
  BY <1>1, ChainedAppend
<1> HIDE DEF q
<1>3. Carried(q)
  BY <1>1, <1>2 DEF Carried, Resting
<1> QED
  BY <1>3 DEF q, p, Call, Below

LEMMA CallerWaits ==
  ASSUME Chained(stack), stack # << >>, Len(stack) > 1
  PROVE  /\ Chained(Below) /\ Below # << >> /\ IsActivation(Caller) /\ Waits(Caller, Top)
         /\ \A f : From(stack, f) => From(Below, f)
<1>1. /\ Chained(Below) /\ Len(Below) = Len(stack) - 1
      /\ Below # << >> => Waits(Last(Below), Top)
      /\ \A f : From(stack, f) => From(Below, f)
  BY ChainedFront DEF Below, Top
<1>2. Len(stack) \in Nat
  BY ChainedIs
<1>3. Len(Below) # 0
  BY <1>1, <1>2
<1>4. Below # << >>
  BY <1>3
<1> QED
  BY <1>1, <1>4, ChainedIs DEF Caller

LEMMA ReturnCarries ==
  ASSUME Chained(stack), stack # << >>, Len(stack) > 1,
         NEW frame, Keeps(Caller, frame), Ready(frame), Return(frame)
  PROVE  Carried(stack')
<1> DEFINE q == Append(Front(Below), frame)
<1>1. Chained(Below) /\ Below # << >> /\ \A f : From(stack, f) => From(Below, f)
  BY CallerWaits
<1>2. /\ Chained(q) /\ q # << >> /\ Last(q) = frame
      /\ \A f : From(Below, f) => From(q, f)
  BY <1>1, ChainedReplace DEF Keeps, Caller
<1> HIDE DEF q
<1>3. Carried(q)
  BY <1>1, <1>2 DEF Carried, Resting
<1> QED
  BY <1>3 DEF q, Return

LEMMA TopReady ==
  ASSUME Chained(stack), Resting(stack), stack # << >>
  PROVE  IsActivation(Top) /\ Ready(Top)
BY ChainedIs DEF Resting, Top

-----------------------------------------------------------------------------
(* Includes.                                                               *)

LEMMA KeepsTwice ==
  ASSUME NEW a, NEW b, NEW c, Keeps(a, b), Keeps(b, c)
  PROVE  Keeps(a, c)
BY DEF Keeps, SameTask

(* On from a reference that was missed.                                    *)
LEMMA MissedAdvances ==
  ASSUME WrittenDocs, NEW frame, IsActivation(frame), frame.phase = "include",
         IncludePhase(frame), frame.entry <= Len(Entries(frame.file)), NEW why
  PROVE  Keeps(frame, Advance(Missed(frame, why))) /\ Ready(Advance(Missed(frame, why)))
<1> DEFINE m == Missed(frame, why)
<1>1. Keeps(frame, m) /\ m.gaps # {}
  BY MissedIs
<1>2. IncludePhase(m) /\ m.phase = "include" /\ m.entry <= Len(Entries(m.file))
  BY MissedPhase
<1> HIDE DEF m
<1>3. IsActivation(m)
  BY <1>1 DEF Keeps
<1>4. Ready(Advance(m))
  BY <1>1, <1>2, <1>3, AdvanceReady
<1>5. Keeps(m, Advance(m))
  BY <1>3, AdvanceIs
<1> QED
  BY <1>1, <1>4, <1>5, KeepsTwice DEF m

LEMMA BlankFollowed ==
  ASSUME NEW g \in File, docs[g] = Blank
  PROVE  Followed(g, Full)
<1> DEFINE n == Node(g, Full)
<1>1. n \in Nodes /\ n.file = g /\ n.svc = Full
  BY DEF Node, Nodes
<1> HIDE DEF n
<1>2. ~Usable(n) /\ Readable(n)
  BY <1>1 DEF Usable, Readable, IsDocument
<1>3. Sound(n)
  BY <1>1, <1>2 DEF Sound
<1>4. n \in Fine
  BY <1>1, <1>2, <1>3, FineAll
<1> QED
  BY <1>4 DEF n, Followed

(* An activation that has asked for the file it is at.                     *)
Asked(frame) == [frame EXCEPT !.folded = @ \cup {Identity(frame)}]

LEMMA AskedIs ==
  ASSUME NEW frame, IsActivation(frame), frame.phase = "include", IncludePhase(frame)
  PROVE  /\ Keeps(frame, Asked(frame)) /\ IncludePhase(Asked(frame))
         /\ Asked(frame).phase = "include"
         /\ Asked(frame).folded = frame.folded \cup {Identity(frame)}
         /\ Asked(frame).entry = frame.entry /\ Asked(frame).file = frame.file
         /\ Asked(frame).gaps = frame.gaps
         /\ Reference(Asked(frame)) = Reference(frame)
<1> DEFINE m == Asked(frame)
<1>1. /\ DOMAIN m = Fields /\ m.file = frame.file /\ m.want = frame.want /\ m.env = frame.env
      /\ m.data = frame.data /\ m.phase = frame.phase
      /\ m.entry = frame.entry /\ m.ref = frame.ref
      /\ m.part = frame.part /\ m.parts = frame.parts
      /\ m.at = frame.at /\ m.gaps = frame.gaps
      /\ m.folded = frame.folded \cup {Identity(frame)}
  BY DEF Asked, IsActivation, Fields
<1> HIDE DEF m
<1>2. IncludePhase(m)
  BY <1>1 DEF IncludePhase
<1>3. Keeps(frame, m)
  BY <1>1 DEF Keeps, SameTask, IsActivation, IsOpen
<1>4. Reference(m) = Reference(frame)
  BY <1>1 DEF Reference
<1> QED
  BY <1>1, <1>2, <1>3, <1>4 DEF m

(* What a reference brought is one more document of the entry.             *)
LEMMA ReceiveReady ==
  ASSUME WrittenDocs, NEW frame, IsActivation(frame), frame.phase = "include",
         IncludePhase(frame), frame.entry <= Len(Entries(frame.file)),
         frame.gaps = {} => /\ Followed(Reference(frame), Full)
                            /\ \A p \in frame.folded : Followed(p[1], Full),
         NEW document,
         Says(document.data, MentionedBy(frame.file), MappedBelow(frame.file))
  PROVE  Keeps(frame, Receive(frame, document)) /\ Ready(Receive(frame, document))
<1> DEFINE m == [frame EXCEPT !.part = Append(@, document)]
<1>1. /\ DOMAIN m = Fields /\ m.file = frame.file /\ m.want = frame.want /\ m.env = frame.env
      /\ m.data = frame.data /\ m.phase = frame.phase
      /\ m.entry = frame.entry /\ m.ref = frame.ref
      /\ m.part = Append(frame.part, document) /\ m.parts = frame.parts
      /\ m.at = frame.at /\ m.gaps = frame.gaps /\ m.folded = frame.folded
  BY DEF IsActivation, Fields
<1>2. Receive(frame, document) = Advance(m)
  BY DEF Receive
<1> HIDE DEF m
<1>3. Documents(m.part, MentionedBy(m.file), MappedBelow(m.file))
  BY <1>1, DocumentsAppend DEF IncludePhase
<1>4. IncludePhase(m)
  BY <1>1, <1>3 DEF IncludePhase
<1>5. Keeps(frame, m) /\ IsActivation(m)
  BY <1>1 DEF Keeps, SameTask, IsActivation, IsOpen
<1>6. Reference(m) = Reference(frame)
  BY <1>1 DEF Reference
<1>7. Ready(Advance(m))
  BY <1>1, <1>4, <1>5, <1>6, AdvanceReady
<1>8. Keeps(m, Advance(m))
  BY <1>5, AdvanceIs
<1> QED
  BY <1>2, <1>5, <1>7, <1>8, KeepsTwice

LEMMA IncludeCarries ==
  ASSUME WrittenDocs, Chained(stack), Resting(stack),
         IncludeRefused \/ IncludeAgain \/ IncludeOpen
  PROVE  Carried(stack')
<1>1. /\ stack # << >> /\ Top.phase = "include" /\ Top.entry <= Len(Entries(Top.file))
  BY DEF IncludeRefused, IncludeAgain, IncludeOpen, Including
<1>2. IsActivation(Top) /\ Ready(Top)
  BY <1>1, TopReady
<1>3. IncludePhase(Top) /\ (Top.gaps = {} => \A p \in Top.folded : Followed(p[1], Full))
  BY <1>1, <1>2, PhaseIs
<1>4. CASE IncludeRefused
  <2>1. PICK why : Update(Advance(Missed(Top, why)))
    BY <1>4 DEF IncludeRefused
  <2>2. Keeps(Top, Advance(Missed(Top, why))) /\ Ready(Advance(Missed(Top, why)))
    BY <1>1, <1>2, <1>3, MissedAdvances
  <2> QED
    BY <1>1, <2>1, <2>2, UpdateCarries
<1>5. CASE IncludeAgain
  <2>1. Update(Advance(Top)) /\ Identity(Top) \in Top.folded
    BY <1>5 DEF IncludeAgain
  <2>2. Identity(Top)[1] = Reference(Top)
    BY DEF Identity
  <2>3. Top.gaps = {} => Followed(Reference(Top), Full)
    BY <1>3, <2>1, <2>2
  <2>4. Ready(Advance(Top))
    BY <1>1, <1>2, <1>3, <2>3, AdvanceReady
  <2>5. Keeps(Top, Advance(Top))
    BY <1>2, AdvanceIs
  <2> QED
    BY <1>1, <2>1, <2>4, <2>5, UpdateCarries
<1>6. CASE IncludeOpen
  <2> DEFINE a == Asked(Top)
             g == Reference(Top)
             blank == [data |-> Nothing, tags |-> NoTags]
             callee(b) == IncludeFrame(Top, b)
  <2>1. /\ Keeps(Top, a) /\ IncludePhase(a) /\ a.phase = "include"
        /\ a.folded = Top.folded \cup {Identity(Top)} /\ Reference(a) = g
        /\ a.entry <= Len(Entries(a.file)) /\ a.gaps = Top.gaps
    BY <1>1, <1>2, <1>3, AskedIs
  <2>2. IsActivation(a)
    BY <2>1 DEF Keeps
  <2>3. g \in File
    BY <1>6 DEF IncludeOpen, Followable
  <2>4. Identity(Top)[1] = g
    BY DEF Identity
  <2>5. \/ \E why : Update(Advance(Missed(a, why)))
        \/ docs[g] = Blank /\ Update(Receive(a, blank))
        \/ \E b : IsDocument(docs[g]) /\ Call(a, callee(b))
    BY <1>6 DEF IncludeOpen, Asked
  <2> HIDE DEF a, g, callee
  <2>6. ASSUME NEW why, Update(Advance(Missed(a, why)))
        PROVE  Carried(stack')
    <3>1. Keeps(a, Advance(Missed(a, why))) /\ Ready(Advance(Missed(a, why)))
      BY <2>1, <2>2, MissedAdvances
    <3>2. Keeps(Top, Advance(Missed(a, why)))
      BY <2>1, <3>1, KeepsTwice
    <3> QED
      BY <1>1, <2>6, <3>1, <3>2, UpdateCarries
  <2>7. ASSUME docs[g] = Blank, Update(Receive(a, blank))
        PROVE  Carried(stack')
    <3>1. Followed(g, Full)
      BY <2>3, <2>7, BlankFollowed
    <3>2. a.gaps = {} => Followed(Reference(a), Full) /\ \A p \in a.folded : Followed(p[1], Full)
      BY <1>3, <2>1, <2>4, <3>1
    <3>3. Says(blank.data, MentionedBy(a.file), MappedBelow(a.file))
      BY NothingSays
    <3> HIDE DEF blank
    <3>4. Keeps(a, Receive(a, blank)) /\ Ready(Receive(a, blank))
      BY <2>1, <2>2, <3>2, <3>3, ReceiveReady
    <3>5. Keeps(Top, Receive(a, blank))
      BY <2>1, <3>4, KeepsTwice
    <3> QED
      BY <1>1, <2>7, <3>4, <3>5, UpdateCarries
  <2>8. ASSUME NEW b, IsDocument(docs[g]), Call(a, callee(b))
        PROVE  Carried(stack')
    <3>1. /\ IsActivation(callee(b)) /\ Ready(callee(b))
          /\ callee(b).file = g /\ callee(b).want = Full
      BY <2>3, <2>8, FrameReady DEF callee, IncludeFrame, g
    <3>2. a.gaps = {} => \A p \in a.folded : Followed(p[1], Full) \/ p[1] = callee(b).file
      BY <1>3, <2>1, <2>4, <3>1
    <3>3. Waits(a, callee(b))
      BY <2>1, <3>1, <3>2 DEF Waits
    <3> QED
      BY <1>1, <2>1, <2>8, <3>1, <3>3, CallCarries
  <2> QED
    BY <2>5, <2>6, <2>7, <2>8
<1> QED
  BY <1>4, <1>5, <1>6

-----------------------------------------------------------------------------
(* Past the includes.                                                      *)

(* A chain holds what its services inherit from.                           *)
LEMMA ChainIs ==
  ASSUME NEW data, NEW A, NEW B, Says(data, A, B), NEW from \in Service
  PROVE  /\ Chain(data, from) \in SUBSET Service
         /\ data[from] # NoService => from \in Chain(data, from)
         /\ \A s \in Chain(data, from) : \A t \in InFileTarget(data[s]) :
              data[t] # NoService => t \in Chain(data, from)
<1> DEFINE declared == {s \in Service : data[s] # NoService}
           Closed(S) == \A s \in S : InFileTarget(data[s]) \cap declared \subseteq S
           C == {t \in declared : \A S \in SUBSET declared :
                    {from} \cap declared \subseteq S /\ Closed(S) => t \in S}
<1>1. Chain(data, from) = C
  BY Zenon DEF Chain
<1>2. C \in SUBSET Service
  OBVIOUS
<1>3. data[from] # NoService => from \in C
  OBVIOUS
<1>4. ASSUME NEW s \in C, NEW t \in InFileTarget(data[s]), data[t] # NoService
      PROVE  t \in C
  <2>1. HasBody(data[s]) /\ data[s].ext.form # "none" /\ t = data[s].ext.svc
    BY <1>4 DEF InFileTarget
  <2>2. IsBody(data[s])
    BY <1>2, <1>4, <2>1, BodyIsSaid DEF Says, Said
  <2>3. data[s].ext \in Exts /\ data[s].ext # NoExt
    BY <2>1, <2>2 DEF IsBody, NoExt
  <2>4. t \in declared
    BY <1>4, <2>1, <2>3, ExtForms
  <2>5. t \in InFileTarget(data[s]) \cap declared
    BY <1>4, <2>4
  <2> HIDE DEF declared
  <2> QED
    BY <1>4, <2>4, <2>5
<1> HIDE DEF C
<1> QED
  BY <1>1, <1>2, <1>3, <1>4

LEMMA FoldCarries ==
  ASSUME WrittenDocs, ~Mixed, Chained(stack), Resting(stack), IncludesDone
  PROVE  Carried(stack')
<1> DEFINE f == Top.file
           D == IF Top.parts = << >> THEN Top.data ELSE Fold(Top)
           S == AlreadyResolved(Top) \cup Unwanted(D, Top.want)
           T == {s \in Service \ S : CrossFile(D[s])}
           F == [Top EXCEPT !.phase = "extends", !.data = D, !.skip = S, !.todo = T]
<1>1. stack # << >> /\ Top.phase = "include" /\ Top.entry > Len(Entries(f)) /\ Update(F)
  BY DEF IncludesDone, Including
<1>2. IsActivation(Top) /\ IncludePhase(Top)
  BY <1>1, TopReady, PhaseIs
<1>3. f \in File /\ IsDocument(docs[f]) /\ Top.want \in Service \cup {Full}
  BY <1>2 DEF IsActivation, IsOpen
<1>4. Top.data = Parsed(f, Top.env) /\ Documents(Top.parts, MentionedBy(f), MappedBelow(f))
  BY <1>2 DEF IncludePhase
<1>5. Folds(f, D)
  <2>1. Folds(f, Top.data)
    BY <1>3, <1>4, ParsedFolds
  <2>2. Folds(f, Fold(Top))
    BY <1>3, <1>4, FoldFolds
  <2> QED
    BY <2>1, <2>2
<1>6. \A s \in Service : OwnExt(f, s) # NoExt => s \notin AlreadyResolved(Top)
  <2> SUFFICES ASSUME NEW s \in Service, OwnExt(f, s) # NoExt
               PROVE  s \notin AlreadyResolved(Top)
    OBVIOUS
  <2>1. IsBody(Top.data[s]) /\ Top.data[s].ext = OwnExt(f, s)
    BY <1>3, <1>4, ParsedSays
  <2> QED
    BY <2>1, BodyIsSaid DEF AlreadyResolved
<1>7. \A s \in Service : OwnExt(f, s) # NoExt => IsBody(D[s]) /\ D[s].ext = OwnExt(f, s) /\ HasBody(D[s])
  BY <1>5, BodyIsSaid DEF Folds
<1>8. Says(D, MentionedBy(f), MappedBy(f))
  BY <1>5 DEF Folds
<1>9. \A g \in Included(f) : \E i \in DOMAIN Entries(f) : \E j \in DOMAIN Entries(f)[i] :
        g = Entries(f)[i][j] /\ i < Top.entry
  <2> SUFFICES ASSUME NEW g \in Included(f)
               PROVE  \E i \in DOMAIN Entries(f) : \E j \in DOMAIN Entries(f)[i] :
                        g = Entries(f)[i][j] /\ i < Top.entry
    OBVIOUS
  <2>1. PICK i \in DOMAIN Entries(f) : g \in ToSet(Entries(f)[i])
    BY DEF Included
  <2>2. \E j \in DOMAIN Entries(f)[i] : g = Entries(f)[i][j]
    BY <2>1 DEF ToSet
  <2>3. i <= Len(Entries(f)) /\ i \in Nat /\ Len(Entries(f)) \in Nat
    BY <1>3, <2>1, EntriesAre
  <2>4. Top.entry \in Nat
    BY <1>2 DEF IncludePhase
  <2>5. i < Top.entry
    BY <1>1, <2>3, <2>4
  <2> QED
    BY <2>1, <2>2, <2>5
<1>10. ASSUME Top.gaps = {}, NEW g \in Included(f)
       PROVE  Followed(g, Full)
  BY <1>2, <1>9, <1>10 DEF IncludePhase
<1>11. Top.at = {}
  BY <1>2 DEF IncludePhase
<1> HIDE DEF D
<1>12. /\ DOMAIN F = Fields /\ F.file = f /\ F.want = Top.want /\ F.gaps = Top.gaps
       /\ F.phase = "extends" /\ F.data = D /\ F.skip = S /\ F.todo = T /\ F.at = Top.at
  <2> HIDE DEF S, T
  <2> QED
    BY <1>2 DEF IsActivation, Fields
<1> HIDE DEF F
<1> DEFINE W == Service \ Unwanted(D, Top.want)
<1>13. Wanted(F, W)
  <2>1. CASE Top.want = Full
    <3>1. W = Service
      BY <2>1 DEF Unwanted
    <3>2. \A s \in Service : \A t \in InFileTarget(D[s]) : D[t] # NoService => t \in Service
      <4> SUFFICES ASSUME NEW s \in Service, NEW t \in InFileTarget(D[s])
                   PROVE  t \in Service
        OBVIOUS
      <4>1. HasBody(D[s]) /\ D[s].ext.form # "none" /\ t = D[s].ext.svc
        BY DEF InFileTarget
      <4>2. IsBody(D[s])
        BY <1>8, <4>1, BodyIsSaid DEF Says, Said, HasBody
      <4>3. D[s].ext \in Exts /\ D[s].ext # NoExt
        BY <4>1, <4>2 DEF IsBody, NoExt
      <4> QED
        BY <4>1, <4>3, ExtForms
    <3>3. \A s \in Service : OwnExt(f, s) # NoExt => s \notin S
      BY <1>6, <2>1 DEF Unwanted
    <3> HIDE DEF S, W
    <3> QED
      BY <1>12, <2>1, <3>1, <3>2, <3>3 DEF Wanted
  <2>2. CASE Top.want # Full
    <3>1. Top.want \in Service
      BY <1>3, <2>2
    <3>2. /\ Chain(D, Top.want) \in SUBSET Service
          /\ D[Top.want] # NoService => Top.want \in Chain(D, Top.want)
          /\ \A s \in Chain(D, Top.want) : \A t \in InFileTarget(D[s]) :
               D[t] # NoService => t \in Chain(D, Top.want)
      BY <1>8, <3>1, ChainIs
    <3>3. W = Chain(D, Top.want)
      BY <2>2, <3>2 DEF Unwanted
    <3>4. \A s \in W : OwnExt(f, s) # NoExt => s \notin S
      BY <1>6
    <3> HIDE DEF S, W
    <3> QED
      BY <1>12, <2>2, <3>2, <3>3, <3>4 DEF Wanted
  <2> QED
    BY <2>1, <2>2
<1>14. W \in SUBSET Service
  OBVIOUS
<1>15. \A s \in Service \ S : HasFile(OwnExt(f, s)) => s \in T
  <2> SUFFICES ASSUME NEW s \in Service \ S, HasFile(OwnExt(f, s))
               PROVE  CrossFile(D[s])
    OBVIOUS
  <2>1. OwnExt(f, s) # NoExt
    BY <1>3, ParsedSays, ExtForms
  <2> QED
    BY <1>7, <2>1 DEF CrossFile, HasFile
<1>16. T \subseteq {s \in Service : CrossFile(D[s])}
  OBVIOUS
<1> HIDE DEF S, T, W
<1>17. ExtendPhase(F)
  BY <1>5, <1>10, <1>12, <1>13, <1>14, <1>15, <1>16 DEF ExtendPhase
<1>18. Ready(F)
  BY <1>11, <1>12, <1>17 DEF Ready
<1>19. Keeps(Top, F)
  BY <1>3, <1>12 DEF Keeps, SameTask, IsActivation, IsOpen
<1>20. Update(F)
  BY <1>1 DEF F, T, S, D
<1> QED
  BY <1>1, <1>18, <1>19, <1>20, UpdateCarries

-----------------------------------------------------------------------------
(* Bases in other files.                                                   *)

LEMMA CrossFileIs ==
  ASSUME NEW frame, ExtendPhase(frame), NEW s \in Service, CrossFile(frame.data[s])
  PROVE  /\ IsBody(frame.data[s]) /\ HasFile(frame.data[s].ext) /\ frame.data[s].ext # NoExt
         /\ Base(frame, s)[1] \in File \cup {Away} /\ Base(frame, s)[2] \in Service
         /\ Base(frame, s) = <<frame.data[s].ext.file, frame.data[s].ext.svc>>
<1>1. HasBody(frame.data[s]) /\ HasFile(frame.data[s].ext)
  BY DEF CrossFile, HasFile
<1>2. IsSaid(frame.data[s])
  BY <1>1 DEF ExtendPhase, Folds, Says, Said, HasBody
<1>3. IsBody(frame.data[s])
  BY <1>1, <1>2, BodyIsSaid
<1>4. frame.data[s].ext \in Exts
  BY <1>3 DEF IsBody
<1> QED
  BY <1>1, <1>3, <1>4, ExtForms DEF Base

(* One service fewer to go, for which another activation may be called.    *)
LEMMA FewerToGo ==
  ASSUME NEW frame, IsActivation(frame), frame.phase = "extends", ExtendPhase(frame),
         NEW to, DOMAIN to = Fields, NEW s \in Service,
         \A k \in Fields \ {"gaps", "todo", "at"} : to[k] = frame[k],
         to.todo = frame.todo \ {s},
         to.gaps = {} => frame.gaps = {} /\ frame.todo \cup frame.at \subseteq to.todo \cup to.at
  PROVE  Keeps(frame, to) /\ to.phase = "extends" /\ to.data = frame.data /\ ExtendPhase(to)
<1>1. /\ to.file = frame.file /\ to.want = frame.want /\ to.data = frame.data
      /\ to.phase = frame.phase /\ to.skip = frame.skip
  BY DEF Fields
<1>2. \A W : Wanted(frame, W) => Wanted(to, W)
  BY <1>1 DEF Wanted
<1>3. \E W \in SUBSET Service : Wanted(to, W)
  BY <1>2 DEF ExtendPhase
<1>4. ExtendPhase(to)
  BY <1>1, <1>3 DEF ExtendPhase
<1>5. Keeps(frame, to)
  BY <1>1 DEF Keeps, SameTask, IsActivation, IsOpen
<1> QED
  BY <1>1, <1>4, <1>5

LEMMA ExtendCarries ==
  ASSUME WrittenDocs, Chained(stack), Resting(stack), ExtendRefused \/ ExtendOpen
  PROVE  Carried(stack')
<1>1. stack # << >> /\ Top.phase = "extends"
  BY DEF ExtendRefused, ExtendOpen, Extending
<1>2. IsActivation(Top) /\ Ready(Top) /\ ExtendPhase(Top) /\ Top.at = {}
  BY <1>1, TopReady, PhaseIs
<1>3. Top.todo \subseteq Service /\ \A s \in Top.todo : CrossFile(Top.data[s])
  BY <1>2 DEF ExtendPhase
<1>4. DOMAIN Top = Fields
  BY <1>2 DEF IsActivation
<1>5. CASE ExtendRefused
  <2>1. PICK s \in Top.todo : \E why : Update([Missed(Top, why) EXCEPT !.todo = @ \ {s}])
    BY <1>5 DEF ExtendRefused
  <2>2. PICK why : Update([Missed(Top, why) EXCEPT !.todo = @ \ {s}])
    BY <2>1
  <2> DEFINE m == Missed(Top, why)
             F == [m EXCEPT !.todo = @ \ {s}]
  <2>3. m.gaps # {} /\ IsActivation(m) /\ \A k \in Fields \ {"gaps"} : m[k] = Top[k]
    BY <1>2, MissedIs DEF Keeps
  <2> HIDE DEF m
  <2>4. /\ DOMAIN F = Fields /\ \A k \in Fields \ {"gaps", "todo", "at"} : F[k] = Top[k]
        /\ F.todo = Top.todo \ {s} /\ F.gaps # {} /\ F.at = Top.at
    BY <2>3 DEF IsActivation, Fields
  <2> HIDE DEF F
  <2>5. Keeps(Top, F) /\ F.phase = "extends" /\ ExtendPhase(F)
    BY <1>1, <1>2, <1>3, <2>1, <2>4, FewerToGo
  <2>6. Ready(F)
    BY <1>2, <2>4, <2>5 DEF Ready
  <2> QED
    BY <1>1, <2>2, <2>5, <2>6, UpdateCarries DEF F, m
<1>6. CASE ExtendOpen
  <2> DEFINE asked(s) == [Top EXCEPT !.todo = @ \ {s}]
             waiting(s) == [asked(s) EXCEPT !.at = {s}]
             callee(s, b) == BaseFrame(Top, Base(Top, s), b)
  <2>1. PICK s \in Top.todo :
          /\ Base(Top, s)[1] # Away
          /\ \/ \E why : Update(Missed(asked(s), why))
             \/ \E b : IsDocument(docs[Base(Top, s)[1]]) /\ Call(waiting(s), callee(s, b))
    BY <1>6 DEF ExtendOpen
  <2> DEFINE a == asked(s)
             w == waiting(s)
             B == Base(Top, s)
  <2>2. /\ s \in Service /\ B[1] \in File \cup {Away} /\ B[2] \in Service
        /\ B = <<Top.data[s].ext.file, Top.data[s].ext.svc>> /\ CrossFile(Top.data[s])
    BY <1>2, <1>3, CrossFileIs
  <2>3. CASE \E why : Update(Missed(a, why))
    <3>1. PICK why : Update(Missed(a, why))
      BY <2>3
    <3> DEFINE m == Missed(a, why)
    <3>2. DOMAIN a = Fields /\ a.file = Top.file /\ a.want = Top.want
      BY <1>4 DEF Fields
    <3>3. IsActivation(a)
      BY <1>2, <3>2 DEF IsActivation, IsOpen
    <3>4. /\ \A k \in Fields \ {"gaps", "todo", "at"} : a[k] = Top[k]
          /\ a.todo = Top.todo \ {s} /\ a.at = Top.at
      BY <1>4 DEF Fields
    <3> HIDE DEF a
    <3>5. m.gaps # {} /\ IsActivation(m) /\ \A k \in Fields \ {"gaps"} : m[k] = a[k]
      BY <3>3, MissedIs DEF Keeps
    <3> HIDE DEF m
    <3>6. /\ DOMAIN m = Fields /\ \A k \in Fields \ {"gaps", "todo", "at"} : m[k] = Top[k]
          /\ m.todo = Top.todo \ {s} /\ m.at = Top.at
      BY <3>4, <3>5 DEF IsActivation, Fields
    <3>7. Keeps(Top, m) /\ m.phase = "extends" /\ ExtendPhase(m)
      BY <1>1, <1>2, <2>2, <3>5, <3>6, FewerToGo
    <3>8. Ready(m)
      BY <1>2, <3>6, <3>7 DEF Ready
    <3> QED
      BY <1>1, <3>1, <3>7, <3>8, UpdateCarries DEF m
  <2>4. CASE \E b : IsDocument(docs[B[1]]) /\ Call(w, callee(s, b))
    <3>1. PICK b : IsDocument(docs[B[1]]) /\ Call(w, callee(s, b))
      BY <2>4
    <3> DEFINE c == callee(s, b)
    <3>2. /\ DOMAIN w = Fields /\ \A k \in Fields \ {"gaps", "todo", "at"} : w[k] = Top[k]
          /\ w.todo = Top.todo \ {s} /\ w.at = {s} /\ w.gaps = Top.gaps /\ w.data = Top.data
      BY <1>4 DEF Fields
    <3> HIDE DEF w
    <3>3. Keeps(Top, w) /\ w.phase = "extends" /\ w.data = Top.data /\ ExtendPhase(w)
      BY <1>1, <1>2, <2>2, <3>2, FewerToGo
    <3>4. B[1] \in File /\ B[2] \in Service \cup {Full} /\ B[2] # Full
      BY <2>1, <2>2, LoadAssumption
    <3> HIDE DEF B
    <3>5. IsActivation(c) /\ Ready(c) /\ c.file = B[1] /\ c.want = B[2]
      BY <3>1, <3>4, FrameReady DEF BaseFrame, B
    <3> HIDE DEF c
    <3>6. Base(w, s) = <<c.file, c.want>>
      BY <2>2, <3>2, <3>5 DEF Base, B
    <3>7. w.at = {s} /\ s \notin w.todo /\ CrossFile(w.data[s])
      BY <2>2, <3>2
    <3>8. Waits(w, c)
      BY <2>2, <3>3, <3>4, <3>5, <3>6, <3>7 DEF Waits
    <3> QED
      BY <1>1, <3>1, <3>3, <3>5, <3>8, CallCarries DEF c
  <2> QED
    BY <2>1, <2>3, <2>4
<1> QED
  BY <1>5, <1>6

-----------------------------------------------------------------------------
(* Returns.                                                                *)

(* What a finished activation answers, and what it means if it missed      *)
(* nothing.                                                                *)
LEMMA AnswerIs ==
  ASSUME WrittenDocs, Chained(stack), Resting(stack), Finished, NEW cut \in Cuts(Top)
  PROVE  /\ Says(Answer(Top, cut).data, MentionedBy(Top.file), MappedBy(Top.file))
         /\ Top.file \in File /\ IsDocument(docs[Top.file])
         /\ /\ Answer(Top, cut).gaps = {} /\ ~Vacuous(Top)
            /\ Top.want # Full => Answer(Top, cut).data[Top.want] # NoService
            => Followed(Top.file, Top.want)
<1>1. stack # << >> /\ Top.phase = "extends" /\ Top.todo = {}
  BY DEF Finished, Extending
<1>2. IsActivation(Top) /\ ExtendPhase(Top) /\ Top.at = {}
  BY <1>1, TopReady, PhaseIs
<1>3. Says(Top.data, MentionedBy(Top.file), MappedBy(Top.file))
  BY <1>2 DEF ExtendPhase, Folds
<1> DEFINE d == Inherited(Top, cut)
           g == Top.gaps \cup {<<Top.file, "cycle">> : s \in cut}
                         \cup {<<Top.file, "noservice">> : s \in {t \in Service : Undeclared(Top, t)}}
<1>4. Answer(Top, cut).data = d /\ Answer(Top, cut).gaps = g
  BY DEF Answer
<1>5. /\ Says(d, MentionedBy(Top.file), MappedBy(Top.file))
      /\ \A s \in Service : d[s] # NoService => Top.data[s] # NoService
  BY <1>3, InheritedSays
<1>6. IsOpen(Top)
  BY <1>2 DEF IsActivation
<1>7. ASSUME g = {}, ~Vacuous(Top), Top.want # Full => d[Top.want] # NoService
      PROVE  Followed(Top.file, Top.want)
  <2>1. Top.gaps = {}
    BY <1>7
  <2>2. cut = {}
    <3>1. \A s \in cut : <<Top.file, "cycle">> \in g
      OBVIOUS
    <3> QED
      BY <1>7, <3>1
  <2>3. \A s \in Service : ~Undeclared(Top, s)
    <3>1. \A s \in {t \in Service : Undeclared(Top, t)} : <<Top.file, "noservice">> \in g
      OBVIOUS
    <3> QED
      BY <1>7, <3>1
  <2>4. Top.want # Full => Top.data[Top.want] # NoService
    BY <1>5, <1>6, <1>7 DEF IsOpen
  <2>5. {} \in Cuts(Top)
    BY <2>2
  <2> QED
    BY <1>1, <1>2, <1>6, <1>7, <2>1, <2>3, <2>4, <2>5, FinishedIsFollowed
<1> HIDE DEF d, g
<1> QED
  BY <1>4, <1>5, <1>6, <1>7 DEF IsOpen

LEMMA ReturnIncludeCarries ==
  ASSUME WrittenDocs, Chained(stack), Resting(stack), ReturnInclude
  PROVE  Carried(stack')
<1> DEFINE C == Caller
           f == Caller.file
           g == Top.file
<1>1. stack # << >> /\ Len(stack) > 1 /\ Finished /\ Top.want = Full
  BY DEF ReturnInclude, Finished, Extending
<1>2. IsActivation(C) /\ Waits(C, Top)
  BY <1>1, CallerWaits
<1>3. /\ C.phase = "include" /\ IncludePhase(C) /\ C.entry <= Len(Entries(f)) /\ g = Reference(C)
      /\ C.gaps = {} => \A p \in C.folded : Followed(p[1], Full) \/ p[1] = g
  BY <1>1, <1>2 DEF Waits
<1>4. f \in File /\ IsDocument(docs[f])
  BY <1>2 DEF IsActivation, IsOpen
<1>5. PICK cut \in Cuts(Top) :
        Return(IF Vacuous(Top) THEN Advance(Missed(C, "unread"))
               ELSE Receive([C EXCEPT !.gaps = @ \cup Answer(Top, cut).gaps],
                            [data |-> Answer(Top, cut).data, tags |-> Answer(Top, cut).tags]))
  BY DEF ReturnInclude
<1> DEFINE answer == Answer(Top, cut)
           F == [C EXCEPT !.gaps = @ \cup answer.gaps]
           doc == [data |-> answer.data, tags |-> answer.tags]
<1>6. /\ Says(answer.data, MentionedBy(g), MappedBy(g)) /\ g \in File
      /\ answer.gaps = {} /\ ~Vacuous(Top) => Followed(g, Full)
  BY <1>1, AnswerIs
<1>7. g \in Included(f)
  <2>1. /\ C.entry \in Nat \ {0} /\ C.ref \in Nat \ {0} /\ C.ref <= Len(Entries(f)[C.entry])
    BY <1>3 DEF IncludePhase
  <2>2. C.entry \in DOMAIN Entries(f)
    BY <1>3, <1>4, <2>1, EntriesAre
  <2>3. C.ref \in DOMAIN Entries(f)[C.entry]
    BY <1>4, <2>1, <2>2, EntriesAre
  <2> QED
    BY <1>3, <1>4, <2>2, <2>3, EntriesAre DEF Reference
<1>8. CASE Vacuous(Top)
  <2>1. Keeps(C, Advance(Missed(C, "unread"))) /\ Ready(Advance(Missed(C, "unread")))
    BY <1>2, <1>3, MissedAdvances
  <2>2. Return(Advance(Missed(C, "unread")))
    BY <1>5, <1>8
  <2> QED
    BY <1>1, <2>1, <2>2, ReturnCarries
<1>9. CASE ~Vacuous(Top)
  <2>1. Return(Receive(F, doc))
    BY <1>5, <1>9
  <2>2. /\ DOMAIN F = Fields /\ \A k \in Fields \ {"gaps"} : F[k] = C[k]
        /\ F.gaps = C.gaps \cup answer.gaps
    BY <1>2 DEF IsActivation, Fields
  <2>3. doc.data = answer.data
    OBVIOUS
  <2> HIDE DEF F, C, answer, doc
  <2>4. /\ F.file = C.file /\ F.want = C.want /\ F.env = C.env
        /\ F.data = C.data /\ F.phase = C.phase /\ F.entry = C.entry /\ F.ref = C.ref
        /\ F.part = C.part /\ F.parts = C.parts /\ F.at = C.at /\ F.folded = C.folded
    BY <2>2 DEF Fields
  <2>5. F.gaps = {} => C.gaps = {} /\ answer.gaps = {}
    BY <2>2
  <2>6. IncludePhase(F)
    BY <1>3, <2>4, <2>5 DEF IncludePhase
  <2>7. Keeps(C, F) /\ IsActivation(F)
    BY <1>2, <2>2, <2>4 DEF Keeps, SameTask, IsActivation, IsOpen
  <2>8. Reference(F) = g
    BY <1>3, <2>4 DEF Reference
  <2>9. F.gaps = {} => Followed(Reference(F), Full) /\ \A p \in F.folded : Followed(p[1], Full)
    BY <1>3, <1>6, <1>9, <2>4, <2>5, <2>8
  <2>10. Says(doc.data, MentionedBy(F.file), MappedBelow(F.file))
    <3>1. MentionedBy(g) \subseteq MentionedBy(f) /\ MappedBy(g) \subseteq MappedBelow(f)
      BY <1>4, <1>6, <1>7, ProjectSays
    <3>2. Says(answer.data, MentionedBy(f), MappedBelow(f))
      BY <1>6, <3>1, SaysMore
    <3> QED
      BY <2>3, <2>4, <3>2 DEF C
  <2>11. F.phase = "include" /\ F.entry <= Len(Entries(F.file))
    BY <1>3, <2>4 DEF C
  <2>12. Keeps(F, Receive(F, doc)) /\ Ready(Receive(F, doc))
    BY <2>6, <2>7, <2>9, <2>10, <2>11, ReceiveReady
  <2>13. Keeps(C, Receive(F, doc))
    BY <2>7, <2>12, KeepsTwice
  <2> QED
    BY <1>1, <2>1, <2>12, <2>13, ReturnCarries DEF C
<1> QED
  BY <1>8, <1>9

(* A base is in: its service goes under the one that waited, which still   *)
(* names what it named.                                                    *)
LEMMA InheritReady ==
  ASSUME WrittenDocs, NEW frame, IsActivation(frame), NEW callee, Waits(frame, callee), callee.want # Full,
         callee.want \in Service,
         NEW base, NEW A, NEW B, Says(base.data, A, B),
         base.gaps = {} /\ base.data[callee.want] # NoService => Followed(callee.file, callee.want)
  PROVE  /\ Keeps(frame, Inherit(frame, callee.want, base))
         /\ Ready(Inherit(frame, callee.want, base))
<1> DEFINE f == frame.file
           want == callee.want
           done == [frame EXCEPT !.at = {}]
           I == Inherit(frame, want, base)
<1>1. frame.phase = "extends" /\ ExtendPhase(frame)
  BY DEF Waits
<1>2. PICK s \in Service : /\ frame.at = {s} /\ s \notin frame.todo /\ CrossFile(frame.data[s])
                           /\ Base(frame, s) = <<callee.file, callee.want>>
  BY DEF Waits
<1>3. (CHOOSE t \in frame.at : TRUE) = s
  BY <1>2
<1>4. /\ IsBody(frame.data[s]) /\ HasFile(frame.data[s].ext) /\ frame.data[s].ext # NoExt
      /\ frame.data[s].ext.file = callee.file /\ frame.data[s].ext.svc = want
  <2>1. /\ IsBody(frame.data[s]) /\ HasFile(frame.data[s].ext) /\ frame.data[s].ext # NoExt
        /\ Base(frame, s) = <<frame.data[s].ext.file, frame.data[s].ext.svc>>
    BY <1>1, <1>2, CrossFileIs
  <2>2. Base(frame, s)[1] = frame.data[s].ext.file /\ Base(frame, s)[2] = frame.data[s].ext.svc
    BY <2>1
  <2>3. Base(frame, s)[1] = callee.file /\ Base(frame, s)[2] = want
    BY <1>2
  <2> QED
    BY <2>1, <2>2, <2>3
<1>5. DOMAIN frame = Fields /\ IsOpen(frame)
  BY DEF IsActivation
<1>6. /\ DOMAIN done = Fields /\ \A k \in Fields \ {"at"} : done[k] = frame[k]
      /\ done.at = {}
  BY <1>5 DEF Fields
<1>7. CASE base.data[want] = NoService
  <2> DEFINE m == Missed(done, "nobase")
  <2>1. I = m
    BY <1>7 DEF Inherit
  <2> HIDE DEF done
  <2>2. done.file = frame.file /\ done.want = frame.want
    BY <1>6 DEF Fields
  <2>3. IsActivation(done)
    BY <1>5, <1>6, <2>2 DEF IsActivation, IsOpen
  <2>4. m.gaps # {} /\ IsActivation(m) /\ \A k \in Fields \ {"gaps"} : m[k] = done[k]
    BY <2>3, MissedIs DEF Keeps
  <2> HIDE DEF m
  <2>5. /\ m.file = frame.file /\ m.want = frame.want /\ m.data = frame.data
        /\ m.phase = frame.phase /\ m.skip = frame.skip /\ m.todo = frame.todo /\ m.at = {}
    BY <1>6, <2>4 DEF Fields
  <2>6. \A W : Wanted(frame, W) => Wanted(m, W)
    BY <2>5 DEF Wanted
  <2>7. ExtendPhase(m)
    BY <1>1, <2>4, <2>5, <2>6 DEF ExtendPhase
  <2>8. Keeps(frame, m) /\ Ready(m)
    BY <1>1, <2>4, <2>5, <2>7 DEF Keeps, SameTask, Ready
  <2> QED
    BY <2>1, <2>8
<1>8. CASE base.data[want] # NoService
  <2> DEFINE tags == Tags(frame.file)
             b == MergeService(base.data[want], frame.data[s], tags[s])
             D == MergeServiceFrom(base.data, want, frame.data, s, tags)
             m == [done EXCEPT !.gaps = @ \cup base.gaps, !.data = D]
  <2>1. I = m
    BY <1>3, <1>6, <1>8 DEF Inherit, Fields
  <2>2. Says(frame.data, MentionedBy(f), MappedBy(f))
    BY <1>1 DEF ExtendPhase, Folds
  <2>3. /\ frame.data = [t \in Service |-> frame.data[t]]
        /\ \A t \in Service : frame.data[t] # NoService => t \in MentionedBy(f) /\ Said(frame.data[t], t, MappedBy(f))
    BY <2>2 DEF Says
  <2>4. D = [t \in Service |-> D[t]] /\ D[s] = b /\ \A t \in Service \ {s} : D[t] = frame.data[t]
    BY <2>3 DEF MergeServiceFrom
  <2>5. IsSaid(base.data[want])
    BY <1>8 DEF Says, Said
  <2>6. IsBody(b) /\ b.ext = frame.data[s].ext
    BY <1>4, <2>5, MergeUnder
  <2>7. frame.data[s] # NoService /\ HasBody(frame.data[s])
    BY <1>4, BodyIsSaid
  <2>8. b # NoService /\ HasBody(b) /\ IsSaid(b)
    BY <2>6, BodyIsSaid DEF IsSaid
  <2>9. s \in MentionedBy(f) /\ (IsMapping(frame.data[s].ext) => s \in MappedBy(f))
    BY <2>3, <2>7 DEF Said
  <2>10. Said(b, s, MappedBy(f))
    BY <2>6, <2>8, <2>9 DEF Said
  <2>11. /\ m.data = D /\ m.gaps = frame.gaps \cup base.gaps /\ DOMAIN m = Fields
         /\ \A k \in Fields \ {"at", "gaps", "data"} : m[k] = frame[k]
         /\ m.at = {}
    <3> HIDE DEF D, done
    <3> QED
      BY <1>6 DEF Fields
  <2> HIDE DEF D, b, m, I
  <2>12. Says(D, MentionedBy(f), MappedBy(f))
    <3>1. \A t \in Service : D[t] # NoService => t \in MentionedBy(f) /\ Said(D[t], t, MappedBy(f))
      BY <2>3, <2>4, <2>9, <2>10
    <3> QED
      BY <2>4, <3>1 DEF Says
  <2>13. \A t \in Service : OwnExt(f, t) # NoExt => IsBody(D[t]) /\ D[t].ext = OwnExt(f, t)
    BY <1>1, <2>4, <2>6 DEF ExtendPhase, Folds
  <2>14. Folds(f, D)
    BY <2>12, <2>13 DEF Folds
  <2>15. /\ m.file = frame.file /\ m.want = frame.want /\ m.phase = frame.phase
         /\ m.skip = frame.skip /\ m.todo = frame.todo
    BY <2>11 DEF Fields
  <2>16. \A t \in Service : /\ InFileTarget(D[t]) = InFileTarget(frame.data[t])
                            /\ D[t] = NoService <=> frame.data[t] = NoService
    <3>1. InFileTarget(D[s]) = {} /\ InFileTarget(frame.data[s]) = {}
      BY <1>4, <2>4, <2>6 DEF InFileTarget, HasFile
    <3> QED
      BY <2>4, <2>7, <2>8, <3>1
  <2>17. ASSUME NEW W \in SUBSET Service, Wanted(frame, W)
         PROVE  Wanted(m, W)
    <3>1. \A x \in W : \A t \in InFileTarget(D[x]) : D[t] # NoService => t \in W
      <4> SUFFICES ASSUME NEW x \in W, NEW t \in InFileTarget(D[x]), D[t] # NoService
                   PROVE  t \in W
        OBVIOUS
      <4>1. t \in InFileTarget(frame.data[x])
        BY <2>16
      <4>2. HasBody(frame.data[x]) /\ frame.data[x].ext.form # "none" /\ t = frame.data[x].ext.svc
        BY <4>1 DEF InFileTarget
      <4>3. IsBody(frame.data[x])
        BY <2>3, <4>2, BodyIsSaid DEF Said, HasBody
      <4>4. frame.data[x].ext \in Exts /\ frame.data[x].ext # NoExt
        BY <4>2, <4>3 DEF IsBody, NoExt
      <4>5. t \in Service
        BY <4>2, <4>4, ExtForms
      <4>6. frame.data[t] # NoService
        BY <2>16, <4>5
      <4> QED
        BY <2>17, <4>1, <4>6 DEF Wanted
    <3>2. m.want # Full => (D[m.want] # NoService => m.want \in W)
      <4>1. m.want # Full => m.want \in Service
        BY <1>5, <2>15 DEF IsOpen
      <4>2. m.want # Full => (D[m.want] # NoService => frame.data[m.want] # NoService)
        BY <2>16, <4>1
      <4> QED
        BY <2>15, <2>17, <4>2 DEF Wanted
    <3>3. m.want = Full => W = Service
      BY <2>15, <2>17 DEF Wanted
    <3>4. \A x \in W : OwnExt(m.file, x) # NoExt => x \notin m.skip
      BY <2>15, <2>17 DEF Wanted
    <3> QED
      BY <2>11, <3>1, <3>2, <3>3, <3>4 DEF Wanted
  <2>18. \E W \in SUBSET Service : Wanted(m, W)
    BY <1>1, <2>17 DEF ExtendPhase
  <2>19. ASSUME m.gaps = {}, NEW t \in Service \ m.skip, HasFile(OwnExt(f, t))
         PROVE  t \in m.todo \cup m.at \/ Followed(OwnExt(f, t).file, OwnExt(f, t).svc)
    <3>1. frame.gaps = {} /\ base.gaps = {}
      BY <2>11, <2>19
    <3>2. t \in frame.todo \cup frame.at \/ Followed(OwnExt(f, t).file, OwnExt(f, t).svc)
      BY <1>1, <2>15, <2>19, <3>1 DEF ExtendPhase
    <3>3. CASE t = s
      <4>1. OwnExt(f, t) # NoExt
        BY <2>19 DEF HasFile, NoExt
      <4>2. frame.data[s].ext = OwnExt(f, t)
        BY <1>1, <3>3, <4>1 DEF ExtendPhase, Folds
      <4>3. Followed(callee.file, want)
        BY <1>8, <3>1
      <4> QED
        BY <1>4, <4>2, <4>3
    <3>4. CASE t # s
      BY <1>2, <2>15, <3>2, <3>4
    <3> QED
      BY <3>3, <3>4
  <2>20. m.todo \subseteq {t \in Service : CrossFile(D[t])}
    BY <1>1, <1>2, <2>4, <2>15 DEF ExtendPhase
  <2>21. m.gaps = {} => \A g \in Included(f) : Followed(g, Full)
    BY <1>1, <2>11 DEF ExtendPhase
  <2>22. ExtendPhase(m)
    BY <2>11, <2>14, <2>15, <2>18, <2>19, <2>20, <2>21 DEF ExtendPhase
  <2>23. Keeps(frame, m)
    BY <1>5, <2>11, <2>15 DEF Keeps, SameTask, IsActivation, IsOpen
  <2>24. Ready(m)
    <3>1. m.at = {}
      BY <2>11
    <3>2. m.phase = "extends"
      BY <1>1, <2>15, Zenon
    <3> QED
      BY <2>22, <3>1, <3>2 DEF Ready
  <2> QED
    BY <2>1, <2>23, <2>24 DEF I
<1> QED
  BY <1>7, <1>8

LEMMA ReturnBaseCarries ==
  ASSUME WrittenDocs, Chained(stack), Resting(stack), ReturnBase
  PROVE  Carried(stack')
<1> DEFINE C == Caller
<1>1. stack # << >> /\ Len(stack) > 1 /\ Finished /\ Top.want # Full
  BY DEF ReturnBase, Finished, Extending
<1>2. IsActivation(C) /\ Waits(C, Top)
  BY <1>1, CallerWaits
<1>3. Top.want \in Service
  BY <1>1, TopReady DEF IsActivation, IsOpen
<1>4. PICK cut \in Cuts(Top) :
        Return(IF Vacuous(Top) THEN [Missed(C, "unread") EXCEPT !.at = {}]
               ELSE Inherit(C, Top.want, Answer(Top, cut)))
  BY DEF ReturnBase
<1> HIDE DEF C
<1>5. CASE Vacuous(Top)
  <2> DEFINE m == Missed(C, "unread")
             F == [m EXCEPT !.at = {}]
  <2>1. m.gaps # {} /\ IsActivation(m) /\ \A k \in Fields \ {"gaps"} : m[k] = C[k]
    BY <1>2, MissedIs DEF Keeps
  <2>2. C.phase = "extends" /\ ExtendPhase(C)
    BY <1>1, <1>2 DEF Waits
  <2> HIDE DEF m
  <2>3. /\ DOMAIN F = Fields /\ F.file = C.file /\ F.want = C.want /\ F.data = C.data
        /\ F.phase = C.phase /\ F.skip = C.skip /\ F.todo = C.todo /\ F.at = {} /\ F.gaps # {}
    BY <2>1 DEF IsActivation, Fields
  <2> HIDE DEF F
  <2>4. \A W : Wanted(C, W) => Wanted(F, W)
    BY <2>3 DEF Wanted
  <2>5. ExtendPhase(F)
    BY <2>2, <2>3, <2>4 DEF ExtendPhase
  <2>6. Keeps(C, F)
    BY <1>2, <2>3 DEF Keeps, SameTask, IsActivation, IsOpen
  <2>7. Ready(F)
    BY <2>2, <2>3, <2>5 DEF Ready
  <2>8. Return(F)
    BY <1>4, <1>5 DEF F, m
  <2> QED
    BY <1>1, <2>6, <2>7, <2>8, ReturnCarries DEF C
<1>6. CASE ~Vacuous(Top)
  <2> DEFINE answer == Answer(Top, cut)
  <2>1. /\ Says(answer.data, MentionedBy(Top.file), MappedBy(Top.file))
        /\ answer.gaps = {} /\ answer.data[Top.want] # NoService => Followed(Top.file, Top.want)
    BY <1>1, <1>6, AnswerIs
  <2>2. Return(Inherit(C, Top.want, answer))
    BY <1>4, <1>6
  <2> HIDE DEF answer
  <2>3. Keeps(C, Inherit(C, Top.want, answer)) /\ Ready(Inherit(C, Top.want, answer))
    BY <1>1, <1>2, <1>3, <2>1, InheritReady
  <2> QED
    BY <1>1, <2>2, <2>3, ReturnCarries DEF C
<1> QED
  BY <1>5, <1>6

-----------------------------------------------------------------------------
(* The walk.                                                               *)

(* The files are what they were given as, and the paths some of them.      *)
FilesInv == WrittenDocs /\ paths \in Seq(File)

(* Every path before the one being loaded was followed to the end, unless  *)
(* a gap was reported.                                                     *)
PathsInv ==
  /\ path \in Nat \ {0}
  /\ gaps = {} => \A p \in 1 .. path - 1 : p <= Len(paths) => Followed(paths[p], Full)
  /\ status = "loaded" => path > Len(paths)

(* The root of the stack loads that path, in full.                         *)
RootInv == stack # << >> => From(stack, paths[path]) /\ status = "loading"

LoadInv == FilesInv /\ (~Mixed => Chained(stack) /\ Resting(stack) /\ RootInv /\ PathsInv)

LEMMA LoadInit == Init => LoadInv
<1> SUFFICES ASSUME Init PROVE LoadInv
  OBVIOUS
<1>1. PICK in \in Inputs : paths = in.paths /\ docs = in.docs
  BY DEF Init
<1>2. FilesInv
  BY <1>1, LoadAssumption DEF FilesInv, WrittenDocs
<1>3. stack = << >> /\ path = 1 /\ gaps = {} /\ status = "loading"
  BY DEF Init
<1>4. Chained(<< >>)
  <2>1. << >> \in Seq({<< >>[i] : i \in DOMAIN << >>}) /\ Len(<< >>) = 0
    OBVIOUS
  <2> QED
    BY <2>1 DEF Chained
<1>5. Chained(stack) /\ Resting(stack) /\ RootInv
  BY <1>3, <1>4 DEF Resting, RootInv
<1>6. PathsInv
  BY <1>3 DEF PathsInv
<1> QED
  BY <1>2, <1>5, <1>6 DEF LoadInv

LEMMA CarriedOn ==
  ASSUME docs' = docs, supplied' = supplied, paths' = paths, path' = path, gaps' = gaps,
         status' = status, status = "loading",
         RootInv, PathsInv, stack # << >>, Carried(stack')
  PROVE  Chained(stack)' /\ Resting(stack)' /\ RootInv' /\ PathsInv'
<1>1. Chained(stack') /\ Resting(stack') /\ From(stack', paths[path])
  BY DEF Carried, RootInv
<1>2. Chained(stack)' /\ Resting(stack)'
  BY <1>1, StackKept
<1>3. RootInv'
  BY <1>1 DEF RootInv, From
<1>4. PathsInv'
  BY FineKept DEF PathsInv
<1> QED
  BY <1>2, <1>3, <1>4

LEMMA PathCarries ==
  ASSUME LoadInv, ~Mixed, OpenPath \/ OpenBlank \/ OpenRefused \/ Conclude
  PROVE  Chained(stack)' /\ Resting(stack)' /\ RootInv' /\ PathsInv'
<1>1. /\ WrittenDocs /\ paths \in Seq(File) /\ Len(paths) \in Nat
      /\ Chained(stack) /\ Resting(stack) /\ RootInv /\ PathsInv
  BY LenProperties DEF LoadInv, FilesInv
<1>2. docs' = docs /\ supplied' = supplied /\ paths' = paths /\ stack = << >>
  BY DEF OpenPath, OpenBlank, OpenRefused, Conclude
<1>3. path \in Nat \ {0}
  BY <1>1 DEF PathsInv
<1>4. CASE OpenPath
  <2> DEFINE env == <<ProjectDir>>
             F == Frame(paths[path], Full, env, 0, {}, {}, 0)
  <2>1. /\ stack' = <<F>> /\ path' = path /\ gaps' = gaps /\ status' = status
        /\ status = "loading" /\ path <= Len(paths) /\ IsDocument(docs[paths[path]])
    BY <1>4 DEF OpenPath, Acceptable
  <2>2. paths[path] \in File
    BY <1>1, <1>3, <2>1
  <2>3. IsActivation(F) /\ Ready(F) /\ F.file = paths[path] /\ F.want = Full
    <3> DEFINE g == paths[path]
               none == {}
    <3>1. WrittenDocs /\ g \in File /\ IsDocument(docs[g]) /\ Full \in Service \cup {Full}
      BY <1>1, <2>1, <2>2
    <3> HIDE DEF env, g, none
    <3>2. LET R == Frame(g, Full, env, 0, none, none, 0)
          IN  IsActivation(R) /\ Ready(R) /\ R.file = g /\ R.want = Full
      BY <3>1, FrameReady
    <3> QED
      BY <3>2 DEF g, none
  <2> HIDE DEF F
  <2> DEFINE q == Append(stack, F)
  <2>4. Chained(q) /\ q # << >> /\ Last(q) = F
    BY <1>1, <1>2, <2>3, ChainedAppend
  <2>5. From(q, paths[path])
    BY <1>1, <1>2, <2>3, ChainedAppend
  <2>6. stack' = q
    BY <1>2, <2>1
  <2> HIDE DEF q
  <2>7. Chained(stack') /\ Resting(stack')
    BY <2>3, <2>4, <2>6 DEF Resting
  <2>8. Chained(stack)' /\ Resting(stack)'
    BY <1>2, <2>7, StackKept
  <2>9. RootInv'
    BY <1>2, <2>1, <2>5, <2>6 DEF RootInv, From
  <2>10. PathsInv'
    BY <1>1, <1>2, <2>1, FineKept DEF PathsInv
  <2> QED
    BY <2>8, <2>9, <2>10
<1>5. CASE ~OpenPath
  <2>1. stack' = stack
    BY <1>5 DEF OpenBlank, OpenRefused, Conclude
  <2>2. Chained(stack)' /\ Resting(stack)'
    BY <1>1, <1>2, <2>1, StackKept
  <2>3. RootInv'
    BY <1>2, <2>1 DEF RootInv
  <2>4. CASE OpenBlank
    <3>1. /\ docs[paths[path]] = Blank /\ path' = path + 1 /\ gaps' = gaps /\ path <= Len(paths)
          /\ status' = status /\ status = "loading"
      BY <2>4 DEF OpenBlank
    <3>2. paths[path] \in File
      BY <1>1, <1>3, <3>1
    <3>3. Followed(paths[path], Full)
      BY <3>1, <3>2, BlankFollowed
    <3>4. \A p \in 1 .. path' - 1 : p = path \/ p \in 1 .. path - 1
      BY <1>3, <3>1
    <3>5. gaps' = {} => \A p \in 1 .. path' - 1 : p <= Len(paths') => Followed(paths'[p], Full)
      BY <1>1, <1>2, <3>1, <3>3, <3>4 DEF PathsInv
    <3>6. path' \in Nat \ {0} /\ status' # "loaded"
      BY <1>3, <3>1
    <3>7. PathsInv'
      BY <1>2, <3>5, <3>6, FineKept DEF PathsInv
    <3> QED
      BY <2>2, <2>3, <3>7
  <2>5. CASE OpenRefused
    <3>1. path' = path /\ gaps' = gaps /\ status' \in {"skipped", "refused"}
      BY <2>5 DEF OpenRefused
    <3>2. status' # "loaded"
      BY <3>1
    <3>3. PathsInv'
      BY <1>1, <1>2, <3>1, <3>2, FineKept DEF PathsInv
    <3> QED
      BY <2>2, <2>3, <3>3
  <2>6. CASE Conclude
    <3>1. path' = path /\ gaps' = gaps /\ path > Len(paths)
      BY <2>6 DEF Conclude
    <3>2. PathsInv'
      BY <1>1, <1>2, <3>1, FineKept DEF PathsInv
    <3> QED
      BY <2>2, <2>3, <3>2
  <2> QED
    BY <1>5, <2>4, <2>5, <2>6
<1> QED
  BY <1>4, <1>5

LEMMA ReturnPathCarries ==
  ASSUME LoadInv, ~Mixed, ReturnPath
  PROVE  Chained(stack)' /\ Resting(stack)' /\ RootInv' /\ PathsInv'
<1>1. /\ WrittenDocs /\ paths \in Seq(File) /\ Len(paths) \in Nat
      /\ Chained(stack) /\ Resting(stack) /\ RootInv /\ PathsInv
  BY LenProperties DEF LoadInv, FilesInv
<1>2. docs' = docs /\ supplied' = supplied /\ paths' = paths /\ stack' = << >>
  BY DEF ReturnPath
<1>3. Chained(stack)' /\ Resting(stack)' /\ RootInv'
  <2>1. << >> \in Seq({<< >>[i] : i \in DOMAIN << >>}) /\ Len(<< >>) = 0
    OBVIOUS
  <2>2. Chained(<< >>) /\ Resting(<< >>)
    BY <2>1 DEF Chained, Resting
  <2>3. Chained(stack') /\ Resting(stack')
    BY <1>2, <2>2
  <2>4. Chained(stack)' /\ Resting(stack)'
    BY <1>2, <2>3, StackKept
  <2> QED
    BY <1>2, <2>4 DEF RootInv
<1>4. /\ Finished /\ Len(stack) = 1 /\ stack # << >> /\ status = "loading"
  BY DEF ReturnPath, Finished, Extending
<1>5. Top = stack[1] /\ Top.file = paths[path] /\ Top.want = Full
  BY <1>1, <1>4 DEF Top, Last, RootInv, From
<1>6. path \in Nat \ {0}
  BY <1>1 DEF PathsInv
<1>7. CASE Vacuous(Top)
  <2>1. status' = "refused" /\ path' = path /\ gaps' = gaps
    BY <1>7 DEF ReturnPath
  <2>2. status' # "loaded"
    BY <2>1
  <2>3. PathsInv'
    BY <1>1, <1>2, <2>1, <2>2, FineKept DEF PathsInv
  <2> QED
    BY <1>3, <2>3
<1>8. CASE ~Vacuous(Top)
  <2>1. /\ path' = path + 1 /\ status' = status
        /\ \E cut \in Cuts(Top) : gaps' = gaps \cup Answer(Top, cut).gaps
    BY <1>8 DEF ReturnPath
  <2>2. PICK cut \in Cuts(Top) : gaps' = gaps \cup Answer(Top, cut).gaps
    BY <2>1
  <2>3. Answer(Top, cut).gaps = {} => Followed(paths[path], Full)
    BY <1>1, <1>4, <1>5, <1>8, AnswerIs
  <2>4. gaps' = {} => gaps = {} /\ Followed(paths[path], Full)
    BY <2>2, <2>3
  <2>5. \A p \in 1 .. path' - 1 : p = path \/ p \in 1 .. path - 1
    BY <1>6, <2>1
  <2>6. gaps' = {} => \A p \in 1 .. path' - 1 : p <= Len(paths') => Followed(paths'[p], Full)
    BY <1>1, <1>2, <2>4, <2>5 DEF PathsInv
  <2>7. path' \in Nat \ {0} /\ status' # "loaded"
    BY <1>4, <1>6, <2>1
  <2>8. PathsInv'
    BY <1>2, <2>6, <2>7, FineKept DEF PathsInv
  <2> QED
    BY <1>3, <2>8
<1> QED
  BY <1>7, <1>8

LEMMA LoadStep == LoadInv /\ [Next]_vars => LoadInv'
<1> SUFFICES ASSUME LoadInv, [Next]_vars PROVE LoadInv'
  OBVIOUS
<1>1. docs' = docs /\ supplied' = supplied /\ paths' = paths
  BY DEF Next, vars, OpenPath, OpenBlank, OpenRefused, Conclude, IncludeRefused, IncludeAgain,
         IncludeOpen, IncludesDone, ExtendRefused, ExtendOpen, ReturnInclude, ReturnBase, ReturnPath
<1>2. FilesInv'
  BY <1>1 DEF LoadInv, FilesInv, WrittenDocs
<1>3. Mixed' = Mixed
  BY <1>1, FineKept
<1>4. SUFFICES ASSUME ~Mixed
               PROVE  Chained(stack)' /\ Resting(stack)' /\ RootInv' /\ PathsInv'
  BY <1>2, <1>3 DEF LoadInv
<1>5. WrittenDocs /\ Chained(stack) /\ Resting(stack) /\ RootInv /\ PathsInv
  BY <1>4 DEF LoadInv, FilesInv
<1>6. CASE OpenPath \/ OpenBlank \/ OpenRefused \/ Conclude
  BY <1>4, <1>6, PathCarries
<1>7. CASE ReturnPath
  BY <1>4, <1>7, ReturnPathCarries
<1>8. CASE \/ IncludeRefused \/ IncludeAgain \/ IncludeOpen \/ IncludesDone
           \/ ExtendRefused \/ ExtendOpen \/ ReturnInclude \/ ReturnBase
  <2>1. /\ path' = path /\ gaps' = gaps /\ status' = status /\ status = "loading" /\ stack # << >>
    BY <1>8 DEF IncludeRefused, IncludeAgain, IncludeOpen, IncludesDone, ExtendRefused, ExtendOpen,
                ReturnInclude, ReturnBase, Finished, Including, Extending
  <2>2. Carried(stack')
    BY <1>4, <1>5, <1>8, IncludeCarries, FoldCarries, ExtendCarries, ReturnIncludeCarries,
       ReturnBaseCarries
  <2> QED
    BY <1>1, <1>5, <2>1, <2>2, CarriedOn
<1>9. CASE UNCHANGED vars
  <2>1. UNCHANGED <<stack, path, gaps, status>>
    BY <1>9 DEF vars
  <2>2. Chained(stack)' /\ Resting(stack)'
    BY <1>1, <1>5, <2>1, StackKept
  <2>3. RootInv'
    BY <1>1, <1>5, <2>1 DEF RootInv, From
  <2>4. PathsInv'
    BY <1>1, <1>5, <2>1, FineKept DEF PathsInv
  <2> QED
    BY <2>2, <2>3, <2>4
<1> QED
  BY <1>6, <1>7, <1>8, <1>9 DEF Next

LEMMA LoadImplies == LoadInv => NothingMissedQuietly
<1> SUFFICES ASSUME LoadInv, status = "loaded", gaps = {}, ~Mixed
             PROVE  Complete
  BY DEF NothingMissedQuietly
<1>1. WrittenDocs /\ paths \in Seq(File) /\ PathsInv
  BY DEF LoadInv, FilesInv
<1>2. path > Len(paths) /\ path \in Nat /\ Len(paths) \in Nat
  BY <1>1 DEF PathsInv
<1>3. ASSUME NEW i \in DOMAIN paths
      PROVE  Node(paths[i], Full) \in Fine
  <2>1. i \in 1 .. Len(paths)
    BY <1>1
  <2>2. i \in 1 .. path - 1 /\ i <= Len(paths)
    BY <1>2, <2>1
  <2> QED
    BY <1>1, <2>2 DEF PathsInv, Followed
<1>4. Roots \subseteq Fine
  BY <1>3 DEF Roots
<1> QED
  BY <1>1, <1>4, LoadAssumption, FineIsComplete

(* A load that reports no gap followed every reference the configuration   *)
(* needs, and each led somewhere: whatever the files say, and whichever    *)
(* order the services are taken in.                                        *)
THEOREM NothingEverMissedQuietly == Spec => []NothingMissedQuietly
<1>1. Init => LoadInv
  BY LoadInit
<1>2. LoadInv /\ [Next]_vars => LoadInv'
  BY LoadStep
<1>3. LoadInv => NothingMissedQuietly
  BY LoadImplies
<1> QED
  BY <1>1, <1>2, <1>3, PTL DEF Spec

-----------------------------------------------------------------------------
(* Conversely: a configuration that is complete has fine roots.            *)

(* What is reached is closed: were something still missing after as many   *)
(* rounds as there are nodes, each round would have added one.             *)
LEMMA ReachedIsClosed ==
  ASSUME WrittenDocs, IsFiniteSet(File), IsFiniteSet(Service),
         Roots \in SUBSET Nodes, Roots # {}
  PROVE  /\ Reached \in SUBSET Nodes /\ Roots \subseteq Reached
         /\ After(Reached) \subseteq Reached
<1> DEFINE body(f, k) == IF k = 0 THEN Roots ELSE LET S == f[k - 1] IN S \cup After(S)
           step == [q \in Nat \X SUBSET Nodes |-> q[2] \cup After(q[2])]
           reach == CHOOSE f : f = [k \in Nat |-> body(f, k)]
<1>1. ASSUME NEW S \in SUBSET Nodes
      PROVE  After(S) \in SUBSET Nodes
  BY NeedsAreNodes DEF After
<1>2. Steps(step, SUBSET Nodes)
  BY <1>1 DEF Steps
<1>4. \A k \in Nat : \A S \in SUBSET Nodes : step[<<k, S>>] = S \cup After(S)
  OBVIOUS
<1> HIDE DEF step
<1>5. PICK f : Unfolds(f, SUBSET Nodes, Roots, step)
  BY <1>2, RecursionOnNat
<1>6. ASSUME NEW k \in Nat
      PROVE  f[k] = body(f, k)
  <2>1. CASE k = 0
    BY <1>5, <2>1 DEF Unfolds
  <2>2. CASE k # 0
    <3>1. k - 1 \in Nat /\ (k - 1) + 1 = k
      BY <2>2
    <3>2. f[k - 1] \in SUBSET Nodes /\ f[(k - 1) + 1] = step[<<k - 1, f[k - 1]>>]
      BY <1>5, <3>1 DEF Unfolds
    <3> QED
      BY <1>4, <2>2, <3>1, <3>2
  <2> QED
    BY <2>1, <2>2
<1>7. f = [k \in Nat |-> body(f, k)]
  BY <1>5, <1>6 DEF Unfolds
<1> HIDE DEF body
<1>8. reach = [k \in Nat |-> body(reach, k)]
  BY <1>7, Zenon
<1>9. Reached = reach[NodeCount]
  BY Zenon DEF Reached, body, reach
<1> HIDE DEF reach
<1>10. \A k \in Nat : reach[k] = body(reach, k)
  BY <1>8
<1>11. /\ NodeCount \in Nat /\ IsFiniteSet(Nodes)
       /\ \A S \in SUBSET Nodes : Cardinality(S) \in Nat /\ Cardinality(S) <= NodeCount
  BY NodesCounted
<1> DEFINE T == {k \in Nat :
             /\ reach[k] \in SUBSET Nodes /\ Roots \subseteq reach[k]
             /\ After(reach[k]) \subseteq reach[k] \/ Cardinality(reach[k]) >= k + 1}
<1>12. 0 \in T
  <2>1. reach[0] = Roots
    BY <1>10 DEF body
  <2>2. IsFiniteSet(Roots) /\ Cardinality(Roots) \in Nat
    BY <1>11, FS_Subset
  <2>3. Cardinality(Roots) # 0
    BY <2>2, FS_EmptySet
  <2>4. Cardinality(Roots) >= 0 + 1
    BY <2>2, <2>3
  <2> QED
    BY <2>1, <2>4
<1>13. ASSUME NEW k \in Nat, k \in T
       PROVE  k + 1 \in T
  <2> DEFINE S == reach[k]
             U == S \cup After(S)
  <2>1. k + 1 # 0 /\ (k + 1) - 1 = k /\ k + 1 \in Nat
    OBVIOUS
  <2>2. reach[k + 1] = U
    <3>1. reach[k + 1] = body(reach, k + 1)
      BY <1>10, <2>1
    <3> QED
      BY <2>1, <3>1 DEF body
  <2>3. S \in SUBSET Nodes /\ Roots \subseteq S
    BY <1>13
  <2>4. After(S) \in SUBSET Nodes
    BY <1>1, <2>3
  <2>5. U \in SUBSET Nodes /\ Roots \subseteq U
    BY <2>3, <2>4
  <2>6. CASE After(S) \subseteq S
    <3>1. U = S
      BY <2>6
    <3>2. After(U) \subseteq U
      BY <2>6, <3>1
    <3> QED
      BY <2>1, <2>2, <2>5, <3>2
  <2>7. CASE ~(After(S) \subseteq S)
    <3>1. Cardinality(S) >= k + 1
      BY <1>13, <2>7
    <3>2. S \subseteq U /\ S # U
      BY <2>7
    <3> HIDE DEF S, U
    <3>3. IsFiniteSet(U)
      BY <1>11, <2>5, FS_Subset
    <3>4. Cardinality(S) <= Cardinality(U) /\ Cardinality(S) # Cardinality(U)
      BY <3>2, <3>3, FS_Subset
    <3>5. Cardinality(S) \in Nat /\ Cardinality(U) \in Nat
      BY <1>11, <2>3, <2>5
    <3>6. Cardinality(U) >= (k + 1) + 1
      BY <3>1, <3>4, <3>5
    <3> QED
      BY <2>1, <2>2, <2>5, <3>6
  <2> QED
    BY <2>6, <2>7
<1> HIDE DEF T
<1>14. Nat \subseteq T
  BY <1>12, <1>13, InductionOnNat
<1> DEFINE R == reach[NodeCount]
<1>15. /\ R \in SUBSET Nodes /\ Roots \subseteq R
       /\ After(R) \subseteq R \/ Cardinality(R) >= NodeCount + 1
  BY <1>11, <1>14 DEF T
<1> HIDE DEF R
<1>16. Cardinality(R) \in Nat /\ Cardinality(R) <= NodeCount
  BY <1>11, <1>15
<1>17. After(R) \subseteq R
  BY <1>11, <1>15, <1>16
<1> QED
  BY <1>9, <1>15, <1>17 DEF R

(* What is peeled off a closed set of sound nodes is fine.                 *)
LEMMA AcyclicIsFine ==
  ASSUME NEW R \in SUBSET Nodes, After(R) \subseteq R, \A n \in R : Sound(n),
         NodeCount \in Nat, Acyclic(R)
  PROVE  R \subseteq Fine
<1> DEFINE kept(S) == {n \in S : Usable(n) /\ Needs(n) \cap S # {}}
           body(f, k) == IF k = 0 THEN R ELSE LET rest == f[k - 1] IN kept(rest)
           step == [q \in Nat \X SUBSET R |-> kept(q[2])]
           peel == CHOOSE f : f = [k \in Nat |-> body(f, k)]
<1>1. ASSUME NEW S \in SUBSET R
      PROVE  kept(S) \in SUBSET R
  OBVIOUS
<1>2. Steps(step, SUBSET R)
  BY <1>1 DEF Steps
<1>3. \A k \in Nat : \A S \in SUBSET R : step[<<k, S>>] = kept(S)
  OBVIOUS
<1> HIDE DEF step
<1>4. PICK f : Unfolds(f, SUBSET R, R, step)
  BY <1>2, RecursionOnNat
<1>5. ASSUME NEW k \in Nat
      PROVE  f[k] = body(f, k)
  <2>1. CASE k = 0
    BY <1>4, <2>1 DEF Unfolds
  <2>2. CASE k # 0
    <3>1. k - 1 \in Nat /\ (k - 1) + 1 = k
      BY <2>2
    <3>2. f[k - 1] \in SUBSET R /\ f[(k - 1) + 1] = step[<<k - 1, f[k - 1]>>]
      BY <1>4, <3>1 DEF Unfolds
    <3> QED
      BY <1>3, <2>2, <3>1, <3>2
  <2> QED
    BY <2>1, <2>2
<1>6. f = [k \in Nat |-> body(f, k)]
  BY <1>4, <1>5 DEF Unfolds
<1> HIDE DEF body
<1>7. peel = [k \in Nat |-> body(peel, k)]
  BY <1>6, Zenon
<1>8. Acyclic(R) <=> peel[NodeCount] = {}
  BY Zenon DEF Acyclic, body, peel, kept
<1> HIDE DEF peel
<1>9. \A k \in Nat : peel[k] = body(peel, k)
  BY <1>7
<1>10. \A n \in R : Usable(n) => Needs(n) \subseteq R
  BY DEF After
<1> DEFINE T == {k \in Nat : peel[k] \in SUBSET R /\ R \ peel[k] \subseteq Fine}
<1>11. 0 \in T
  BY <1>9 DEF body
<1>12. ASSUME NEW k \in Nat, k \in T
       PROVE  k + 1 \in T
  <2> DEFINE S == peel[k]
  <2>1. k + 1 # 0 /\ (k + 1) - 1 = k /\ k + 1 \in Nat
    OBVIOUS
  <2>2. peel[k + 1] = kept(S)
    <3> HIDE DEF kept
    <3>1. peel[k + 1] = body(peel, k + 1)
      BY <1>9, <2>1
    <3> QED
      BY <2>1, <3>1 DEF body
  <2>3. S \in SUBSET R /\ R \ S \subseteq Fine
    BY <1>12
  <2> HIDE DEF S
  <2>4. ASSUME NEW n \in R, n \notin kept(S)
        PROVE  n \in Fine
    <3>1. CASE n \notin S
      BY <2>3, <3>1
    <3>2. CASE n \in S
      <4>1. Usable(n) => Needs(n) \cap S = {}
        BY <2>4, <3>2
      <4>2. Usable(n) => Needs(n) \subseteq Fine
        BY <1>10, <2>3, <4>1
      <4>3. n \in Nodes /\ Sound(n)
        OBVIOUS
      <4> QED
        BY <4>2, <4>3, FineAll
    <3> QED
      BY <3>1, <3>2
  <2>5. kept(S) \in SUBSET R /\ R \ kept(S) \subseteq Fine
    BY <1>1, <2>3, <2>4
  <2> HIDE DEF kept
  <2> QED
    BY <2>1, <2>2, <2>5
<1> HIDE DEF T
<1>13. Nat \subseteq T
  BY <1>11, <1>12, InductionOnNat
<1>14. R \ peel[NodeCount] \subseteq Fine
  BY <1>13 DEF T
<1> QED
  BY <1>8, <1>14

LEMMA CompleteIsFine ==
  ASSUME FilesInv, paths # << >>, Complete
  PROVE  Roots \subseteq Fine
<1>1. IsFiniteSet(File) /\ IsFiniteSet(Service)
  BY LoadAssumption
<1>2. WrittenDocs /\ paths \in Seq(File)
  BY DEF FilesInv
<1>3. \A i \in DOMAIN paths : paths[i] \in File
  BY <1>2
<1>4. Roots \in SUBSET Nodes
  BY <1>3 DEF Roots, Node, Nodes
<1>5. 1 \in DOMAIN paths
  BY <1>2, EmptySeq, LenProperties DEF FilesInv
<1>6. Roots # {}
  BY <1>5 DEF Roots
<1>7. Reached \in SUBSET Nodes /\ Roots \subseteq Reached /\ After(Reached) \subseteq Reached
  BY <1>1, <1>2, <1>4, <1>6, ReachedIsClosed
<1>8. \A n \in Reached : Sound(n)
  BY DEF Complete, Sound
<1>9. Acyclic(Reached)
  BY DEF Complete
<1>10. NodeCount \in Nat
  BY <1>1, NodesCounted
<1> QED
  BY <1>7, <1>8, <1>9, <1>10, AcyclicIsFine

-----------------------------------------------------------------------------
(* What lies under a node: all that following its references leads to.     *)

Onward(S) == \A x \in S : Usable(x) => Needs(x) \subseteq S

Under(n) == {m \in Nodes : \A S \in SUBSET Nodes : Onward(S) /\ Needs(n) \subseteq S => m \in S}

Above(n, k) == n = k \/ (Usable(n) /\ k \in Under(n))

LEMMA UnderIs ==
  ASSUME WrittenDocs, NEW n \in Nodes, Usable(n)
  PROVE  Needs(n) \subseteq Under(n) /\ Onward(Under(n)) /\ Under(n) \in SUBSET Nodes
<1>1. Needs(n) \in SUBSET Nodes
  BY NeedsAreNodes
<1>2. ASSUME NEW x \in Under(n), Usable(x)
      PROVE  Needs(x) \subseteq Under(n)
  <2>1. x \in Nodes /\ Needs(x) \in SUBSET Nodes
    BY <1>2, NeedsAreNodes DEF Under
  <2> SUFFICES ASSUME NEW m \in Needs(x), NEW S \in SUBSET Nodes, Onward(S), Needs(n) \subseteq S
               PROVE  m \in S
    BY <2>1 DEF Under
  <2>2. x \in S
    BY <1>2 DEF Under
  <2> QED
    BY <1>2, <2>2 DEF Onward
<1> QED
  BY <1>1, <1>2 DEF Under, Onward

LEMMA UnderLeast ==
  ASSUME NEW n, NEW S \in SUBSET Nodes, Onward(S), Needs(n) \subseteq S
  PROVE  Under(n) \subseteq S
BY DEF Under

LEMMA UnderUnder ==
  ASSUME WrittenDocs, NEW n \in Nodes, Usable(n), NEW k \in Under(n), Usable(k)
  PROVE  Under(k) \subseteq Under(n)
<1>1. Under(n) \in SUBSET Nodes /\ Onward(Under(n))
  BY UnderIs
<1>2. Needs(k) \subseteq Under(n)
  BY <1>1 DEF Onward
<1> QED
  BY <1>1, <1>2, UnderLeast

LEMMA FineUnder ==
  ASSUME NEW n \in Fine, Usable(n)
  PROVE  Under(n) \subseteq Fine
<1>1. Fine \in SUBSET Nodes /\ Onward(Fine)
  BY FineSound DEF Onward
<1>2. Needs(n) \subseteq Fine
  BY FineSound
<1> QED
  BY <1>1, <1>2, UnderLeast

(* No chain from a fine node returns to it.                                *)
LEMMA FineNotUnder ==
  ASSUME WrittenDocs, NEW n \in Fine, Usable(n)
  PROVE  n \notin Under(n)
<1> DEFINE X == {x \in Fine : Usable(x) /\ x \in Under(x)}
<1>1. Fine \in SUBSET Nodes
  BY FineSound
<1>2. ASSUME NEW x \in X
      PROVE  Needs(x) \cap X # {}
  <2>1. x \in Fine /\ x \in Nodes /\ Usable(x) /\ x \in Under(x) /\ Needs(x) \subseteq Fine
    BY <1>1, FineSound
  <2> DEFINE Y == {y \in Needs(x) : Usable(y)}
             S == Needs(x) \cup UNION {Under(y) : y \in Y}
  <2>2. \A y \in Y : /\ Needs(y) \subseteq Under(y) /\ Onward(Under(y)) /\ Under(y) \in SUBSET Nodes
                     /\ Under(y) \subseteq S
    BY <1>1, <2>1, UnderIs
  <2>3. S \in SUBSET Nodes
    BY <1>1, <2>1, <2>2
  <2>4. ASSUME NEW z \in S, Usable(z)
        PROVE  Needs(z) \subseteq S
    <3>1. CASE z \in Needs(x)
      BY <2>2, <2>4, <3>1
    <3>2. CASE z \notin Needs(x)
      <4>1. PICK y \in Y : z \in Under(y)
        BY <3>2
      <4>2. Needs(z) \subseteq Under(y)
        BY <2>2, <2>4, <4>1 DEF Onward
      <4> QED
        BY <2>2, <4>2
    <3> QED
      BY <3>1, <3>2
  <2>5. Onward(S)
    BY <2>4 DEF Onward
  <2>6. Needs(x) \subseteq S
    OBVIOUS
  <2> HIDE DEF S
  <2>7. x \in S
    BY <2>1, <2>3, <2>5, <2>6, UnderLeast
  <2>8. CASE x \in Needs(x)
    BY <2>8
  <2>9. CASE x \notin Needs(x)
    <3>1. PICK y \in Y : x \in Under(y)
      BY <2>7, <2>9 DEF S
    <3>2. y \in Nodes /\ y \in Needs(x) /\ y \in Fine /\ Usable(y)
      BY <1>1, <2>1
    <3>3. y \in Under(x)
      BY <2>1, <3>2, UnderIs
    <3>4. Under(x) \subseteq Under(y)
      BY <2>1, <3>1, <3>2, UnderUnder
    <3> QED
      BY <3>2, <3>3, <3>4
  <2> QED
    BY <2>8, <2>9
<1>3. X \in SUBSET Fine /\ \A x \in X : Usable(x)
  OBVIOUS
<1> HIDE DEF X
<1>4. X = {}
  BY <1>2, <1>3, FineEnds
<1> QED
  BY <1>4 DEF X

LEMMA AboveOn ==
  ASSUME WrittenDocs, NEW n \in Nodes, NEW k \in Nodes, Above(n, k), Usable(k), NEW m \in Under(k)
  PROVE  Above(n, m) /\ m \in Under(n) /\ Usable(n)
<1>1. CASE n = k
  BY <1>1 DEF Above
<1>2. CASE n # k
  <2>1. Usable(n) /\ k \in Under(n)
    BY <1>2 DEF Above
  <2>2. Under(k) \subseteq Under(n)
    BY <2>1, UnderUnder
  <2> QED
    BY <2>1, <2>2 DEF Above
<1> QED
  BY <1>1, <1>2

LEMMA NotAbove ==
  ASSUME WrittenDocs, NEW k \in Fine, Usable(k), NEW n \in Under(k)
  PROVE  ~Above(n, k)
<1>1. k \in Nodes /\ k \notin Under(k)
  BY FineSound, FineNotUnder
<1>2. CASE n = k
  BY <1>1, <1>2
<1>3. CASE n # k
  <2> SUFFICES ASSUME Usable(n), k \in Under(n)
               PROVE  FALSE
    BY <1>3 DEF Above
  <2>1. Under(n) \subseteq Under(k)
    BY <1>1, UnderUnder
  <2> QED
    BY <1>1, <2>1
<1> QED
  BY <1>2, <1>3

(* The base of a service.                                                  *)
BaseOf(f, s) ==
  Node(IF HasFile(OwnExt(f, s)) THEN OwnExt(f, s).file ELSE f, OwnExt(f, s).svc)

LEMMA NeedsHas ==
  ASSUME NEW f, NEW w
  PROVE  /\ \A g \in Included(f) : Node(g, Full) \in Needs(Node(f, w))
         /\ \A s \in Service : OwnExt(f, s) # NoExt /\ (w = Full \/ s = w) =>
              BaseOf(f, s) \in Needs(Node(f, w))
<1> DEFINE n == Node(f, w)
           S == IF n.svc = Full THEN Service ELSE {n.svc}
           of(ext) == IF "file" \in DOMAIN ext THEN Node(ext.file, ext.svc) ELSE Node(n.file, ext.svc)
<1>1. n.file = f /\ n.svc = w
  BY DEF Node
<1> HIDE DEF n
<1>2. S = IF w = Full THEN Service ELSE {w}
  BY <1>1
<1> HIDE DEF S
<1>3. ASSUME NEW s \in Service, OwnExt(f, s) # NoExt, w = Full \/ s = w
      PROVE  s \in S /\ of(OwnExt(n.file, s)) = BaseOf(f, s)
  BY <1>1, <1>2, <1>3 DEF BaseOf, HasFile
<1> HIDE DEF of
<1>4. Needs(n) = {Node(g, Full) : g \in Included(n.file)}
                   \cup {of(e) : e \in {OwnExt(n.file, t) : t \in S} \ {NoExt}}
  BY Zenon DEF Needs, of, S
<1>5. \A g \in Included(f) : Node(g, Full) \in Needs(n)
  BY <1>1, <1>4
<1>6. ASSUME NEW s \in Service, OwnExt(f, s) # NoExt, w = Full \/ s = w
      PROVE  BaseOf(f, s) \in Needs(n)
  <2>1. OwnExt(n.file, s) \in {OwnExt(n.file, t) : t \in S} \ {NoExt}
    BY <1>1, <1>3, <1>6
  <2>2. BaseOf(f, s) = of(OwnExt(n.file, s))
    BY <1>3, <1>6
  <2> QED
    BY <1>4, <2>1, <2>2
<1> QED
  BY <1>5, <1>6 DEF n

-----------------------------------------------------------------------------
(* What a merge keeps of the services merged, and where an `extends:` of   *)
(* its result comes from.                                                  *)

Inherits(b) == HasBody(b) /\ b.ext # NoExt

(* A service that inherits is one of E; one that does so from its own file *)
(* is with its base in L.                                                  *)
Aims(data, E, L) ==
  \A s \in Service : Inherits(data[s]) =>
    s \in E /\ (HasFile(data[s].ext) \/ <<s, data[s].ext.svc>> \in L)

Present(data) == {s \in Service : data[s] # NoService}

LEMMA MergeExtAims ==
  ASSUME NEW b \in Exts, NEW t \in Exts, t # NoExt
  PROVE  HasFile(MergeExt(b, t)) \/ (~HasFile(t) /\ MergeExt(b, t).svc = t.svc)
<1>1. CASE t.form = "mapping" /\ b.form = "mapping"
  <2> DEFINE m == [k \in DOMAIN t \cup DOMAIN b |-> IF k \in DOMAIN t THEN t[k] ELSE b[k]]
  <2>1. MergeExt(b, t) = m
    BY <1>1, Zenon DEF MergeExt
  <2>2. "svc" \in DOMAIN t
    BY ExtForms
  <2>3. m.svc = t.svc
    BY <2>2
  <2>4. "file" \in DOMAIN t => "file" \in DOMAIN m
    OBVIOUS
  <2> HIDE DEF m
  <2> QED
    BY <2>1, <2>3, <2>4 DEF HasFile
<1>2. CASE ~(t.form = "mapping" /\ b.form = "mapping")
  <2>1. MergeExt(b, t) = t
    BY <1>2 DEF MergeExt
  <2> QED
    BY <2>1
<1> QED
  BY <1>1, <1>2

LEMMA MergeServiceAims ==
  ASSUME NEW base, NEW top, IsSaid(base), IsSaid(top), NEW tags
  PROVE  LET m == MergeService(base, top, tags)
         IN  /\ m # NoService
             /\ Inherits(top) => HasFile(m.ext) \/ (~HasFile(top.ext) /\ m.ext.svc = top.ext.svc)
             /\ ~Inherits(top) /\ Inherits(m) => Inherits(base) /\ m.ext = base.ext
<1> DEFINE m == MergeService(base, top, tags)
<1>1. IsSaid(m)
  BY MergeServiceIs
<1>2. m # NoService
  BY <1>1, BodyIsSaid
<1>3. HasBody(base) => base.ext \in Exts
  BY BodyIsSaid DEF IsBody
<1>4. HasBody(top) => top.ext \in Exts
  BY BodyIsSaid DEF IsBody
<1>5. CASE ~HasBody(top)
  <2>1. HasBody(base) => m = base
    BY <1>5, MergeServiceIs
  <2>2. ~HasBody(base) => m = NoBody
    BY <1>5, MergeServiceIs
  <2> HIDE DEF m
  <2>3. /\ m # NoService /\ ~Inherits(top)
        /\ Inherits(m) => Inherits(base) /\ m.ext = base.ext
    BY <1>2, <1>5, <2>1, <2>2 DEF Inherits, HasBody
  <2> QED
    BY <2>3 DEF m
<1>6. CASE HasBody(top) /\ ~HasBody(base)
  <2>1. m = top
    BY <1>6, MergeServiceIs
  <2> HIDE DEF m
  <2>2. /\ m # NoService /\ (Inherits(m) <=> Inherits(top)) /\ m.ext = top.ext
    BY <1>2, <2>1
  <2> QED
    BY <2>2 DEF m
<1>7. CASE HasBody(top) /\ HasBody(base)
  <2>1. m.ext = MergeExt(base.ext, top.ext)
    BY <1>7, MergeServiceIs
  <2>2. top.ext # NoExt => HasFile(m.ext) \/ (~HasFile(top.ext) /\ m.ext.svc = top.ext.svc)
    BY <1>3, <1>4, <1>7, <2>1, MergeExtAims
  <2>3. top.ext = NoExt => m.ext = base.ext
    BY <2>1 DEF MergeExt
  <2> HIDE DEF m
  <2>4. /\ m # NoService
        /\ Inherits(top) => HasFile(m.ext) \/ (~HasFile(top.ext) /\ m.ext.svc = top.ext.svc)
        /\ ~Inherits(top) /\ Inherits(m) => Inherits(base) /\ m.ext = base.ext
    BY <1>2, <1>7, <2>2, <2>3 DEF Inherits
  <2> QED
    BY <2>4 DEF m
<1> QED
  BY <1>5, <1>6, <1>7

LEMMA MergeServicesAims ==
  ASSUME NEW A, NEW B, NEW base, NEW top, Says(base, A, B), Says(top, A, B), NEW tags
  PROVE  LET m == MergeServices(base, top, tags)
         IN  /\ Present(base) \cup Present(top) \subseteq Present(m)
             /\ \A s \in Service :
                  /\ Inherits(top[s]) => HasFile(m[s].ext) \/ (~HasFile(top[s].ext) /\ m[s].ext.svc = top[s].ext.svc)
                  /\ ~Inherits(top[s]) /\ Inherits(m[s]) => Inherits(base[s]) /\ m[s].ext = base[s].ext
<1> DEFINE m == MergeServices(base, top, tags)
<1>1. ASSUME NEW s \in Service
      PROVE  /\ base[s] # NoService \/ top[s] # NoService => m[s] # NoService
             /\ Inherits(top[s]) => HasFile(m[s].ext) \/ (~HasFile(top[s].ext) /\ m[s].ext.svc = top[s].ext.svc)
             /\ ~Inherits(top[s]) /\ Inherits(m[s]) => Inherits(base[s]) /\ m[s].ext = base[s].ext
  <2>1. CASE top[s] = NoService
    <3>1. m[s] = base[s] /\ ~Inherits(top[s])
      BY <2>1 DEF MergeServices, Inherits, HasBody
    <3> HIDE DEF m
    <3> QED
      BY <2>1, <3>1
  <2>2. CASE top[s] # NoService /\ base[s] = NoService
    <3>1. m[s] = top[s]
      BY <2>2 DEF MergeServices
    <3> HIDE DEF m
    <3> QED
      BY <2>2, <3>1
  <2>3. CASE top[s] # NoService /\ base[s] # NoService
    <3> DEFINE x == MergeService(base[s], top[s], tags[s])
    <3>1. m[s] = x
      BY <2>3 DEF MergeServices
    <3>2. IsSaid(base[s]) /\ IsSaid(top[s])
      BY <2>3 DEF Says, Said
    <3>3. /\ x # NoService
          /\ Inherits(top[s]) => HasFile(x.ext) \/ (~HasFile(top[s].ext) /\ x.ext.svc = top[s].ext.svc)
          /\ ~Inherits(top[s]) /\ Inherits(x) => Inherits(base[s]) /\ x.ext = base[s].ext
      BY <3>2, MergeServiceAims
    <3> HIDE DEF m, x
    <3> QED
      BY <3>1, <3>3
  <2> QED
    BY <2>1, <2>2, <2>3
<1> HIDE DEF m
<1>2. /\ Present(base) \cup Present(top) \subseteq Present(m)
      /\ \A s \in Service :
           /\ Inherits(top[s]) => HasFile(m[s].ext) \/ (~HasFile(top[s].ext) /\ m[s].ext.svc = top[s].ext.svc)
           /\ ~Inherits(top[s]) /\ Inherits(m[s]) => Inherits(base[s]) /\ m[s].ext = base[s].ext
  BY <1>1 DEF Present
<1> QED
  BY <1>2 DEF m

LEMMA BothAim ==
  ASSUME NEW A, NEW B, NEW base, NEW top, Says(base, A, B), Says(top, A, B), NEW tags,
         NEW E, NEW L, Aims(base, E, L), Aims(top, E, L)
  PROVE  Aims(MergeServices(base, top, tags), E, L)
<1> DEFINE m == MergeServices(base, top, tags)
<1>1. \A s \in Service :
        /\ Inherits(top[s]) => HasFile(m[s].ext) \/ (~HasFile(top[s].ext) /\ m[s].ext.svc = top[s].ext.svc)
        /\ ~Inherits(top[s]) /\ Inherits(m[s]) => Inherits(base[s]) /\ m[s].ext = base[s].ext
  BY MergeServicesAims
<1> HIDE DEF m
<1>2. ASSUME NEW s \in Service, Inherits(m[s])
      PROVE  s \in E /\ (HasFile(m[s].ext) \/ <<s, m[s].ext.svc>> \in L)
  <2>1. CASE Inherits(top[s])
    BY <1>1, <2>1 DEF Aims
  <2>2. CASE ~Inherits(top[s])
    BY <1>1, <1>2, <2>2 DEF Aims
  <2> QED
    BY <2>1, <2>2
<1>3. Aims(m, E, L)
  BY <1>2 DEF Aims
<1> QED
  BY <1>3 DEF m

(* Documents merged up to the n-th.                                        *)
LEMMA MergedAims ==
  ASSUME NEW A, NEW B, NEW q, NEW m, MergedBy(q, m), NEW n \in Nat, n <= Len(q), Len(q) \in Nat,
         \A i \in 1 .. n : Says(q[i].data, A, B),
         NEW E, NEW L, \A i \in 1 .. n : Aims(q[i].data, E, L)
  PROVE  Aims(m[n], E, L) /\ \A i \in 1 .. n : Present(q[i].data) \subseteq Present(m[n])
<1> DEFINE T == {k \in Nat : k <= n => /\ Says(m[k], A, B) /\ Aims(m[k], E, L)
                                       /\ \A i \in 1 .. k : Present(q[i].data) \subseteq Present(m[k])}
<1>1. 0 \in T
  <2>1. m[0] = Nothing /\ Says(m[0], A, B)
    BY NothingSays DEF MergedBy
  <2>2. Aims(m[0], E, L)
    BY <2>1 DEF Aims, Inherits, HasBody, Nothing
  <2> QED
    BY <2>1, <2>2
<1>2. ASSUME NEW k \in Nat, k \in T
      PROVE  k + 1 \in T
  <2> SUFFICES ASSUME k + 1 <= n
               PROVE  /\ Says(m[k + 1], A, B) /\ Aims(m[k + 1], E, L)
                      /\ \A i \in 1 .. k + 1 : Present(q[i].data) \subseteq Present(m[k + 1])
    OBVIOUS
  <2>1. k <= n /\ k + 1 \in 1 .. n /\ k + 1 \in 1 .. Len(q) /\ (k + 1) - 1 = k
    OBVIOUS
  <2>2. m[k + 1] = MergeServices(m[k], q[k + 1].data, q[k + 1].tags)
    BY <2>1 DEF MergedBy
  <2>3. Says(m[k], A, B) /\ Says(q[k + 1].data, A, B) /\ Aims(m[k], E, L) /\ Aims(q[k + 1].data, E, L)
    BY <1>2, <2>1
  <2>4. Says(m[k + 1], A, B) /\ Aims(m[k + 1], E, L)
    BY <2>2, <2>3, MergeServicesSays, BothAim
  <2>5. Present(m[k]) \cup Present(q[k + 1].data) \subseteq Present(m[k + 1])
    BY <2>2, <2>3, MergeServicesAims
  <2>6. \A i \in 1 .. k + 1 : i \in 1 .. k \/ i = k + 1
    OBVIOUS
  <2>7. \A i \in 1 .. k : Present(q[i].data) \subseteq Present(m[k])
    BY <1>2, <2>1
  <2> QED
    BY <2>4, <2>5, <2>6, <2>7
<1> HIDE DEF T
<1>3. Nat \subseteq T
  BY <1>1, <1>2, InductionOnNat
<1>4. n <= n
  OBVIOUS
<1> QED
  BY <1>3, <1>4 DEF T

(* The services some document of a list holds.                             *)
HeldBy(q) == UNION {Present(q[i].data) : i \in 1 .. Len(q)}

AllAim(q, E, L) == \A i \in 1 .. Len(q) : Aims(q[i].data, E, L)

LEMMA FoldedAims ==
  ASSUME NEW A, NEW B, NEW q, Documents(q, A, B), NEW E, NEW L, AllAim(q, E, L)
  PROVE  Aims(Folded(q).data, E, L) /\ HeldBy(q) \subseteq Present(Folded(q).data)
<1>1. Len(q) \in Nat
  BY LenProperties DEF Documents
<1>2. PICK m : MergedBy(q, m) /\ MergeDocuments(q) = m[Len(q)]
  BY <1>1, MergeUnfolds
<1>3. \A i \in 1 .. Len(q) : Says(q[i].data, A, B) /\ Aims(q[i].data, E, L)
  BY DEF Documents, AllAim
<1> DEFINE n == Len(q)
<1>4. n \in Nat /\ n <= Len(q) /\ \A i \in 1 .. n : Says(q[i].data, A, B) /\ Aims(q[i].data, E, L)
  BY <1>1, <1>3
<1> HIDE DEF n
<1>5. Aims(m[n], E, L) /\ \A i \in 1 .. n : Present(q[i].data) \subseteq Present(m[n])
  BY <1>1, <1>2, <1>4, MergedAims
<1>6. Aims(MergeDocuments(q), E, L) /\ HeldBy(q) \subseteq Present(MergeDocuments(q))
  BY <1>2, <1>5 DEF HeldBy, n
<1>7. CASE Len(q) = 1
  <2>1. Folded(q) = q[1]
    BY <1>7 DEF Folded
  <2>2. 1 \in 1 .. Len(q) /\ \A i \in 1 .. Len(q) : i = 1
    BY <1>7
  <2> QED
    BY <1>3, <2>1, <2>2 DEF HeldBy
<1>8. CASE Len(q) # 1
  <2>1. Folded(q).data = MergeDocuments(q)
    BY <1>8 DEF Folded
  <2> QED
    BY <1>6, <2>1
<1> QED
  BY <1>7, <1>8

LEMMA FoldAims ==
  ASSUME NEW frame, NEW A, NEW B, Documents(frame.parts, A, B), NEW E, NEW L, AllAim(frame.parts, E, L)
  PROVE  \E m : /\ Says(m, A, B) /\ Aims(m, E, L) /\ HeldBy(frame.parts) \subseteq Present(m)
                /\ Fold(frame) = MergeServices(m, frame.data, NoTags)
<1> DEFINE n == Len(frame.parts)
<1>1. PICK q, m :
        /\ n \in Nat /\ Len(q) = n + 1 /\ MergedBy(q, m)
        /\ \A i \in 1 .. n : (n - i) + 1 \in 1 .. n /\ q[i] = frame.parts[(n - i) + 1]
        /\ Fold(frame) = MergeServices(m[n], frame.data, NoTags)
  BY FoldUnfolds
<1>2. \A i \in 1 .. n : Says(frame.parts[i].data, A, B) /\ Aims(frame.parts[i].data, E, L)
  BY DEF Documents, AllAim
<1>3. \A i \in 1 .. n : Says(q[i].data, A, B) /\ Aims(q[i].data, E, L)
  BY <1>1, <1>2
<1>4. n <= Len(q) /\ Len(q) \in Nat
  BY <1>1
<1>5. ASSUME NEW i \in 1 .. n
      PROVE  \E j \in 1 .. n : q[j] = frame.parts[i]
  <2>1. (n - i) + 1 \in 1 .. n /\ (n - ((n - i) + 1)) + 1 = i
    BY <1>1
  <2> QED
    BY <1>1, <2>1
<1> HIDE DEF n
<1>6. Says(m[n], A, B) /\ Aims(m[n], E, L) /\ \A i \in 1 .. n : Present(q[i].data) \subseteq Present(m[n])
  BY <1>1, <1>3, <1>4, MergedSays, MergedAims
<1>7. HeldBy(frame.parts) \subseteq Present(m[n])
  <2>1. \A i \in 1 .. n : Present(frame.parts[i].data) \subseteq Present(m[n])
    BY <1>5, <1>6
  <2> QED
    BY <2>1 DEF HeldBy, n
<1> QED
  BY <1>1, <1>6, <1>7

(* Over its base in the same file, a service still names what it named.    *)
LEMMA InheritedAims ==
  ASSUME NEW frame, NEW A, NEW B, Says(frame.data, A, B), NEW cut,
         NEW E, NEW L, Aims(frame.data, E, L)
  PROVE  Aims(Inherited(frame, cut), E, L)
<1> DEFINE N == Cardinality(Service)
           d == frame.data
           D == {s \in Service : d[s] # NoService}
           ok(up) == Says(up, D, B) /\ Aims(up, E, L) /\ \A s \in D : up[s] # NoService
<1>0. N \in Nat
  BY LoadAssumption, FS_CardinalityType
<1>1. PICK u : /\ u[0] = d
               /\ \A i \in 1 .. N : u[i] = Resolved(frame, cut, u[i - 1])
               /\ Inherited(frame, cut) = u[N]
  BY InheritedUnfolds
<1>2. ok(d)
  BY DEF Says
<1>3. ASSUME NEW up, ok(up)
      PROVE  ok(Resolved(frame, cut, up))
  <2> DEFINE r == Resolved(frame, cut, up)
  <2>1. r = [s \in Service |-> r[s]]
    BY DEF Resolved
  <2>2. ASSUME NEW s \in Service
        PROVE  /\ r[s] # NoService => s \in D /\ Said(r[s], s, B)
               /\ s \in D => r[s] # NoService
               /\ Inherits(r[s]) => s \in E /\ (HasFile(r[s].ext) \/ <<s, r[s].ext.svc>> \in L)
    <3>1. CASE Target(frame, s) = {} \/ s \in cut \/ Undeclared(frame, s)
      <4>1. r[s] = d[s]
        BY <3>1 DEF Resolved
      <4> HIDE DEF r
      <4> QED
        BY <4>1 DEF Says, Aims
    <3>2. CASE ~(Target(frame, s) = {} \/ s \in cut \/ Undeclared(frame, s))
      <4> DEFINE t == CHOOSE x \in Target(frame, s) : TRUE
                 m == MergeService(up[t], d[s], Tags(frame.file)[s])
      <4>1. t \in Target(frame, s) /\ d[t] # NoService
        BY <3>2 DEF Undeclared
      <4>2. r[s] = m
        BY <3>2 DEF Resolved
      <4> HIDE DEF t, r
      <4>3. t \in D /\ IsBody(d[s]) /\ d[s].ext # NoExt
        BY <4>1, TargetIs
      <4>4. IsSaid(up[t])
        BY <1>3, <4>3 DEF Says, Said
      <4>5. IsBody(m) /\ (IsMapping(m.ext) => IsMapping(d[s].ext))
        BY <4>3, <4>4, MergeUnder
      <4>6. s \in D /\ (IsMapping(d[s].ext) => s \in B)
        BY <4>3, BodyIsSaid DEF Says, Said
      <4>7. IsSaid(d[s]) /\ Inherits(d[s])
        BY <4>3, BodyIsSaid DEF IsSaid, Inherits
      <4>8. HasFile(m.ext) \/ (~HasFile(d[s].ext) /\ m.ext.svc = d[s].ext.svc)
        BY <4>4, <4>7, MergeServiceAims
      <4>9. s \in E /\ (HasFile(m.ext) \/ <<s, m.ext.svc>> \in L)
        BY <4>7, <4>8 DEF Aims
      <4> HIDE DEF m
      <4>10. r[s] # NoService /\ Said(r[s], s, B)
        BY <4>2, <4>5, <4>6, BodyIsSaid DEF Said, IsSaid
      <4> QED
        BY <4>2, <4>6, <4>9, <4>10
    <3> QED
      BY <3>1, <3>2
  <2> HIDE DEF r, D
  <2>3. Says(r, D, B)
    BY <2>1, <2>2 DEF Says
  <2>4. \A s \in D : r[s] # NoService
    BY <2>2 DEF D
  <2>5. Aims(r, E, L)
    BY <2>2 DEF Aims
  <2> QED
    BY <2>3, <2>4, <2>5 DEF r
<1> HIDE DEF ok
<1> DEFINE T == {k \in Nat : k <= N => ok(u[k])}
<1>4. 0 \in T
  BY <1>1, <1>2
<1>5. ASSUME NEW k \in Nat, k \in T
      PROVE  k + 1 \in T
  <2> SUFFICES ASSUME k + 1 <= N PROVE ok(u[k + 1])
    OBVIOUS
  <2>1. k <= N /\ k + 1 \in 1 .. N /\ (k + 1) - 1 = k
    BY <1>0
  <2>2. u[k + 1] = Resolved(frame, cut, u[k])
    BY <1>1, <2>1
  <2>3. ok(u[k])
    BY <1>5, <2>1
  <2> QED
    BY <1>3, <2>2, <2>3
<1> HIDE DEF T
<1>6. Nat \subseteq T
  BY <1>4, <1>5, InductionOnNat
<1>7. ok(Inherited(frame, cut))
  BY <1>0, <1>1, <1>6 DEF T
<1> QED
  BY <1>7 DEF ok

(* The services that inherit in their own file, with their bases.          *)
LentBy(f) == {p \in Service \X Service : Lends(f, p[1], p[2])}

LentBelow(f) == UNION {LentBy(g) : g \in Included(f) \cap File}

LEMMA LentOn ==
  ASSUME NEW f \in File, IsDocument(docs[f])
  PROVE  /\ LentBelow(f) \subseteq LentBy(f)
         /\ \A g \in Included(f) \cap File : LentBy(g) \subseteq LentBelow(f)
<1>1. ASSUME NEW g \in Included(f) \cap File, NEW s \in Service, NEW t \in Service, Lends(g, s, t)
      PROVE  Lends(f, s, t)
  <2>1. ProjectOf(g) \subseteq ProjectOf(f)
    BY ProjectBelow
  <2> QED
    BY <1>1, <2>1 DEF Lends
<1>2. \A g \in Included(f) \cap File : LentBy(g) \subseteq LentBy(f)
  BY <1>1 DEF LentBy
<1> QED
  BY <1>2 DEF LentBelow

(* A project is a document and the projects it includes; a file that is no *)
(* document has but itself.                                                *)
LEMMA ProjectOnly ==
  ASSUME NEW f \in File
  PROVE  /\ ProjectOf(f) \subseteq {f} \cup UNION {ProjectOf(g) : g \in Included(f) \cap File}
         /\ ~IsDocument(docs[f]) => ProjectOf(f) \subseteq {f}
<1> DEFINE Closed(S) == \A h \in S : IsDocument(docs[h]) => Included(h) \cap File \subseteq S
           S == {f} \cup UNION {ProjectOf(g) : g \in Included(f) \cap File}
<1>1. \A g \in File : ProjectOf(g) \in SUBSET File /\ Closed(ProjectOf(g))
  BY DEF ProjectOf
<1>2. \A g \in File : g \in ProjectOf(g)
  BY ProjectHere
<1>3. S \in SUBSET File /\ f \in S
  BY <1>1
<1>4. Closed(S)
  <2> SUFFICES ASSUME NEW h \in S, IsDocument(docs[h])
               PROVE  Included(h) \cap File \subseteq S
    OBVIOUS
  <2>1. CASE h = f
    BY <1>2, <2>1
  <2>2. CASE h # f
    <3>1. PICK g \in Included(f) \cap File : h \in ProjectOf(g)
      BY <2>2
    <3>2. Included(h) \cap File \subseteq ProjectOf(g)
      BY <1>1, <3>1
    <3> QED
      BY <3>1, <3>2
  <2> QED
    BY <2>1, <2>2
<1>5. ASSUME NEW X \in SUBSET File, f \in X, Closed(X)
      PROVE  ProjectOf(f) \subseteq X
  BY <1>5 DEF ProjectOf
<1>6. ~IsDocument(docs[f]) => Closed({f})
  OBVIOUS
<1> HIDE DEF Closed, S
<1>7. ProjectOf(f) \subseteq S
  BY <1>3, <1>4, <1>5
<1>8. ~IsDocument(docs[f]) => ProjectOf(f) \subseteq {f}
  BY <1>5, <1>6
<1> QED
  BY <1>7, <1>8 DEF S

LEMMA MentionedOnly ==
  ASSUME NEW f \in File
  PROVE  /\ ~IsDocument(docs[f]) => MentionedBy(f) = {}
         /\ MentionedBy(f) \subseteq Declared(f) \cup UNION {MentionedBy(g) : g \in Included(f) \cap File}
<1>1. ~IsDocument(docs[f]) => MentionedBy(f) = {}
  BY ProjectOnly DEF MentionedBy, Mentions
<1>2. ASSUME NEW s \in Service, Mentions(f, s), s \notin Declared(f)
      PROVE  \E g \in Included(f) \cap File : Mentions(g, s)
  <2>1. PICK h \in ProjectOf(f) : IsDocument(docs[h]) /\ docs[h].services[s] # NoService
    BY <1>2 DEF Mentions
  <2>2. h # f
    BY <1>2, <2>1 DEF Declared
  <2>3. PICK g \in Included(f) \cap File : h \in ProjectOf(g)
    BY <2>1, <2>2, ProjectOnly
  <2> QED
    BY <2>1, <2>3 DEF Mentions
<1> QED
  BY <1>1, <1>2 DEF MentionedBy

(* A document as parsed.                                                   *)
LEMMA ParsedAims ==
  ASSUME WrittenDocs, NEW f \in File, IsDocument(docs[f]), NEW env
  PROVE  /\ Declared(f) \subseteq Present(Parsed(f, env))
         /\ \A s \in Service : Inherits(Parsed(f, env)[s]) =>
              OwnExt(f, s) # NoExt /\ Parsed(f, env)[s].ext = OwnExt(f, s)
         /\ Aims(Parsed(f, env), Service, LentBy(f))
<1> DEFINE w(s) == docs[f].services[s]
           p(s) == Parsed(f, env)[s]
<1>1. ASSUME NEW s \in Service, HasBody(w(s))
      PROVE  HasBody(p(s)) /\ p(s).ext = OwnExt(f, s)
  <2> DEFINE i == CASE w(s).kind = "plain" -> <<f, s>>
                    [] w(s).kind = "ref" -> EnvValue(env)
                    [] OTHER -> Unset
             c == CASE w(s).kind = "plain" -> <<Common, <<f, s>>>>
                    [] w(s).kind \in {"reset", "override"} -> <<<<f, s>>>>
                    [] OTHER -> << >>
             v == IF w(s).kind = "plain"
                  THEN <<[key |-> Sock, src |-> <<f, s>>], [key |-> <<f, s>>, src |-> <<f, s>>]>>
                  ELSE << >>
             e == w(s).ext
             b == [image |-> i, caps |-> c, vols |-> v, ext |-> e]
  <2>0. p(s) = Written(f, s, env)
    BY DEF Parsed
  <2>1. p(s) = b
    BY <1>1, <2>0, Zenon DEF Written
  <2>2. OwnExt(f, s) = e
    BY <1>1 DEF OwnExt
  <2> HIDE DEF i, c, v, e
  <2>3. b.ext = e /\ HasBody(b)
    BY Bodies
  <2> HIDE DEF b, p
  <2> QED
    BY <2>1, <2>2, <2>3
<1>2. ASSUME NEW s \in Service, ~HasBody(w(s))
      PROVE  p(s) = w(s)
  BY <1>2 DEF Written, Parsed
<1> HIDE DEF p
<1>3. ASSUME NEW s \in Service, w(s) # NoService
      PROVE  p(s) # NoService
  BY <1>1, <1>2, <1>3 DEF HasBody
<1>4. ASSUME NEW s \in Service, Inherits(p(s))
      PROVE  OwnExt(f, s) # NoExt /\ p(s).ext = OwnExt(f, s)
  BY <1>1, <1>2, <1>4 DEF Inherits
<1>5. ASSUME NEW s \in Service, Inherits(p(s)), ~HasFile(p(s).ext)
      PROVE  <<s, p(s).ext.svc>> \in LentBy(f)
  <2>1. OwnExt(f, s) # NoExt /\ p(s).ext = OwnExt(f, s)
    BY <1>4, <1>5
  <2>2. OwnExt(f, s).svc \in Service
    BY <2>1, ParsedSays, ExtForms
  <2>3. Lends(f, s, OwnExt(f, s).svc)
    BY <1>5, <2>1, ProjectHere DEF Lends, HasFile
  <2> QED
    BY <2>1, <2>2, <2>3 DEF LentBy
<1>6. Declared(f) \subseteq Present(Parsed(f, env))
  BY <1>3 DEF Declared, Present, p
<1>7. Aims(Parsed(f, env), Service, LentBy(f))
  BY <1>5 DEF Aims, p
<1> QED
  BY <1>4, <1>6, <1>7 DEF p

LEMMA AimsMore ==
  ASSUME NEW data, NEW E, NEW L, Aims(data, E, L), NEW F, NEW M, E \subseteq F, L \subseteq M
  PROVE  Aims(data, F, M)
BY DEF Aims

-----------------------------------------------------------------------------
(* Activations of a configuration that leads somewhere throughout.         *)

Place(frame) == Node(frame.file, frame.want)

(* An activation stands at a fine node, below all its chains hold.         *)
Placed(frame) ==
  /\ frame.gaps = {} /\ Place(frame) \in Fine
  /\ frame.want # Full => Extended(frame.file)
  /\ \A g \in frame.inc : Node(g, Full) \in Nodes /\ Above(Node(g, Full), Place(frame))
  /\ \A p \in frame.ext : Node(p[1], p[2]) \in Nodes /\ Above(Node(p[1], p[2]), Place(frame))

(* At its includes: what those before this one say is among what it holds, *)
(* but for those of G, which are still to answer.                          *)
Held(frame) == HeldBy(frame.part) \cup HeldBy(frame.parts)

Gathered(frame, G) ==
  LET f == frame.file IN
  /\ \A i \in DOMAIN Entries(f) : \A j \in DOMAIN Entries(f)[i] :
       i < frame.entry \/ (i = frame.entry /\ j < frame.ref) =>
         MentionedBy(Entries(f)[i][j]) \subseteq Held(frame)
  /\ \A p \in frame.folded : p[1] \in G \/ MentionedBy(p[1]) \subseteq Held(frame)
  /\ frame.entry > Len(Entries(f)) => frame.part = << >>
  /\ AllAim(frame.part, Service, LentBelow(f)) /\ AllAim(frame.parts, Service, LentBelow(f))

(* A service of the document that inherits, and does under this node.      *)
Due(frame, s) ==
  /\ OwnExt(frame.file, s) # NoExt
  /\ frame.want = Full \/ Above(Place(frame), Node(frame.file, s))

(* Past its includes: all its project says is there, and what it resolves  *)
(* is its own and lies below it.                                           *)
Based(frame) ==
  /\ MentionedBy(frame.file) \subseteq Present(frame.data)
  /\ \A s \in Service \ frame.skip : Inherits(frame.data[s]) => Due(frame, s)
  /\ frame.todo \cap frame.skip = {}
  /\ Aims(frame.data, Service, LentBy(frame.file))

Clear(frame, G) ==
  /\ Placed(frame)
  /\ frame.phase = "include" => Gathered(frame, G)
  /\ frame.phase = "extends" => Based(frame)

(* Each but the last waits for what its reference is to bring.             *)
AllClear(q) ==
  /\ q # << >> => Clear(Last(q), {})
  /\ \A i \in 1 .. Len(q) - 1 : Clear(q[i], {Reference(q[i])})

SameChains(a, b) == a.file = b.file /\ a.want = b.want /\ a.inc = b.inc /\ a.ext = b.ext /\ a.gaps = b.gaps

LEMMA PlacedSame ==
  ASSUME NEW a, NEW b, SameChains(a, b), Placed(b)
  PROVE  Placed(a)
<1>1. Place(a) = Place(b)
  BY DEF SameChains, Place
<1> QED
  BY <1>1 DEF SameChains, Placed

LEMMA AdvancePlaced ==
  ASSUME NEW frame, IsActivation(frame), Placed(frame)
  PROVE  Placed(Advance(frame))
<1> DEFINE next == [frame EXCEPT !.ref = @ + 1]
           ps == IF frame.part = << >> THEN frame.parts ELSE Append(frame.parts, Folded(frame.part))
           over == [frame EXCEPT !.ref = 1, !.entry = @ + 1, !.part = << >>, !.parts = ps]
           a == Advance(frame)
<1>1. a = next \/ a = over
  BY Zenon DEF Advance
<1>2. SameChains(next, frame)
  BY DEF IsActivation, Fields, SameChains
<1> HIDE DEF ps
<1>3. SameChains(over, frame)
  BY DEF IsActivation, Fields, SameChains
<1> HIDE DEF a, next, over
<1>4. SameChains(a, frame)
  BY <1>1, <1>2, <1>3
<1>5. Placed(a)
  BY <1>4, PlacedSame
<1> QED
  BY <1>5 DEF a

LEMMA HeldAppend ==
  ASSUME NEW q, IsList(q), NEW d, NEW E, NEW L
  PROVE  /\ HeldBy(Append(q, d)) = HeldBy(q) \cup Present(d.data)
         /\ AllAim(q, E, L) /\ Aims(d.data, E, L) => AllAim(Append(q, d), E, L)
<1> DEFINE r == Append(q, d)
           n == Len(q)
<1>1. /\ n \in Nat /\ Len(r) = n + 1 /\ r[n + 1] = d
      /\ \A i \in 1 .. n : r[i] = q[i]
  BY AppendIs
<1>2. \A i \in 1 .. n + 1 : i \in 1 .. n \/ i = n + 1
  BY <1>1
<1>3. n + 1 \in 1 .. n + 1 /\ \A i \in 1 .. n : i \in 1 .. n + 1
  BY <1>1
<1> HIDE DEF r, n
<1>4. ASSUME NEW s
      PROVE  s \in HeldBy(r) <=> s \in HeldBy(q) \cup Present(d.data)
  BY <1>1, <1>2, <1>3 DEF HeldBy, n
<1>5. AllAim(q, E, L) /\ Aims(d.data, E, L) => AllAim(r, E, L)
  BY <1>1, <1>2, <1>3 DEF AllAim, n
<1> QED
  BY <1>4, <1>5 DEF r

LEMMA HeldNone == HeldBy(<< >>) = {} /\ \A E, L : AllAim(<< >>, E, L)
<1>1. Len(<< >>) = 0 /\ \A i \in 1 .. 0 : FALSE
  OBVIOUS
<1> QED
  BY <1>1 DEF HeldBy, AllAim

(* On to the next reference, when this one's is among what is held.        *)
LEMMA AdvanceGathers ==
  ASSUME WrittenDocs, NEW frame, IsActivation(frame),
         frame.phase = "include", IncludePhase(frame), frame.entry <= Len(Entries(frame.file)),
         Gathered(frame, {Reference(frame)}), MentionedBy(Reference(frame)) \subseteq Held(frame)
  PROVE  Gathered(Advance(frame), {})
<1> DEFINE f == frame.file
           es == Entries(f)
           a == Advance(frame)
           n == frame.entry
           r == frame.ref
           A == MentionedBy(f)
           B == MappedBelow(f)
           L == LentBelow(f)
<1>1. /\ Keeps(frame, a) /\ a.folded = frame.folded
      /\ IF r < Len(es[n])
         THEN a.ref = r + 1 /\ a.entry = n /\ a.part = frame.part /\ a.parts = frame.parts
         ELSE /\ a.ref = 1 /\ a.entry = n + 1 /\ a.part = << >>
              /\ a.parts = IF frame.part = << >> THEN frame.parts
                           ELSE Append(frame.parts, Folded(frame.part))
  BY AdvanceIs
<1>2. a.file = f
  BY <1>1 DEF Keeps, SameTask
<1>3. f \in File /\ IsDocument(docs[f])
  BY DEF IsActivation, IsOpen
<1>4. /\ Len(es) \in Nat /\ DOMAIN es = 1 .. Len(es)
      /\ \A i \in DOMAIN es : Len(es[i]) \in Nat \ {0} /\ DOMAIN es[i] = 1 .. Len(es[i])
  BY <1>3, EntriesAre
<1>5. /\ n \in Nat \ {0} /\ r \in Nat \ {0} /\ n <= Len(es) /\ r <= Len(es[n])
      /\ Documents(frame.part, A, B) /\ Documents(frame.parts, A, B)
  BY DEF IncludePhase
<1>6. \A i \in DOMAIN es : \A j \in DOMAIN es[i] :
        i < n \/ (i = n /\ j < r) => MentionedBy(es[i][j]) \subseteq Held(frame)
  BY DEF Gathered
<1>7. MentionedBy(es[n][r]) \subseteq Held(frame)
  BY DEF Reference
<1>8. \A p \in frame.folded : MentionedBy(p[1]) \subseteq Held(frame)
  BY DEF Gathered
<1>9. AllAim(frame.part, Service, L) /\ AllAim(frame.parts, Service, L)
  BY DEF Gathered
<1> HIDE DEF es, a, n, r, f, A, B, L
<1>10. CASE r < Len(es[n])
  <2>1. a.ref = r + 1 /\ a.entry = n /\ a.part = frame.part /\ a.parts = frame.parts
    BY <1>1, <1>10
  <2>2. Held(a) = Held(frame)
    BY <2>1 DEF Held
  <2>3. \A i \in DOMAIN es : \A j \in DOMAIN es[i] :
          i < n \/ (i = n /\ j < r + 1) => MentionedBy(es[i][j]) \subseteq Held(a)
    BY <1>4, <1>5, <1>6, <1>7, <2>2
  <2>4. ~(n > Len(es))
    BY <1>4, <1>5
  <2> QED
    BY <1>1, <1>2, <1>8, <1>9, <2>1, <2>2, <2>3, <2>4 DEF Gathered, es, a, L
<1>11. CASE ~(r < Len(es[n]))
  <2>1. r = Len(es[n]) /\ n \in DOMAIN es
    BY <1>4, <1>5, <1>11
  <2>2. /\ a.ref = 1 /\ a.entry = n + 1 /\ a.part = << >>
        /\ a.parts = IF frame.part = << >> THEN frame.parts
                     ELSE Append(frame.parts, Folded(frame.part))
    BY <1>1, <1>11
  <2>3. Held(frame) \subseteq Held(a) /\ AllAim(a.parts, Service, L)
    <3>1. Held(a) = HeldBy(a.parts)
      BY <2>2, HeldNone DEF Held
    <3>2. CASE frame.part = << >>
      BY <1>9, <2>2, <3>1, <3>2, HeldNone DEF Held
    <3>3. CASE frame.part # << >>
      <4> DEFINE d == Folded(frame.part)
      <4>1. Aims(d.data, Service, L) /\ HeldBy(frame.part) \subseteq Present(d.data)
        BY <1>5, <1>9, FoldedAims
      <4>2. IsList(frame.parts)
        BY <1>5 DEF Documents, IsList
      <4>3. a.parts = Append(frame.parts, d)
        BY <2>2, <3>3
      <4> HIDE DEF d
      <4>4. HeldBy(a.parts) = HeldBy(frame.parts) \cup Present(d.data) /\ AllAim(a.parts, Service, L)
        BY <1>9, <4>1, <4>2, <4>3, HeldAppend
      <4> QED
        BY <3>1, <4>1, <4>4 DEF Held
    <3> QED
      BY <3>2, <3>3
  <2>4. ASSUME NEW i \in DOMAIN es, NEW j \in DOMAIN es[i], i < n + 1 \/ (i = n + 1 /\ j < 1)
        PROVE  MentionedBy(es[i][j]) \subseteq Held(a)
    <3>1. i \in Nat /\ j \in Nat \ {0} /\ j <= Len(es[i])
      BY <1>4
    <3>2. i < n \/ i = n
      BY <1>5, <2>4, <3>1
    <3>3. CASE i < n
      BY <1>6, <2>3, <3>3
    <3>4. CASE i = n
      <4>1. j < r \/ j = r
        BY <1>5, <2>1, <3>1, <3>4
      <4> QED
        BY <1>6, <1>7, <2>3, <3>4, <4>1
    <3> QED
      BY <3>2, <3>3, <3>4
  <2>5. \A p \in a.folded : MentionedBy(p[1]) \subseteq Held(a)
    BY <1>1, <1>8, <2>3
  <2>6. AllAim(a.part, Service, L)
    BY <2>2, HeldNone
  <2> QED
    BY <1>2, <2>2, <2>3, <2>4, <2>5, <2>6 DEF Gathered, es, a, L
<1> QED
  BY <1>10, <1>11

(* What a reference brought is held, whatever the document said.           *)
LEMMA ReceiveGathers ==
  ASSUME WrittenDocs, NEW frame, IsActivation(frame),
         frame.phase = "include", IncludePhase(frame), frame.entry <= Len(Entries(frame.file)),
         Placed(frame), Gathered(frame, {Reference(frame)}),
         NEW document, Says(document.data, MentionedBy(frame.file), MappedBelow(frame.file)),
         MentionedBy(Reference(frame)) \subseteq Present(document.data),
         Aims(document.data, Service, LentBelow(frame.file))
  PROVE  Clear(Receive(frame, document), {})
<1> DEFINE m == [frame EXCEPT !.part = Append(@, document)]
           L == LentBelow(frame.file)
<1>1. /\ DOMAIN m = Fields /\ m.file = frame.file /\ m.want = frame.want /\ m.env = frame.env
      /\ m.data = frame.data /\ m.phase = frame.phase
      /\ m.entry = frame.entry /\ m.ref = frame.ref
      /\ m.part = Append(frame.part, document) /\ m.parts = frame.parts
      /\ m.at = frame.at /\ m.gaps = frame.gaps /\ m.folded = frame.folded
      /\ m.inc = frame.inc /\ m.ext = frame.ext
  BY DEF IsActivation, Fields
<1>2. Receive(frame, document) = Advance(m)
  BY DEF Receive
<1> HIDE DEF m
<1>3. Documents(m.part, MentionedBy(m.file), MappedBelow(m.file))
  BY <1>1, DocumentsAppend DEF IncludePhase
<1>4. IncludePhase(m)
  BY <1>1, <1>3 DEF IncludePhase
<1>5. IsActivation(m)
  BY <1>1 DEF IsActivation, IsOpen
<1>6. Reference(m) = Reference(frame)
  BY <1>1 DEF Reference
<1>7. IsList(frame.part)
  BY DEF IncludePhase, Documents, IsList
<1>8. AllAim(frame.part, Service, L)
  BY DEF Gathered
<1> HIDE DEF L
<1>9. HeldBy(m.part) = HeldBy(frame.part) \cup Present(document.data) /\ AllAim(m.part, Service, L)
  BY <1>1, <1>7, <1>8, HeldAppend DEF L
<1>10. Held(m) = Held(frame) \cup Present(document.data)
  BY <1>1, <1>9 DEF Held
<1>11. ~(frame.entry > Len(Entries(frame.file)))
  <2>1. frame.file \in File /\ IsDocument(docs[frame.file])
    BY DEF IsActivation, IsOpen
  <2>2. Len(Entries(frame.file)) \in Nat /\ frame.entry \in Nat
    BY <2>1, EntriesAre DEF IncludePhase
  <2> QED
    BY <2>2
<1>12. Gathered(m, {Reference(m)})
  BY <1>1, <1>6, <1>9, <1>10, <1>11 DEF Gathered, L
<1>13. Placed(m)
  BY <1>1, PlacedSame DEF SameChains
<1>14. Gathered(Advance(m), {})
  BY <1>1, <1>4, <1>5, <1>6, <1>10, <1>12, AdvanceGathers
<1>15. Placed(Advance(m))
  BY <1>5, <1>13, AdvancePlaced
<1>16. Advance(m).phase = "include"
  BY <1>1, <1>5, AdvanceIs
<1> QED
  BY <1>2, <1>14, <1>15, <1>16 DEF Clear

-----------------------------------------------------------------------------
(* The stack, activation by activation.                                    *)

LEMMA ClearOnTop ==
  ASSUME NEW q, IsList(q), \A i \in 1 .. Len(q) : Clear(q[i], {Reference(q[i])}),
         NEW frame, Clear(frame, {})
  PROVE  AllClear(Append(q, frame))
<1> DEFINE r == Append(q, frame)
<1>1. /\ Len(q) \in Nat /\ Len(r) = Len(q) + 1 /\ Last(r) = frame
      /\ \A i \in 1 .. Len(q) : r[i] = q[i]
  BY AppendIs
<1> HIDE DEF r
<1>2. Len(r) - 1 = Len(q)
  BY <1>1
<1>3. AllClear(r)
  BY <1>1, <1>2 DEF AllClear
<1> QED
  BY <1>3 DEF r

LEMMA ClearBelow ==
  ASSUME NEW q, IsList(q), q # << >>, AllClear(q)
  PROVE  /\ IsList(Front(q)) /\ \A i \in 1 .. Len(Front(q)) : Clear(Front(q)[i], {Reference(Front(q)[i])})
         /\ Front(q) # << >> => Clear(Last(Front(q)), {Reference(Last(Front(q)))})
<1> DEFINE r == Front(q)
<1>1. /\ IsList(r) /\ Len(q) \in Nat \ {0} /\ Len(r) = Len(q) - 1
      /\ \A i \in 1 .. Len(q) - 1 : r[i] = q[i]
  BY FrontIs
<1> HIDE DEF r
<1>2. \A i \in 1 .. Len(r) : Clear(r[i], {Reference(r[i])})
  BY <1>1 DEF AllClear
<1>3. ASSUME r # << >>
      PROVE  Clear(Last(r), {Reference(Last(r))})
  <2>1. Len(r) \in Nat \ {0}
    BY <1>1, <1>3, FrontIs
  <2>2. Len(r) \in 1 .. Len(r) /\ Last(r) = r[Len(r)]
    BY <2>1 DEF Last
  <2> QED
    BY <1>2, <2>2
<1> QED
  BY <1>1, <1>2, <1>3 DEF r

LEMMA ClearWaits ==
  ASSUME NEW frame, NEW G, Clear(frame, {})
  PROVE  Clear(frame, G)
BY DEF Clear, Gathered

LEMMA UpdateClears ==
  ASSUME Chained(stack), stack # << >>, AllClear(stack), NEW frame, Clear(frame, {}), Update(frame)
  PROVE  AllClear(stack')
<1>1. IsList(stack)
  BY ChainedIs
<1>2. IsList(Below) /\ \A i \in 1 .. Len(Below) : Clear(Below[i], {Reference(Below[i])})
  BY <1>1, ClearBelow DEF Below
<1>3. stack' = Append(Below, frame)
  BY DEF Update
<1> QED
  BY <1>2, <1>3, ClearOnTop

LEMMA CallClears ==
  ASSUME Chained(stack), stack # << >>, AllClear(stack),
         NEW frame, Clear(frame, {Reference(frame)}),
         NEW callee, Clear(callee, {}), Call(frame, callee)
  PROVE  AllClear(stack')
<1>1. IsList(stack)
  BY ChainedIs
<1> DEFINE q == Below
           r == Append(q, frame)
<1>2. IsList(q) /\ \A i \in 1 .. Len(q) : Clear(q[i], {Reference(q[i])})
  BY <1>1, ClearBelow DEF Below
<1>3. stack' = Append(r, callee)
  BY DEF Call
<1> HIDE DEF q
<1>4. /\ IsList(r) /\ Len(q) \in Nat /\ Len(r) = Len(q) + 1 /\ r[Len(q) + 1] = frame
      /\ \A i \in 1 .. Len(q) : r[i] = q[i]
  BY <1>2, AppendIs
<1> HIDE DEF r
<1>5. \A i \in 1 .. Len(r) : i \in 1 .. Len(q) \/ i = Len(q) + 1
  BY <1>4
<1>6. \A i \in 1 .. Len(r) : Clear(r[i], {Reference(r[i])})
  BY <1>2, <1>4, <1>5
<1> QED
  BY <1>3, <1>4, <1>6, ClearOnTop

LEMMA ReturnClears ==
  ASSUME Chained(stack), stack # << >>, Len(stack) > 1, AllClear(stack),
         NEW frame, Clear(frame, {}), Return(frame)
  PROVE  AllClear(stack')
<1>1. IsList(stack)
  BY ChainedIs
<1> DEFINE q == Below
<1>2. IsList(q) /\ \A i \in 1 .. Len(q) : Clear(q[i], {Reference(q[i])})
  BY <1>1, ClearBelow DEF Below
<1>3. q # << >> /\ Len(q) \in Nat
  BY CallerWaits, <1>2 DEF IsList
<1>4. stack' = Append(Front(q), frame)
  BY DEF Return
<1> HIDE DEF q
<1>5. /\ IsList(Front(q)) /\ Len(Front(q)) = Len(q) - 1
      /\ \A i \in 1 .. Len(q) - 1 : Front(q)[i] = q[i]
  BY <1>2, <1>3, FrontIs
<1>6. \A i \in 1 .. Len(Front(q)) : i \in 1 .. Len(q)
  BY <1>3, <1>5
<1>7. \A i \in 1 .. Len(Front(q)) : Clear(Front(q)[i], {Reference(Front(q)[i])})
  BY <1>2, <1>5, <1>6
<1> QED
  BY <1>4, <1>5, <1>7, ClearOnTop

(* No step that runs into a limit is within the limits.                    *)
LEMMA NoLimitHit ==
  ASSUME Chained(stack'), stack' # << >>, WithinLimits', NEW f
  PROVE  <<f, "deep">> \notin Last(stack').gaps /\ <<f, "files">> \notin Last(stack').gaps
<1> DEFINE q == stack'
<1>1. IsList(q) /\ Len(q) \in Nat /\ Len(q) # 0
  BY ChainedIs
<1>2. \A g \in UNION {q[i].gaps : i \in DOMAIN q} : g[2] \notin {"deep", "files"}
  BY DEF WithinLimits
<1> HIDE DEF q
<1>3. DOMAIN q = 1 .. Len(q)
  BY <1>1 DEF IsList
<1>4. Len(q) \in DOMAIN q /\ Last(q) = q[Len(q)]
  BY <1>1, <1>3 DEF Last
<1>5. \A g \in Last(q).gaps : g[2] \notin {"deep", "files"}
  BY <1>2, <1>4
<1>6. \A why : <<f, why>> \in Last(q).gaps => why \notin {"deep", "files"}
  BY <1>5
<1>7. <<f, "deep">> \notin Last(q).gaps /\ <<f, "files">> \notin Last(q).gaps
  BY <1>6
<1> QED
  BY <1>7 DEF q

LEMMA UpdatedTop ==
  ASSUME NEW q, IsList(q), NEW frame, stack' = Append(q, frame), Chained(stack'), WithinLimits', NEW f
  PROVE  <<f, "deep">> \notin frame.gaps /\ <<f, "files">> \notin frame.gaps
<1>1. stack' # << >> /\ Last(stack') = frame
  BY AppendIs
<1> QED
  BY <1>1, NoLimitHit

-----------------------------------------------------------------------------
(* Its includes.                                                           *)

LEMMA ReferenceIs ==
  ASSUME WrittenDocs, NEW frame, IsActivation(frame), IncludePhase(frame),
         frame.entry <= Len(Entries(frame.file))
  PROVE  Reference(frame) \in Included(frame.file)
<1> DEFINE f == frame.file
<1>1. f \in File /\ IsDocument(docs[f])
  BY DEF IsActivation, IsOpen
<1>2. frame.entry \in Nat \ {0} /\ frame.ref \in Nat \ {0} /\ frame.ref <= Len(Entries(f)[frame.entry])
  BY DEF IncludePhase
<1>3. frame.entry \in DOMAIN Entries(f)
  BY <1>1, <1>2, EntriesAre
<1>4. frame.ref \in DOMAIN Entries(f)[frame.entry]
  BY <1>1, <1>2, <1>3, EntriesAre
<1> QED
  BY <1>1, <1>3, <1>4, EntriesAre DEF Reference

LEMMA PlaceIs ==
  ASSUME NEW frame, IsActivation(frame), Placed(frame)
  PROVE  Place(frame) \in Nodes /\ Usable(Place(frame)) /\ Place(frame) \in Fine
BY DEF Place, Placed, IsActivation, IsOpen, Usable, Node, Nodes

LEMMA IncludedIsFine ==
  ASSUME WrittenDocs, NEW frame, IsActivation(frame), Placed(frame), NEW g \in Included(frame.file)
  PROVE  /\ Node(g, Full) \in Fine /\ Node(g, Full) \in Nodes /\ Node(g, Full) \in Under(Place(frame))
         /\ g \in File /\ (IsDocument(docs[g]) \/ docs[g] = Blank) /\ g \notin frame.inc
<1> DEFINE n == Node(g, Full)
<1>1. Place(frame) \in Nodes /\ Usable(Place(frame)) /\ Place(frame) \in Fine
  BY PlaceIs
<1>2. n \in Needs(Place(frame))
  BY NeedsHas DEF Place
<1>3. n \in Fine /\ n \in Under(Place(frame))
  BY <1>1, <1>2, FineSound, UnderIs
<1>4. n \in Nodes /\ Readable(n)
  BY <1>3, FineSound DEF Sound
<1>5. n.file = g
  BY DEF Node
<1>6. g \in File /\ (IsDocument(docs[g]) \/ docs[g] = Blank)
  BY <1>4, <1>5 DEF Readable, Usable
<1>7. ~Above(n, Place(frame))
  BY <1>1, <1>3, NotAbove
<1> QED
  BY <1>3, <1>4, <1>6, <1>7 DEF Placed

LEMMA AskedGathers ==
  ASSUME NEW frame, IsActivation(frame), Clear(frame, {}), frame.phase = "include"
  PROVE  /\ Placed(Asked(frame)) /\ Gathered(Asked(frame), {Reference(frame)})
         /\ Asked(frame).phase = "include"
<1> DEFINE m == Asked(frame)
<1>1. /\ m.file = frame.file /\ m.want = frame.want /\ m.inc = frame.inc /\ m.ext = frame.ext
      /\ m.gaps = frame.gaps /\ m.entry = frame.entry /\ m.ref = frame.ref
      /\ m.part = frame.part /\ m.parts = frame.parts /\ m.phase = frame.phase
      /\ m.folded = frame.folded \cup {Identity(frame)}
  BY DEF Asked, IsActivation, Fields
<1>2. Identity(frame)[1] = Reference(frame)
  BY DEF Identity
<1> HIDE DEF m
<1>3. Placed(m)
  BY <1>1, PlacedSame DEF SameChains, Clear
<1>4. Held(m) = Held(frame)
  BY <1>1 DEF Held
<1>5. Gathered(frame, {})
  BY DEF Clear
<1>6. Gathered(m, {Reference(frame)})
  BY <1>1, <1>2, <1>4, <1>5 DEF Gathered
<1> QED
  BY <1>1, <1>3, <1>6 DEF m

(* An activation that starts, below the one that calls it.                 *)
LEMMA FrameClear ==
  ASSUME WrittenDocs, NEW f \in File, IsDocument(docs[f]), NEW want \in Service \cup {Full},
         NEW env, NEW depth, NEW inc, NEW ext, NEW budget,
         Node(f, want) \in Fine, want # Full => Extended(f),
         \A g \in inc : Node(g, Full) \in Nodes /\ Above(Node(g, Full), Node(f, want)),
         \A p \in ext : Node(p[1], p[2]) \in Nodes /\ Above(Node(p[1], p[2]), Node(f, want))
  PROVE  Clear(Frame(f, want, env, depth, inc, ext, budget), {})
<1> DEFINE data == Parsed(f, env)
           F == Frame(f, want, env, depth, inc, ext, budget)
<1> HIDE DEF data
<1>1. /\ F.file = f /\ F.want = want /\ F.inc = inc /\ F.ext = ext /\ F.gaps = {}
      /\ F.phase = "include" /\ F.entry = 1 /\ F.ref = 1 /\ F.folded = {} /\ F.part = << >> /\ F.parts = << >>
  BY DEF Frame
<1> HIDE DEF F
<1>2. Placed(F)
  BY <1>1 DEF Placed, Place
<1>3. Len(Entries(f)) \in Nat /\ \A i \in DOMAIN Entries(f) : /\ i \in Nat \ {0}
                                   /\ \A j \in DOMAIN Entries(f)[i] : j \in Nat \ {0}
  BY EntriesAre
<1>4. \A i \in DOMAIN Entries(f) : \A j \in DOMAIN Entries(f)[i] : ~(i < 1) /\ ~(j < 1)
  BY <1>3
<1>5. Gathered(F, {})
  BY <1>1, <1>4, HeldNone DEF Gathered
<1>6. Clear(F, {})
  BY <1>1, <1>2, <1>5 DEF Clear
<1> QED
  BY <1>6 DEF F

LEMMA IncludeClears ==
  ASSUME WrittenDocs, Chained(stack), Resting(stack), AllClear(stack), WithinLimits',
         IncludeRefused \/ IncludeAgain \/ IncludeOpen
  PROVE  AllClear(stack')
<1> DEFINE f == Top.file
           g == Reference(Top)
<1>1. stack # << >> /\ Top.phase = "include" /\ Top.entry <= Len(Entries(f))
  BY DEF IncludeRefused, IncludeAgain, IncludeOpen, Including
<1>2. IsActivation(Top) /\ IncludePhase(Top) /\ Clear(Top, {})
  BY <1>1, TopReady, PhaseIs DEF AllClear, Top
<1>3. Placed(Top) /\ Gathered(Top, {})
  BY <1>1, <1>2 DEF Clear
<1>4. g \in Included(f)
  BY <1>1, <1>2, ReferenceIs
<1>5. /\ Node(g, Full) \in Fine /\ Node(g, Full) \in Nodes /\ Node(g, Full) \in Under(Place(Top))
      /\ g \in File /\ (IsDocument(docs[g]) \/ docs[g] = Blank) /\ g \notin Top.inc
  BY <1>2, <1>3, <1>4, IncludedIsFine
<1>6. Chained(stack') /\ IsList(Below)
  BY <1>1, IncludeCarries, ChainedIs, FrontIs DEF Carried, Below
<1>7. ASSUME NEW frame, Update(frame)
      PROVE  <<f, "deep">> \notin frame.gaps /\ <<f, "files">> \notin frame.gaps
  <2>1. stack' = Append(Below, frame)
    BY <1>7 DEF Update
  <2> QED
    BY <1>6, <2>1, UpdatedTop
<1> DEFINE a == Asked(Top)
<1>8. ASSUME NEW frame, IsActivation(frame), NEW why, frame.file = f
      PROVE  <<f, why>> \in Advance(Missed(frame, why)).gaps
  <2> DEFINE m == Missed(frame, why)
  <2>1. <<f, why>> \in m.gaps
    BY <1>8 DEF Missed, IsActivation, Fields
  <2>2. IsActivation(m)
    BY <1>8, MissedIs DEF Keeps
  <2> HIDE DEF m
  <2>3. Advance(m).gaps = m.gaps
    BY <2>2, AdvanceIs
  <2> QED
    BY <2>1, <2>3 DEF m
<1>9. /\ IsActivation(a) /\ IncludePhase(a) /\ Placed(a) /\ Gathered(a, {g}) /\ a.phase = "include"
      /\ a.entry <= Len(Entries(a.file)) /\ a.file = f /\ Reference(a) = g
  BY <1>1, <1>2, AskedIs, AskedGathers DEF Keeps
<1>10. CASE IncludeRefused
  <2>1. Deep(Top) \/ g = Away \/ g \in Top.inc
    BY <1>10 DEF IncludeRefused
  <2>2. Deep(Top)
    BY <1>5, <2>1, LoadAssumption
  <2>3. Update(Advance(Missed(Top, "deep")))
    BY <1>10, <2>2 DEF IncludeRefused
  <2> QED
    BY <1>2, <1>7, <1>8, <2>3
<1>11. CASE IncludeAgain
  <2>1. Update(Advance(Top)) /\ Identity(Top) \in Top.folded
    BY <1>11 DEF IncludeAgain
  <2>2. Identity(Top)[1] = g
    BY DEF Identity
  <2>3. MentionedBy(g) \subseteq Held(Top)
    BY <1>3, <2>1, <2>2 DEF Gathered
  <2>4. Gathered(Top, {g})
    BY <1>3 DEF Gathered
  <2>5. Gathered(Advance(Top), {})
    BY <1>1, <1>2, <2>3, <2>4, AdvanceGathers
  <2>6. Placed(Advance(Top)) /\ Advance(Top).phase = "include"
    BY <1>1, <1>2, <1>3, AdvancePlaced, AdvanceIs
  <2>7. Clear(Advance(Top), {})
    BY <2>5, <2>6 DEF Clear
  <2> QED
    BY <1>1, <2>1, <2>7, UpdateClears
<1>12. CASE IncludeOpen
  <2> DEFINE blank == [data |-> Nothing, tags |-> NoTags]
             callee(b) == IncludeFrame(Top, b)
  <2>1. \/ Update(Advance(Missed(a, "files")))
        \/ docs[g] \in {Unreadable, NotCompose}
        \/ docs[g] = Blank /\ Update(Receive(a, blank))
        \/ \E b : IsDocument(docs[g]) /\ Call(a, callee(b))
    BY <1>12 DEF IncludeOpen, Asked
  <2> HIDE DEF a, g, callee
  <2>2. ~Update(Advance(Missed(a, "files")))
    BY <1>7, <1>8, <1>9
  <2>3. CASE docs[g] = Blank /\ Update(Receive(a, blank))
    <3>1. ~IsDocument(docs[g])
      BY <2>3 DEF IsDocument
    <3>2. MentionedBy(g) = {}
      BY <1>5, <3>1, MentionedOnly
    <3>3. /\ Says(blank.data, MentionedBy(a.file), MappedBelow(a.file))
          /\ Aims(blank.data, Service, LentBelow(a.file))
      BY NothingSays DEF Aims, Inherits, HasBody, Nothing
    <3> HIDE DEF blank
    <3>4. Clear(Receive(a, blank), {})
      BY <1>9, <3>2, <3>3, ReceiveGathers
    <3> QED
      BY <1>1, <2>3, <3>4, UpdateClears
  <2>4. CASE \E b : IsDocument(docs[g]) /\ Call(a, callee(b))
    <3>1. PICK b : IsDocument(docs[g]) /\ Call(a, callee(b))
      BY <2>4
    <3> DEFINE n == Node(g, Full)
               inc == Top.inc \cup {g}
               none == {}
    <3>2. Place(Top) \in Nodes /\ Usable(Place(Top))
      BY <1>2, <1>3, PlaceIs
    <3>3. ASSUME NEW x \in inc
          PROVE  Node(x, Full) \in Nodes /\ Above(Node(x, Full), n)
      <4>1. CASE x = g
        BY <1>5, <4>1 DEF Above
      <4>2. CASE x # g
        <5>1. x \in Top.inc
          BY <4>2
        <5>2. Node(x, Full) \in Nodes /\ Above(Node(x, Full), Place(Top))
          BY <1>3, <5>1 DEF Placed
        <5> QED
          BY <1>5, <3>2, <5>2, AboveOn
      <4> QED
        BY <4>1, <4>2
    <3> DEFINE env == <<EntryDir(Top)>> \o Top.env
               depth == Top.depth + 1
    <3>4. callee(b) = Frame(g, Full, env, depth, inc, none, b)
      BY DEF callee, IncludeFrame, g
    <3>5. /\ g \in File /\ IsDocument(docs[g]) /\ Full \in Service \cup {Full} /\ Node(g, Full) \in Fine
          /\ \A p \in none : Node(p[1], p[2]) \in Nodes /\ Above(Node(p[1], p[2]), Node(g, Full))
          /\ \A x \in inc : Node(x, Full) \in Nodes /\ Above(Node(x, Full), Node(g, Full))
      BY <1>5, <3>1, <3>3
    <3> HIDE DEF env, depth, inc, none
    <3>6. Clear(callee(b), {})
      BY <3>4, <3>5, FrameClear
    <3>7. Clear(a, {Reference(a)})
      BY <1>9 DEF Clear
    <3> QED
      BY <1>1, <3>1, <3>6, <3>7, CallClears
  <2>5. docs[g] \notin {Unreadable, NotCompose}
    BY <1>5, LoadAssumption DEF IsDocument
  <2> QED
    BY <2>1, <2>2, <2>3, <2>4, <2>5
<1> QED
  BY <1>10, <1>11, <1>12

-----------------------------------------------------------------------------
(* Past the includes.                                                      *)

(* What a document holds once all it includes is in: all its project says, *)
(* and no `extends:` but its own and those resolved below.                 *)
LEMMA FoldedIn ==
  ASSUME WrittenDocs, ~Mixed, NEW frame, IsActivation(frame), IncludePhase(frame),
         Gathered(frame, {}), frame.entry > Len(Entries(frame.file)), NEW D,
         D = IF frame.parts = << >> THEN frame.data ELSE Fold(frame)
  PROVE  /\ Folds(frame.file, D)
         /\ MentionedBy(frame.file) \subseteq Present(D)
         /\ Aims(D, Service, LentBy(frame.file))
         /\ \A s \in Service : Inherits(D[s]) /\ OwnExt(frame.file, s) = NoExt =>
              /\ s \in AlreadyResolved(frame)
              /\ HasFile(D[s].ext) \/ <<s, D[s].ext.svc>> \in LentBelow(frame.file)
<1> DEFINE f == frame.file
           d == frame.data
           ps == frame.parts
           A == MentionedBy(f)
           B == MappedBelow(f)
           E == {s \in Service : \E i \in DOMAIN ps : Inherits(ps[i].data[s])}
           L == LentBelow(f)
<1>1. f \in File /\ IsDocument(docs[f])
  BY DEF IsActivation, IsOpen
<1>2. d = Parsed(f, frame.env) /\ Documents(ps, A, B) /\ frame.entry \in Nat
  BY DEF IncludePhase
<1>3. /\ Declared(f) \subseteq Present(d)
      /\ \A s \in Service : Inherits(d[s]) => OwnExt(f, s) # NoExt /\ d[s].ext = OwnExt(f, s)
      /\ Aims(d, Service, LentBy(f))
      /\ Folds(f, d)
  BY <1>1, <1>2, ParsedAims, ParsedFolds
<1>4. LentBelow(f) \subseteq LentBy(f)
  BY <1>1, LentOn
<1>5. ASSUME NEW g \in Included(f)
      PROVE  MentionedBy(g) \subseteq Held(frame)
  <2>1. PICK i \in DOMAIN Entries(f) : g \in ToSet(Entries(f)[i])
    BY DEF Included
  <2>2. \E j \in DOMAIN Entries(f)[i] : g = Entries(f)[i][j]
    BY <2>1 DEF ToSet
  <2>3. i <= Len(Entries(f)) /\ i \in Nat /\ Len(Entries(f)) \in Nat
    BY <1>1, <2>1, EntriesAre
  <2>4. i < frame.entry
    BY <1>2, <2>3
  <2> QED
    BY <2>1, <2>2, <2>4 DEF Gathered
<1>6. Held(frame) = HeldBy(ps)
  BY HeldNone DEF Gathered, Held
<1>7. A \subseteq Declared(f) \cup HeldBy(ps)
  <2>1. A \subseteq Declared(f) \cup UNION {MentionedBy(g) : g \in Included(f) \cap File}
    BY <1>1, MentionedOnly
  <2> HIDE DEF A
  <2> QED
    BY <1>5, <1>6, <2>1
<1>8. AllAim(ps, Service, L)
  BY DEF Gathered
<1>9. DOMAIN ps = 1 .. Len(ps)
  BY <1>2 DEF Documents
<1>10. AllAim(ps, E, L)
  BY <1>8, <1>9 DEF AllAim, Aims
<1>11. ASSUME NEW s \in E, OwnExt(f, s) = NoExt
       PROVE  s \in AlreadyResolved(frame)
  <2>1. s \in Service /\ ~Inherits(d[s])
    BY <1>3, <1>11
  <2>2. \E i \in DOMAIN ps : Inherits(ps[i].data[s])
    BY <1>11
  <2> QED
    BY <2>1, <2>2 DEF AlreadyResolved, Inherits
<1> HIDE DEF E
<1>12. CASE ps = << >>
  <2>1. D = d
    BY <1>12
  <2>2. HeldBy(ps) = {}
    BY <1>12, HeldNone
  <2> HIDE DEF d
  <2> QED
    BY <1>3, <1>7, <2>1, <2>2
<1>13. CASE ps # << >>
  <2>1. D = Fold(frame)
    BY <1>13
  <2>2. Folds(f, D)
    BY <1>1, <1>2, <2>1, FoldFolds
  <2>3. PICK m : /\ Says(m, A, B) /\ Aims(m, E, L) /\ HeldBy(ps) \subseteq Present(m)
                 /\ Fold(frame) = MergeServices(m, d, NoTags)
    BY <1>2, <1>10, FoldAims
  <2> DEFINE C == B \cup MappedBy(f)
  <2>4. Says(m, A, C) /\ Says(d, A, C)
    <3>1. Says(d, A, MappedBy(f))
      BY <1>3 DEF Folds
    <3> HIDE DEF A, B, d
    <3> QED
      BY <2>3, <3>1, SaysMore
  <2> HIDE DEF A, B, C, d, L, ps, f
  <2>5. /\ Present(m) \cup Present(d) \subseteq Present(D)
        /\ \A s \in Service :
             ~Inherits(d[s]) /\ Inherits(D[s]) => Inherits(m[s]) /\ D[s].ext = m[s].ext
    BY <2>1, <2>3, <2>4, MergeServicesAims
  <2>6. A \subseteq Present(D)
    BY <1>3, <1>7, <2>3, <2>5
  <2>7. ASSUME NEW s \in Service, Inherits(D[s]), OwnExt(f, s) = NoExt
        PROVE  s \in AlreadyResolved(frame) /\ (HasFile(D[s].ext) \/ <<s, D[s].ext.svc>> \in L)
    <3>1. Inherits(m[s]) /\ D[s].ext = m[s].ext
      BY <1>3, <2>5, <2>7
    <3>2. s \in E /\ (HasFile(m[s].ext) \/ <<s, m[s].ext.svc>> \in L)
      BY <2>3, <3>1 DEF Aims
    <3> QED
      BY <1>11, <2>7, <3>1, <3>2
  <2>8. Aims(D, Service, LentBy(f))
    <3>1. Aims(m, Service, LentBy(f))
      BY <1>4, <2>3 DEF Aims, L
    <3> QED
      BY <1>3, <2>1, <2>3, <2>4, <3>1, BothAim
  <2> QED
    BY <2>2, <2>6, <2>7, <2>8 DEF A, L, f
<1> QED
  BY <1>12, <1>13

(* In a document loaded for one service, the chain that is kept follows    *)
(* the document's own bases and leaves it at a service resolved below,     *)
(* whose base is not redefined here.                                       *)
LEMMA ChainIsDue ==
  ASSUME WrittenDocs, ~Borrowed, NEW frame, IsActivation(frame), Placed(frame), frame.want # Full,
         NEW D, Folds(frame.file, D),
         \A s \in Service : Inherits(D[s]) /\ OwnExt(frame.file, s) = NoExt =>
           HasFile(D[s].ext) \/ <<s, D[s].ext.svc>> \in LentBelow(frame.file),
         NEW t \in Chain(D, frame.want), OwnExt(frame.file, t) # NoExt
  PROVE  Above(Place(frame), Node(frame.file, t))
<1> DEFINE f == frame.file
           want == frame.want
           P == Place(frame)
           declared == {s \in Service : D[s] # NoService}
           Closed(S) == \A s \in S : InFileTarget(D[s]) \cap declared \subseteq S
           S == {s \in declared : OwnExt(f, s) = NoExt \/ Above(P, Node(f, s))}
<1>1. f \in File /\ IsDocument(docs[f]) /\ want \in Service
  BY DEF IsActivation, IsOpen
<1>2. Extended(f) /\ P \in Nodes /\ Usable(P)
  BY PlaceIs DEF Placed
<1>3. P = Node(f, want)
  BY DEF Place
<1>4. {want} \cap declared \subseteq S
  BY <1>3 DEF Above
<1>5. ASSUME NEW s \in S, NEW u \in InFileTarget(D[s]) \cap declared
      PROVE  u \in S
  <2>1. /\ HasBody(D[s]) /\ D[s].ext.form # "none" /\ ~HasFile(D[s].ext) /\ u = D[s].ext.svc
        /\ u \in Service /\ s \in Service
    BY <1>5 DEF InFileTarget, HasFile
  <2>2. Inherits(D[s])
    BY <2>1 DEF Inherits, NoExt
  <2>3. CASE OwnExt(f, s) # NoExt
    <3>1. D[s].ext = OwnExt(f, s)
      BY <2>1, <2>3 DEF Folds
    <3>2. BaseOf(f, s) = Node(f, u)
      BY <2>1, <3>1 DEF BaseOf
    <3>3. BaseOf(f, s) \in Needs(Node(f, s))
      BY <2>1, <2>3, NeedsHas
    <3>4. Node(f, s) \in Nodes /\ Usable(Node(f, s)) /\ Above(P, Node(f, s))
      BY <1>1, <1>5, <2>1, <2>3 DEF Node, Nodes, Usable
    <3>5. Node(f, u) \in Under(Node(f, s))
      BY <3>2, <3>3, <3>4, UnderIs
    <3>6. Above(P, Node(f, u))
      BY <1>2, <3>4, <3>5, AboveOn
    <3> QED
      BY <1>5, <3>6
  <2>4. CASE OwnExt(f, s) = NoExt
    <3>1. <<s, u>> \in LentBelow(f)
      BY <2>1, <2>2, <2>4
    <3>2. PICK g \in Included(f) \cap File : Lends(g, s, u)
      BY <3>1 DEF LentBelow, LentBy
    <3>3. OwnExt(f, u) = NoExt
      BY <1>1, <1>2, <2>1, <3>2 DEF Borrowed
    <3> QED
      BY <1>5, <3>3
  <2> QED
    BY <2>3, <2>4
<1>6. Closed(S) /\ S \in SUBSET declared
  BY <1>5
<1>7. Chain(D, want) = {x \in declared : \A X \in SUBSET declared :
                          {want} \cap declared \subseteq X /\ Closed(X) => x \in X}
  BY Zenon DEF Chain
<1> HIDE DEF S, Closed, declared
<1>8. t \in S
  BY <1>4, <1>6, <1>7
<1> QED
  BY <1>8 DEF S

LEMMA FoldClears ==
  ASSUME WrittenDocs, ~Mixed, ~Borrowed, Chained(stack), Resting(stack), AllClear(stack), IncludesDone
  PROVE  AllClear(stack')
<1> DEFINE f == Top.file
           D == IF Top.parts = << >> THEN Top.data ELSE Fold(Top)
           S == AlreadyResolved(Top) \cup Unwanted(D, Top.want)
           T == {s \in Service \ S : CrossFile(D[s])}
           F == [Top EXCEPT !.phase = "extends", !.data = D, !.skip = S, !.todo = T]
<1>1. stack # << >> /\ Top.phase = "include" /\ Top.entry > Len(Entries(f)) /\ Update(F)
  BY DEF IncludesDone, Including
<1>2. IsActivation(Top) /\ IncludePhase(Top) /\ Placed(Top) /\ Gathered(Top, {})
  BY <1>1, TopReady, PhaseIs DEF AllClear, Top, Clear
<1>3. /\ Folds(f, D) /\ MentionedBy(f) \subseteq Present(D) /\ Aims(D, Service, LentBy(f))
      /\ \A s \in Service : Inherits(D[s]) /\ OwnExt(f, s) = NoExt =>
           /\ s \in AlreadyResolved(Top)
           /\ HasFile(D[s].ext) \/ <<s, D[s].ext.svc>> \in LentBelow(f)
  BY <1>1, <1>2, FoldedIn
<1> HIDE DEF D
<1>4. /\ F.file = f /\ F.want = Top.want /\ F.inc = Top.inc /\ F.ext = Top.ext /\ F.gaps = Top.gaps
      /\ F.phase = "extends" /\ F.data = D /\ F.skip = S /\ F.todo = T
  <2> HIDE DEF S, T
  <2> QED
    BY <1>2 DEF IsActivation, Fields
<1>5. ASSUME NEW s \in Service \ S, Inherits(D[s])
      PROVE  OwnExt(f, s) # NoExt /\ (Top.want = Full \/ Above(Place(Top), Node(f, s)))
  <2>1. OwnExt(f, s) # NoExt
    BY <1>3, <1>5
  <2>2. CASE Top.want # Full
    <3>1. s \in Chain(D, Top.want)
      BY <1>5, <2>2 DEF Unwanted
    <3> QED
      BY <1>2, <1>3, <2>1, <2>2, <3>1, ChainIsDue
  <2> QED
    BY <2>1, <2>2
<1>6. T \cap S = {}
  OBVIOUS
<1>7. Update(F)
  BY <1>1 DEF D
<1> HIDE DEF F, S, T
<1>8. Place(F) = Place(Top) /\ Placed(F)
  BY <1>2, <1>4, PlacedSame DEF SameChains, Place
<1>9. \A s \in Service \ F.skip : Inherits(F.data[s]) => Due(F, s)
  BY <1>4, <1>5, <1>8 DEF Due
<1>10. Based(F)
  BY <1>3, <1>4, <1>6, <1>9 DEF Based
<1>11. Clear(F, {})
  BY <1>4, <1>8, <1>10 DEF Clear
<1> QED
  BY <1>1, <1>7, <1>11, UpdateClears

-----------------------------------------------------------------------------
(* Bases.                                                                  *)

(* The base of a service that is due is fine, and below.                   *)
LEMMA DueIsFine ==
  ASSUME WrittenDocs, NEW frame, IsActivation(frame), Placed(frame), NEW s \in Service, Due(frame, s)
  PROVE  /\ BaseOf(frame.file, s) \in Fine /\ BaseOf(frame.file, s) \in Nodes
         /\ BaseOf(frame.file, s) \in Under(Place(frame))
         /\ BaseOf(frame.file, s) \in Needs(Node(frame.file, s))
<1> DEFINE f == frame.file
           P == Place(frame)
           b == BaseOf(f, s)
           n == Node(f, s)
<1>1. f \in File /\ IsDocument(docs[f])
  BY DEF IsActivation, IsOpen
<1>2. P \in Nodes /\ Usable(P) /\ P \in Fine
  BY PlaceIs
<1>3. n \in Nodes /\ Usable(n)
  BY <1>1 DEF Node, Nodes, Usable
<1>4. b \in Needs(n)
  BY NeedsHas DEF Due
<1>5. b \in Under(P)
  <2>1. CASE frame.want = Full
    <3>1. b \in Needs(P)
      BY <2>1, NeedsHas DEF Due, Place
    <3> QED
      BY <1>2, <3>1, UnderIs
  <2>2. CASE frame.want # Full
    <3>1. Above(P, n) /\ b \in Under(n)
      BY <1>3, <1>4, <2>2, UnderIs DEF Due
    <3> QED
      BY <1>2, <1>3, <3>1, AboveOn
  <2> QED
    BY <2>1, <2>2
<1>6. b \in Fine
  BY <1>2, <1>5, FineUnder
<1> QED
  BY <1>4, <1>5, <1>6, FineSound

LEMMA BaseIsFine ==
  ASSUME WrittenDocs, NEW frame, IsActivation(frame), ExtendPhase(frame), Placed(frame), Based(frame),
         NEW s \in frame.todo
  PROVE  LET b == Base(frame, s)
         IN  /\ Node(b[1], b[2]) \in Fine /\ Node(b[1], b[2]) \in Nodes
             /\ Node(b[1], b[2]) \in Under(Place(frame))
             /\ b[1] \in File /\ IsDocument(docs[b[1]]) /\ b[2] \in Service
             /\ Extended(b[1]) /\ b \notin frame.ext
<1> DEFINE f == frame.file
           b == Base(frame, s)
           n == Node(b[1], b[2])
<1>1. s \in Service /\ CrossFile(frame.data[s]) /\ s \notin frame.skip
  BY DEF ExtendPhase, Based
<1>2. /\ IsBody(frame.data[s]) /\ HasFile(frame.data[s].ext) /\ frame.data[s].ext # NoExt
      /\ b[1] \in File \cup {Away} /\ b[2] \in Service
      /\ b = <<frame.data[s].ext.file, frame.data[s].ext.svc>>
  BY <1>1, CrossFileIs
<1>3. Inherits(frame.data[s])
  BY <1>2, BodyIsSaid DEF Inherits
<1>4. Due(frame, s)
  BY <1>1, <1>3 DEF Based
<1>5. frame.data[s].ext = OwnExt(f, s) /\ OwnExt(f, s) # NoExt
  BY <1>1, <1>4 DEF Due, ExtendPhase, Folds
<1>6. b[1] = OwnExt(f, s).file /\ b[2] = OwnExt(f, s).svc /\ HasFile(OwnExt(f, s))
  BY <1>2, <1>5
<1> HIDE DEF b
<1>7. BaseOf(f, s) = n
  BY <1>6 DEF BaseOf
<1>8. n \in Fine /\ n \in Nodes /\ n \in Under(Place(frame))
  BY <1>1, <1>4, <1>7, DueIsFine
<1>9. Sound(n) /\ n.file = b[1] /\ n.svc = b[2] /\ b[2] # Full
  BY <1>2, <1>8, FineSound, LoadAssumption DEF Node
<1>10. b[1] \in File /\ IsDocument(docs[b[1]])
  BY <1>9 DEF Sound, Readable, Usable
<1>11. frame.file \in File /\ IsDocument(docs[frame.file])
  BY DEF IsActivation, IsOpen
<1>12. Extended(b[1])
  BY <1>1, <1>6, <1>11 DEF Extended, HasFile
<1>13. b \notin frame.ext
  <2>1. ~Above(n, Place(frame))
    BY <1>8, PlaceIs, NotAbove
  <2> QED
    BY <2>1 DEF Placed
<1> QED
  BY <1>2, <1>8, <1>10, <1>12, <1>13 DEF b

LEMMA ExtendClears ==
  ASSUME WrittenDocs, Chained(stack), Resting(stack), AllClear(stack), WithinLimits',
         ExtendRefused \/ ExtendOpen
  PROVE  AllClear(stack')
<1> DEFINE f == Top.file
<1>1. stack # << >> /\ Top.phase = "extends"
  BY DEF ExtendRefused, ExtendOpen, Extending
<1>2. IsActivation(Top) /\ ExtendPhase(Top) /\ Placed(Top) /\ Based(Top)
  BY <1>1, TopReady, PhaseIs DEF AllClear, Top, Clear
<1>3. Chained(stack') /\ IsList(Below)
  BY <1>1, ExtendCarries, ChainedIs, FrontIs DEF Carried, Below
<1>4. ASSUME NEW frame, Update(frame)
      PROVE  <<f, "deep">> \notin frame.gaps /\ <<f, "files">> \notin frame.gaps
  <2>1. stack' = Append(Below, frame)
    BY <1>4 DEF Update
  <2> QED
    BY <1>3, <2>1, UpdatedTop
<1>5. CASE ExtendRefused
  <2>1. PICK s \in Top.todo :
          /\ Deep(Top) \/ Base(Top, s)[1] = Away \/ Base(Top, s) \in Top.ext
          /\ Update([Missed(Top, IF Deep(Top) THEN "deep"
                                 ELSE IF Base(Top, s)[1] = Away THEN "away" ELSE "cycle")
                       EXCEPT !.todo = @ \ {s}])
    BY <1>5 DEF ExtendRefused
  <2>2. Base(Top, s)[1] \in File /\ Base(Top, s) \notin Top.ext
    BY <1>2, BaseIsFine
  <2>3. Deep(Top)
    BY <2>1, <2>2, LoadAssumption
  <2> DEFINE F == [Missed(Top, "deep") EXCEPT !.todo = @ \ {s}]
  <2>4. Update(F)
    BY <2>1, <2>3
  <2>5. <<f, "deep">> \in F.gaps
    BY <1>2 DEF Missed, IsActivation, Fields
  <2> HIDE DEF F
  <2> QED
    BY <1>4, <2>4, <2>5
<1>6. CASE ExtendOpen
  <2> DEFINE asked(s) == [Top EXCEPT !.todo = @ \ {s}]
             waiting(s) == [asked(s) EXCEPT !.at = {s}]
             callee(s, c) == BaseFrame(Top, Base(Top, s), c)
  <2>1. PICK s \in Top.todo :
          \/ Update(Missed(asked(s), "files"))
          \/ ~IsDocument(docs[Base(Top, s)[1]])
          \/ \E c : Call(waiting(s), callee(s, c))
    BY <1>6 DEF ExtendOpen
  <2> DEFINE a == asked(s)
             w == waiting(s)
             b == Base(Top, s)
             n == Node(b[1], b[2])
  <2>2. /\ n \in Fine /\ n \in Nodes /\ n \in Under(Place(Top))
        /\ b[1] \in File /\ IsDocument(docs[b[1]]) /\ b[2] \in Service
        /\ Extended(b[1]) /\ b \notin Top.ext
    BY <1>2, BaseIsFine
  <2>3. CASE Update(Missed(a, "files"))
    <3> DEFINE m == Missed(a, "files")
    <3>1. <<f, "files">> \in m.gaps
      BY <1>2 DEF Missed, IsActivation, Fields
    <3> HIDE DEF m
    <3> QED
      BY <1>4, <2>3, <3>1 DEF m
  <2>4. CASE \E c : Call(w, callee(s, c))
    <3>1. PICK c : Call(w, callee(s, c))
      BY <2>4
    <3> DEFINE k == callee(s, c)
               ext == Top.ext \cup {b}
               none == {}
               depth == Top.depth + 1
    <3>2. Place(Top) \in Nodes /\ Usable(Place(Top))
      BY <1>2, PlaceIs
    <3>3. ASSUME NEW p \in ext
          PROVE  Node(p[1], p[2]) \in Nodes /\ Above(Node(p[1], p[2]), n)
      <4>1. CASE p = b
        BY <2>2, <4>1 DEF Above
      <4>2. CASE p # b
        <5>1. p \in Top.ext
          BY <4>2
        <5>2. Node(p[1], p[2]) \in Nodes /\ Above(Node(p[1], p[2]), Place(Top))
          BY <1>2, <5>1 DEF Placed
        <5> QED
          BY <2>2, <3>2, <5>2, AboveOn
      <4> QED
        BY <4>1, <4>2
    <3>4. k = Frame(b[1], b[2], Top.env, depth, none, ext, c)
      BY DEF BaseFrame
    <3>5. /\ b[1] \in File /\ IsDocument(docs[b[1]]) /\ b[2] \in Service \cup {Full}
          /\ Node(b[1], b[2]) \in Fine /\ (b[2] # Full => Extended(b[1]))
          /\ \A p \in ext : Node(p[1], p[2]) \in Nodes /\ Above(Node(p[1], p[2]), Node(b[1], b[2]))
          /\ \A g \in none : Node(g, Full) \in Nodes /\ Above(Node(g, Full), Node(b[1], b[2]))
      BY <2>2, <3>3
    <3> HIDE DEF k, ext, none, depth, b
    <3>6. Clear(k, {})
      BY <1>2, <3>4, <3>5, FrameClear
    <3>7. /\ w.file = f /\ w.want = Top.want /\ w.inc = Top.inc /\ w.ext = Top.ext /\ w.gaps = Top.gaps
          /\ w.phase = "extends" /\ w.data = Top.data /\ w.skip = Top.skip /\ w.todo = Top.todo \ {s}
      BY <1>1, <1>2 DEF IsActivation, Fields
    <3> HIDE DEF w
    <3>8. Place(w) = Place(Top) /\ Placed(w)
      BY <1>2, <3>7, PlacedSame DEF SameChains, Place
    <3>9. \A t : Due(Top, t) => Due(w, t)
      BY <3>7, <3>8 DEF Due
    <3>10. Based(w)
      BY <1>2, <3>7, <3>9 DEF Based
    <3>11. Clear(w, {})
      BY <3>7, <3>8, <3>10 DEF Clear
    <3>12. Clear(w, {Reference(w)})
      BY <3>11, ClearWaits
    <3> QED
      BY <1>1, <3>1, <3>6, <3>12, CallClears DEF k
  <2> QED
    BY <2>1, <2>2, <2>3, <2>4
<1> QED
  BY <1>5, <1>6

-----------------------------------------------------------------------------
(* What a finished activation hands back.                                  *)

(* A base in the same file is there, and fine.                             *)
LEMMA TargetIsFine ==
  ASSUME WrittenDocs, NEW frame, IsActivation(frame), ExtendPhase(frame), Placed(frame), Based(frame),
         NEW s \in Service, NEW t \in Target(frame, s)
  PROVE  /\ t \in Service /\ frame.data[t] # NoService
         /\ Node(frame.file, t) \in Fine /\ Node(frame.file, t) \in Needs(Node(frame.file, s))
<1> DEFINE f == frame.file
           d == frame.data
           n == Node(f, t)
<1>1. Says(d, MentionedBy(f), MappedBy(f))
  BY DEF ExtendPhase, Folds
<1>2. /\ t \in Service /\ s \notin frame.skip /\ IsBody(d[s]) /\ d[s].ext # NoExt
      /\ t = d[s].ext.svc /\ t \in InFileTarget(d[s])
  BY <1>1, TargetIs
<1>3. Inherits(d[s]) /\ ~HasFile(d[s].ext)
  BY <1>2, BodyIsSaid DEF Inherits, InFileTarget, HasFile
<1>4. Due(frame, s)
  BY <1>2, <1>3 DEF Based
<1>5. d[s].ext = OwnExt(f, s)
  BY <1>4 DEF Due, ExtendPhase, Folds
<1> HIDE DEF d
<1>6. BaseOf(f, s) = n
  BY <1>2, <1>3, <1>5 DEF BaseOf
<1>7. n \in Fine /\ n \in Needs(Node(f, s))
  BY <1>4, <1>6, DueIsFine
<1>8. Sound(n) /\ n.file = f /\ n.svc = t /\ t # Full
  BY <1>2, <1>7, FineSound, LoadAssumption DEF Node
<1>9. Mentions(f, t)
  BY <1>8 DEF Sound
<1>10. d[t] # NoService
  BY <1>2, <1>9 DEF Based, MentionedBy, Present, d
<1> QED
  BY <1>2, <1>7, <1>10 DEF d

(* So no chain of them comes back to where it started.                     *)
LEMMA NothingCycles ==
  ASSUME WrittenDocs, NEW frame, IsActivation(frame), ExtendPhase(frame), Placed(frame), Based(frame),
         NEW s \in Service
  PROVE  ~OnCycle(frame, s)
<1> DEFINE f == frame.file
           n == Node(f, s)
           S == {t \in Service : Node(f, t) \in Under(n) /\ Node(f, t) \in Fine}
<1>1. f \in File /\ IsDocument(docs[f])
  BY DEF IsActivation, IsOpen
<1>2. \A t \in Service : Node(f, t) \in Nodes /\ Usable(Node(f, t))
  BY <1>1 DEF Node, Nodes, Usable
<1>3. Needs(n) \subseteq Under(n) /\ Onward(Under(n)) /\ Under(n) \in SUBSET Nodes
  BY <1>2, UnderIs
<1> HIDE DEF n
<1>4. Target(frame, s) \subseteq S
  BY <1>3, TargetIsFine DEF n
<1>5. ASSUME NEW t \in S
      PROVE  Target(frame, t) \subseteq S
  <2>1. Needs(Node(f, t)) \subseteq Under(n)
    BY <1>2, <1>3, <1>5 DEF Onward
  <2> QED
    BY <2>1, TargetIsFine
<1>6. S \in SUBSET Service
  OBVIOUS
<1>7. SUFFICES ASSUME OnCycle(frame, s)
               PROVE  FALSE
  OBVIOUS
<1>8. s \in S
  <2> HIDE DEF S
  <2> QED
    BY <1>4, <1>5, <1>6, <1>7 DEF OnCycle
<1>9. n \in Under(n) /\ n \in Fine /\ Usable(n)
  BY <1>2, <1>8 DEF n
<1> QED
  BY <1>9, FineNotUnder

LEMMA FinishedIsClear ==
  ASSUME WrittenDocs, NEW frame, IsActivation(frame), ExtendPhase(frame), Placed(frame), Based(frame),
         NEW cut \in Cuts(frame)
  PROVE  /\ ~Vacuous(frame)
         /\ Answer(frame, cut).gaps = {}
         /\ MentionedBy(frame.file) \subseteq Present(Answer(frame, cut).data)
         /\ Aims(Answer(frame, cut).data, Service, LentBy(frame.file))
<1> DEFINE f == frame.file
           d == frame.data
           P == Place(frame)
           D == Inherited(frame, cut)
           G == frame.gaps \cup {<<f, "cycle">> : s \in cut}
                           \cup {<<f, "noservice">> : s \in {t \in Service : Undeclared(frame, t)}}
<1>1. f \in File /\ IsDocument(docs[f])
  BY DEF IsActivation, IsOpen
<1>2. Says(d, MentionedBy(f), MappedBy(f)) /\ MentionedBy(f) \subseteq Present(d)
      /\ Aims(d, Service, LentBy(f))
  BY DEF ExtendPhase, Folds, Based
<1>3. Answer(frame, cut).data = D /\ Answer(frame, cut).gaps = G
  BY DEF Answer
<1>4. ~Vacuous(frame)
  <2> SUFFICES ASSUME Entries(f) # << >>
               PROVE  d # Nothing
    BY DEF Vacuous
  <2>1. \E g : g \in Included(f)
    <3>1. Len(Entries(f)) \in Nat /\ DOMAIN Entries(f) = 1 .. Len(Entries(f))
      BY <1>1, EntriesAre
    <3>2. Len(Entries(f)) # 0
      <4>1. Entries(f) \in Seq(Seq(File \cup {Away}) \ {<< >>})
        BY <1>1 DEF WrittenDocs, IsWritten, Entries
      <4> QED
        BY <4>1
    <3>3. 1 \in DOMAIN Entries(f)
      BY <3>1, <3>2
    <3>4. 1 \in DOMAIN Entries(f)[1]
      BY <1>1, <3>3, EntriesAre
    <3> QED
      BY <1>1, <3>3, <3>4, EntriesAre
  <2>2. P \in Fine /\ Usable(P) /\ P.file = f
    BY PlaceIs DEF Place, Node
  <2>3. PICK s \in Service : Mentions(f, s)
    BY <2>1, <2>2, FineSound DEF Sound
  <2>4. d[s] # NoService
    BY <1>2, <2>3 DEF MentionedBy, Present
  <2> QED
    BY <2>4 DEF Nothing
<1>5. cut = {}
  <2>1. cut \subseteq {s \in Service : OnCycle(frame, s)}
    BY DEF Cuts
  <2> QED
    BY <2>1, NothingCycles
<1>6. \A s \in Service : ~Undeclared(frame, s)
  BY TargetIsFine DEF Undeclared
<1>7. G = {}
  BY <1>5, <1>6 DEF Placed
<1>8. \A s \in Service : D[s] # NoService <=> d[s] # NoService
  BY <1>2, InheritedSays
<1>9. Aims(D, Service, LentBy(f))
  BY <1>2, InheritedAims
<1> HIDE DEF D, G, d
<1>10. MentionedBy(f) \subseteq Present(D)
  BY <1>2, <1>8 DEF Present
<1> QED
  BY <1>3, <1>4, <1>7, <1>9, <1>10

LEMMA ReturnIncludeClears ==
  ASSUME WrittenDocs, Chained(stack), Resting(stack), AllClear(stack), ReturnInclude
  PROVE  AllClear(stack')
<1> DEFINE C == Caller
           f == Caller.file
           g == Top.file
<1>1. stack # << >> /\ Len(stack) > 1 /\ Finished /\ Top.want = Full /\ Top.phase = "extends"
  BY DEF ReturnInclude, Finished, Extending
<1>2. IsActivation(C) /\ Waits(C, Top) /\ Below # << >> /\ IsList(stack)
  BY <1>1, CallerWaits, ChainedIs
<1>3. /\ C.phase = "include" /\ IncludePhase(C) /\ C.entry <= Len(Entries(f)) /\ g = Reference(C)
  BY <1>1, <1>2 DEF Waits
<1>4. Clear(C, {Reference(C)})
  BY <1>1, <1>2, ClearBelow DEF Below, Caller
<1>5. Placed(C) /\ Gathered(C, {Reference(C)})
  BY <1>3, <1>4 DEF Clear
<1>6. f \in File /\ IsDocument(docs[f])
  BY <1>2 DEF IsActivation, IsOpen
<1>7. IsActivation(Top) /\ ExtendPhase(Top) /\ Placed(Top) /\ Based(Top)
  BY <1>1, TopReady, PhaseIs DEF AllClear, Top, Clear
<1>8. PICK cut \in Cuts(Top) :
        Return(IF Vacuous(Top) THEN Advance(Missed(C, "unread"))
               ELSE Receive([C EXCEPT !.gaps = @ \cup Answer(Top, cut).gaps],
                            [data |-> Answer(Top, cut).data, tags |-> Answer(Top, cut).tags]))
  BY DEF ReturnInclude
<1> DEFINE answer == Answer(Top, cut)
           F == [C EXCEPT !.gaps = @ \cup answer.gaps]
           doc == [data |-> answer.data, tags |-> answer.tags]
<1>9. /\ ~Vacuous(Top) /\ answer.gaps = {} /\ MentionedBy(g) \subseteq Present(answer.data)
      /\ Aims(answer.data, Service, LentBy(g))
  BY <1>7, FinishedIsClear
<1>10. Says(answer.data, MentionedBy(g), MappedBy(g)) /\ g \in File
  BY <1>1, AnswerIs
<1>11. g \in Included(f) \cap File
  BY <1>2, <1>3, <1>10, ReferenceIs
<1>12. Return(Receive(F, doc)) /\ doc.data = answer.data
  BY <1>8, <1>9
<1>13. /\ DOMAIN F = Fields /\ \A k \in Fields \ {"gaps"} : F[k] = C[k]
       /\ F.gaps = C.gaps \cup answer.gaps
  BY <1>2 DEF IsActivation, Fields
<1> HIDE DEF F, C, answer, doc
<1>14. /\ F.file = C.file /\ F.want = C.want /\ F.env = C.env /\ F.inc = C.inc /\ F.ext = C.ext
       /\ F.data = C.data /\ F.phase = C.phase /\ F.entry = C.entry /\ F.ref = C.ref
       /\ F.part = C.part /\ F.parts = C.parts /\ F.at = C.at /\ F.folded = C.folded
       /\ F.gaps = C.gaps
  BY <1>9, <1>13 DEF Fields
<1>15. IsActivation(F) /\ IncludePhase(F)
  BY <1>2, <1>3, <1>13, <1>14 DEF IsActivation, IsOpen, IncludePhase
<1>16. Placed(F)
  BY <1>5, <1>14, PlacedSame DEF SameChains
<1>17. Reference(F) = g /\ Held(F) = Held(C)
  BY <1>3, <1>14 DEF Reference, Held
<1>18. Gathered(F, {Reference(F)})
  BY <1>3, <1>5, <1>14, <1>17 DEF Gathered
<1>19. F.file = f /\ F.phase = "include" /\ F.entry <= Len(Entries(F.file))
  BY <1>3, <1>14 DEF C
<1> HIDE DEF f, g
<1>20. Says(doc.data, MentionedBy(f), MappedBelow(f))
  <2>1. MentionedBy(g) \subseteq MentionedBy(f) /\ MappedBy(g) \subseteq MappedBelow(f)
    BY <1>6, <1>11, ProjectSays
  <2> QED
    BY <1>10, <1>12, <2>1, SaysMore
<1>21. Aims(doc.data, Service, LentBelow(f))
  <2>1. LentBy(g) \subseteq LentBelow(f)
    BY <1>6, <1>11, LentOn
  <2> QED
    BY <1>9, <1>12, <2>1, AimsMore
<1>22. Clear(Receive(F, doc), {})
  BY <1>9, <1>12, <1>15, <1>16, <1>17, <1>18, <1>19, <1>20, <1>21, ReceiveGathers
<1> QED
  BY <1>1, <1>12, <1>22, ReturnClears

(* A base that is in leaves its service naming what it named.              *)
LEMMA InheritClears ==
  ASSUME WrittenDocs, NEW frame, IsActivation(frame), NEW callee, Waits(frame, callee), callee.want # Full,
         callee.want \in Service,
         NEW base, NEW A, NEW B, Says(base.data, A, B),
         base.gaps = {}, base.data[callee.want] # NoService, Placed(frame), Based(frame)
  PROVE  Clear(Inherit(frame, callee.want, base), {})
<1> DEFINE f == frame.file
           d == frame.data
           want == callee.want
           done == [frame EXCEPT !.at = {}]
           I == Inherit(frame, want, base)
<1>1. frame.phase = "extends" /\ ExtendPhase(frame)
  BY DEF Waits
<1>2. PICK s \in Service : frame.at = {s} /\ CrossFile(d[s])
  BY DEF Waits
<1>3. (CHOOSE t \in frame.at : TRUE) = s
  BY <1>2
<1>4. IsBody(d[s]) /\ HasFile(d[s].ext) /\ d[s].ext # NoExt
  BY <1>1, <1>2, CrossFileIs
<1>5. DOMAIN frame = Fields
  BY DEF IsActivation
<1>6. DOMAIN done = Fields /\ \A k \in Fields \ {"at"} : done[k] = frame[k]
  BY <1>5 DEF Fields
<1> DEFINE tags == Tags(frame.file)
           b == MergeService(base.data[want], d[s], tags[s])
           D == MergeServiceFrom(base.data, want, d, s, tags)
           m == [done EXCEPT !.gaps = @ \cup base.gaps, !.data = D]
<1>7. I = m
  BY <1>3, <1>6 DEF Inherit, Fields
<1>8. d = [t \in Service |-> d[t]]
  BY <1>1 DEF ExtendPhase, Folds, Says
<1>9. D[s] = b /\ \A t \in Service \ {s} : D[t] = d[t]
  BY <1>8 DEF MergeServiceFrom
<1>10. IsSaid(base.data[want])
  BY DEF Says, Said
<1>11. IsBody(b) /\ b.ext = d[s].ext
  BY <1>4, <1>10, MergeUnder
<1>12. d[s] # NoService /\ HasBody(d[s]) /\ b # NoService /\ HasBody(b)
  BY <1>4, <1>11, BodyIsSaid
<1>13. /\ m.data = D /\ m.gaps = frame.gaps \cup base.gaps
       /\ \A k \in Fields \ {"at", "gaps", "data"} : m[k] = frame[k]
  <2> HIDE DEF D, done
  <2> QED
    BY <1>6 DEF Fields
<1> HIDE DEF D, b, m, I, d, done
<1>14. /\ m.file = frame.file /\ m.want = frame.want /\ m.phase = frame.phase /\ m.skip = frame.skip
       /\ m.todo = frame.todo /\ m.inc = frame.inc /\ m.ext = frame.ext /\ m.gaps = frame.gaps
  BY <1>13 DEF Fields
<1>15. Placed(m) /\ Place(m) = Place(frame)
  BY <1>14, PlacedSame DEF SameChains, Place
<1>16. ASSUME NEW t \in Service
       PROVE  /\ D[t] # NoService <=> d[t] # NoService
              /\ Inherits(D[t]) <=> Inherits(d[t])
              /\ Inherits(d[t]) => D[t].ext = d[t].ext
  <2>1. CASE t = s
    BY <1>9, <1>11, <1>12, <2>1 DEF Inherits
  <2>2. CASE t # s
    BY <1>9, <2>2
  <2> QED
    BY <2>1, <2>2
<1>17. MentionedBy(f) \subseteq Present(D)
  BY <1>16 DEF Based, Present, d
<1>18. Aims(D, Service, LentBy(f))
  <2>1. Aims(d, Service, LentBy(f))
    BY DEF Based, d
  <2> QED
    BY <1>16, <2>1 DEF Aims
<1>19. \A t \in Service \ m.skip : Inherits(D[t]) => Due(m, t)
  <2>1. \A t \in Service \ frame.skip : Inherits(d[t]) => Due(frame, t)
    BY DEF Based, d
  <2>2. \A t : Due(frame, t) => Due(m, t)
    BY <1>14, <1>15 DEF Due
  <2> QED
    BY <1>14, <1>16, <2>1, <2>2
<1>20. m.todo \cap m.skip = {}
  BY <1>14 DEF Based
<1>21. Based(m)
  BY <1>13, <1>14, <1>17, <1>18, <1>19, <1>20 DEF Based
<1>22. m.phase = "extends"
  BY <1>1, <1>14, Zenon
<1>23. Clear(m, {})
  BY <1>15, <1>21, <1>22 DEF Clear
<1> QED
  BY <1>7, <1>23 DEF I

LEMMA ReturnBaseClears ==
  ASSUME WrittenDocs, Chained(stack), Resting(stack), AllClear(stack), ReturnBase
  PROVE  AllClear(stack')
<1> DEFINE C == Caller
           answer(cut) == Answer(Top, cut)
<1>1. stack # << >> /\ Len(stack) > 1 /\ Finished /\ Top.want # Full /\ Top.phase = "extends"
  BY DEF ReturnBase, Finished, Extending
<1>2. IsActivation(C) /\ Waits(C, Top) /\ Below # << >> /\ IsList(stack)
  BY <1>1, CallerWaits, ChainedIs
<1>3. C.phase = "extends"
  BY <1>1, <1>2 DEF Waits
<1>4. Clear(C, {Reference(C)})
  BY <1>1, <1>2, ClearBelow DEF Below, Caller
<1>5. Placed(C) /\ Based(C)
  BY <1>3, <1>4 DEF Clear
<1>6. IsActivation(Top) /\ ExtendPhase(Top) /\ Placed(Top) /\ Based(Top)
  BY <1>1, TopReady, PhaseIs DEF AllClear, Top, Clear
<1>7. Top.want \in Service
  BY <1>1, <1>6 DEF IsActivation, IsOpen
<1>8. PICK cut \in Cuts(Top) :
        Return(IF Vacuous(Top) THEN [Missed(C, "unread") EXCEPT !.at = {}]
               ELSE Inherit(C, Top.want, answer(cut)))
  BY DEF ReturnBase
<1> DEFINE a == answer(cut)
<1>9. /\ ~Vacuous(Top) /\ a.gaps = {} /\ MentionedBy(Top.file) \subseteq Present(a.data)
  BY <1>6, FinishedIsClear
<1>10. Says(a.data, MentionedBy(Top.file), MappedBy(Top.file))
  BY <1>1, AnswerIs
<1>11. a.data[Top.want] # NoService
  <2>1. Place(Top) \in Fine /\ Place(Top).file = Top.file /\ Place(Top).svc = Top.want
    BY <1>6, PlaceIs DEF Place, Node
  <2>2. Mentions(Top.file, Top.want)
    BY <1>1, <2>1, FineSound DEF Sound
  <2> HIDE DEF a
  <2> QED
    BY <1>7, <1>9, <2>2 DEF MentionedBy, Present
<1>12. Return(Inherit(C, Top.want, a))
  BY <1>8, <1>9
<1> HIDE DEF a, C
<1>13. Clear(Inherit(C, Top.want, a), {})
  BY <1>1, <1>2, <1>5, <1>7, <1>9, <1>10, <1>11, InheritClears
<1> QED
  BY <1>1, <1>12, <1>13, ReturnClears

-----------------------------------------------------------------------------
(* All of it, too, is about the files.                                     *)

LEMMA UnderKept ==
  ASSUME docs' = docs
  PROVE  /\ Fine' = Fine /\ Borrowed' = Borrowed
         /\ \A f : LentBy(f)' = LentBy(f)
         /\ \A f : LentBelow(f)' = LentBelow(f)
         /\ \A f : Extended(f)' = Extended(f)
         /\ \A n, k : Above(n, k)' = Above(n, k)
<1>1. Fine' = Fine
  <2>1. \A f, s : Mentions(f, s)' = Mentions(f, s)
    BY FilesKept DEF Mentions
  <2>2. \A n : Sound(n)' = Sound(n)
    BY <2>1, FilesKept DEF Sound
  <2>3. \A S : Inductive(S)' = Inductive(S)
    BY <2>2, FilesKept DEF Inductive
  <2> QED
    BY <2>3 DEF Fine
<1>2. \A f, s, t : Lends(f, s, t)' = Lends(f, s, t)
  BY FilesKept DEF Lends
<1>3. \A f : LentBy(f)' = LentBy(f)
  BY <1>2 DEF LentBy
<1>4. \A f : LentBelow(f)' = LentBelow(f)
  BY <1>3, FilesKept DEF LentBelow
<1>5. \A f : Extended(f)' = Extended(f)
  BY FilesKept DEF Extended
<1>6. Borrowed' = Borrowed
  BY <1>2, <1>5, FilesKept DEF Borrowed
<1>7. \A S : Onward(S)' = Onward(S)
  BY FilesKept DEF Onward
<1>8. \A n : Under(n)' = Under(n)
  BY <1>7, FilesKept DEF Under
<1>9. \A n, k : Above(n, k)' = Above(n, k)
  BY <1>8, FilesKept DEF Above
<1> QED
  BY <1>1, <1>3, <1>4, <1>5, <1>6, <1>9

LEMMA ClearKept ==
  ASSUME docs' = docs
  PROVE  \A q : AllClear(q)' = AllClear(q)
<1>1. \A frame : Place(frame)' = Place(frame)
  BY DEF Place
<1>2. \A frame : Placed(frame)' = Placed(frame)
  BY <1>1, UnderKept DEF Placed
<1>3. \A frame, G : Gathered(frame, G)' = Gathered(frame, G)
  BY FilesKept, FineKept, UnderKept DEF Gathered
<1>4. \A frame, s : Due(frame, s)' = Due(frame, s)
  BY <1>1, FilesKept, UnderKept DEF Due
<1>5. \A frame : Based(frame)' = Based(frame)
  BY <1>4, FineKept, UnderKept DEF Based
<1>6. \A frame, G : Clear(frame, G)' = Clear(frame, G)
  BY <1>2, <1>3, <1>5 DEF Clear
<1>7. \A frame : Reference(frame)' = Reference(frame)
  BY FilesKept DEF Reference
<1> QED
  BY <1>6, <1>7 DEF AllClear

-----------------------------------------------------------------------------
(* The walk of a configuration that leads somewhere throughout.            *)

Given == Roots \subseteq Fine /\ ~Mixed /\ ~Borrowed

(* No gap has been met, and no activation has met one.                     *)
GapInv ==
  /\ LoadInv /\ paths # << >>
  /\ Given => gaps = {} /\ AllClear(stack)

LEMMA NoneIsClear == AllClear(<< >>)
<1>1. Len(<< >>) = 0 /\ \A i \in 1 .. 0 - 1 : FALSE
  OBVIOUS
<1> QED
  BY <1>1 DEF AllClear

LEMMA GapInit == Init => GapInv
<1> SUFFICES ASSUME Init PROVE GapInv
  OBVIOUS
<1>1. PICK in \in Inputs : paths = in.paths
  BY DEF Init
<1>2. paths # << >>
  BY <1>1, LoadAssumption
<1>3. gaps = {} /\ stack = << >>
  BY DEF Init
<1>4. AllClear(stack)
  BY <1>3, NoneIsClear
<1> QED
  BY <1>2, <1>3, <1>4, LoadInit DEF GapInv

LEMMA OpenPathClears ==
  ASSUME LoadInv, Given, OpenPath
  PROVE  AllClear(stack')
<1> DEFINE g == paths[path]
           env == <<ProjectDir>>
           none == {}
           F == Frame(g, Full, env, 0, none, none, 0)
<1>1. /\ stack' = <<F>> /\ stack = << >> /\ path <= Len(paths) /\ IsDocument(docs[g])
  BY DEF OpenPath, Acceptable
<1>2. WrittenDocs /\ paths \in Seq(File) /\ path \in Nat \ {0}
  BY DEF LoadInv, FilesInv, PathsInv, Given
<1>3. path \in DOMAIN paths /\ g \in File
  BY <1>1, <1>2
<1>4. Node(g, Full) \in Fine
  BY <1>3 DEF Given, Roots
<1>5. /\ \A x \in none : Node(x, Full) \in Nodes /\ Above(Node(x, Full), Node(g, Full))
      /\ \A p \in none : Node(p[1], p[2]) \in Nodes /\ Above(Node(p[1], p[2]), Node(g, Full))
      /\ Full \in Service \cup {Full} /\ (Full # Full => Extended(g))
  OBVIOUS
<1> DEFINE level == 0
<1>6. F = Frame(g, Full, env, level, none, none, level) /\ IsDocument(docs[g])
  BY <1>1
<1> HIDE DEF g, env, none, F, level
<1>7. Clear(F, {})
  BY <1>2, <1>3, <1>4, <1>5, <1>6, FrameClear
<1> DEFINE q == << >>
<1>8. IsList(q) /\ \A i \in 1 .. Len(q) : Clear(q[i], {Reference(q[i])})
  BY DEF IsList
<1>9. stack' = Append(q, F)
  BY <1>1
<1> HIDE DEF q
<1>10. AllClear(Append(q, F))
  BY <1>7, <1>8, ClearOnTop
<1> QED
  BY <1>9, <1>10

LEMMA GapStep == GapInv /\ WithinLimits' /\ [Next]_vars => GapInv'
<1> SUFFICES ASSUME GapInv, WithinLimits', [Next]_vars PROVE GapInv'
  OBVIOUS
<1>1. docs' = docs /\ paths' = paths
  BY DEF Next, vars, OpenPath, OpenBlank, OpenRefused, Conclude, IncludeRefused, IncludeAgain,
         IncludeOpen, IncludesDone, ExtendRefused, ExtendOpen, ReturnInclude, ReturnBase, ReturnPath
<1>2. LoadInv /\ LoadInv' /\ paths' # << >>
  BY <1>1, LoadStep DEF GapInv
<1>3. Given' = Given
  <2>1. Roots' = Roots
    BY <1>1 DEF Roots
  <2> QED
    BY <1>1, <2>1, FineKept, UnderKept DEF Given
<1>4. SUFFICES ASSUME Given
               PROVE  gaps' = {} /\ AllClear(stack')
  BY <1>1, <1>2, <1>3, ClearKept DEF GapInv
<1>5. /\ gaps = {} /\ AllClear(stack) /\ WrittenDocs /\ Chained(stack) /\ Resting(stack)
      /\ ~Mixed /\ ~Borrowed
  BY <1>4 DEF GapInv, LoadInv, FilesInv, Given
<1>6. CASE OpenPath
  BY <1>2, <1>4, <1>5, <1>6, OpenPathClears DEF OpenPath
<1>7. CASE OpenBlank \/ OpenRefused \/ Conclude \/ UNCHANGED vars
  BY <1>5, <1>7 DEF OpenBlank, OpenRefused, Conclude, vars
<1>8. CASE \/ IncludeRefused \/ IncludeAgain \/ IncludeOpen \/ IncludesDone
           \/ ExtendRefused \/ ExtendOpen \/ ReturnInclude \/ ReturnBase
  <2>1. gaps' = gaps
    BY <1>8 DEF IncludeRefused, IncludeAgain, IncludeOpen, IncludesDone, ExtendRefused, ExtendOpen,
                ReturnInclude, ReturnBase
  <2>2. AllClear(stack')
    BY <1>5, <1>8, IncludeClears, FoldClears, ExtendClears, ReturnIncludeClears, ReturnBaseClears
  <2> QED
    BY <1>5, <2>1, <2>2
<1>9. CASE ReturnPath
  <2>1. stack' = << >> /\ Finished /\ stack # << >> /\ Top.phase = "extends"
    BY <1>9 DEF ReturnPath, Finished, Extending
  <2>2. IsActivation(Top) /\ ExtendPhase(Top) /\ Placed(Top) /\ Based(Top)
    BY <1>5, <2>1, TopReady, PhaseIs DEF AllClear, Top, Clear
  <2>3. gaps' = gaps \/ \E cut \in Cuts(Top) : gaps' = gaps \cup Answer(Top, cut).gaps
    BY <1>9 DEF ReturnPath
  <2>4. \A cut \in Cuts(Top) : Answer(Top, cut).gaps = {}
    BY <1>5, <2>2, FinishedIsClear
  <2> QED
    BY <1>5, <2>1, <2>3, <2>4, NoneIsClear
<1> QED
  BY <1>6, <1>7, <1>8, <1>9 DEF Next

LEMMA GapImplies == GapInv => (~Mixed /\ ~Borrowed => NoFalseGap)
<1> SUFFICES ASSUME GapInv, ~Mixed, ~Borrowed, Complete
             PROVE  gaps = {}
  BY DEF NoFalseGap
<1>1. Roots \subseteq Fine
  BY CompleteIsFine DEF GapInv, LoadInv
<1> QED
  BY <1>1 DEF GapInv, Given

(* While neither limit leaves a document out, no gap is reported of a      *)
(* configuration that is complete: but where an included mapping may lend  *)
(* its `file:` to a document's own, or a document that others extend       *)
(* redefines what is resolved below it.                                    *)
THEOREM NoGapInvented == Spec /\ []WithinLimits => [](~Mixed /\ ~Borrowed => NoFalseGap)
<1>1. Init => GapInv
  BY GapInit
<1>2. GapInv /\ WithinLimits' /\ [Next]_vars => GapInv'
  BY GapStep
<1>3. GapInv => (~Mixed /\ ~Borrowed => NoFalseGap)
  BY GapImplies
<1> QED
  BY <1>1, <1>2, <1>3, PTL DEF Spec
=============================================================================
