----------------------------- MODULE ReplayProofs -----------------------------
(***************************************************************************)
(* Theorems about Replay, for every set of pipelines, every number of      *)
(* crashes and forks, and every environment.                               *)
(*                                                                         *)
(* The argument is determinism.  Reaches(p, recs, limit, tasks, id) says   *)
(* that an execution of p that takes each answer from recs, and no step ID *)
(* from limit on, comes to the agenda tasks with the next step ID id.  It  *)
(* comes to one agenda only where it stops (Unique), and more records do   *)
(* not divert it (Carries).  An undisturbed execution is where the records *)
(* lead (Replayed), every record is what the ones before it lead to        *)
(* (Explained) and so is every outcome (Concluded): then a record is read  *)
(* by the step it was written for, and two outcomes are one.               *)
(*                                                                         *)
(* What is said of failures needs more of the agenda of an execution that  *)
(* runs, that it is Honest: Neat (pipes end in the order they nest, and no *)
(* task is left for stages behind one that failed), and Candid (a flag is  *)
(* up behind a failure, and an aborted pipe has a failure further on that  *)
(* explains it).  Then a handler is told of a step's failure or a Loop's   *)
(* limit and of nothing else, and a step is taken behind no failure but a  *)
(* Loop's that gave up, which raises no flag.                              *)
(***************************************************************************)
EXTENDS Replay, MinTheorems

-----------------------------------------------------------------------------
(* Agendas: what a turn may do to one.                                     *)

\* The turn launches a side step.
Launches(p, tasks) == Takes(p, tasks, {"alongside"})
\* The end of a pipe.
IsEnd(task, pipe) == task.op = "end" /\ task.pipe = pipe
\* A pipe ends in the agenda.
EndIn(tasks, pipe) == \E j \in 1..Len(tasks) : IsEnd(tasks[j], pipe)

\* What a turn never changes about a task that stays on the agenda.
Alike(t, u) ==
    /\ t.op = u.op
    /\ u.op = "end" => t.pipe = u.pipe /\ t.side = u.side
    /\ u.op # "end" => t.at = u.at

\* new is old with tasks put in front of it: ends that close inside the agenda,
\* of Alongsides only those of sides.
Onto(p, new, old, sides) ==
    /\ new \in Seq(Tasks(p)) /\ Len(old) <= Len(new)
    /\ \A j \in 1..Len(old) : Alike(new[Len(new) - Len(old) + j], old[j])
    /\ \A i \in 1..Len(new) - Len(old) :
           /\ ~IsEnd(new[i], "root")
           /\ new[i].op = "end" /\ OwnedBy(p, new[i].pipe, {"alongside"}) => new[i].side \in sides
           /\ \E j \in i + 1..Len(new) : IsEnd(new[j], Around(p, new[i]))

\* A task is an end or it is not.
LEMMA EndIsEnd == \A p : \A t \in Tasks(p) : t.op = "end" => t \in Ends(p)
BY DEF Tasks, Ends

\* EndOf finds the first end of a pipe.
LEMMA EndOfIs ==
    ASSUME NEW p, NEW tasks \in Seq(Tasks(p)), NEW pipe
    PROVE  LET own == EndOf(tasks, pipe)
           IN  \/ own = 0 /\ ~EndIn(tasks, pipe)
               \/ /\ own \in 1..Len(tasks) /\ IsEnd(tasks[own], pipe) /\ tasks[own] \in Ends(p)
                  /\ \A i \in 1..Len(tasks) : IsEnd(tasks[i], pipe) => own <= i
<1> DEFINE I == {i \in 1..Len(tasks) : tasks[i].op = "end" /\ tasks[i].pipe = pipe}
<1>1. EndOf(tasks, pipe) = IF I # {} THEN Min(I) ELSE 0
  BY DEF EndOf, SelectInSeq
<1>2. CASE I = {}
  BY <1>1, <1>2 DEF EndIn, IsEnd
<1>3. CASE I # {}
  <2>1. Min(I) \in I /\ \A y \in I : Min(I) <= y
    BY <1>3, MinIsLeast
  <2>2. Min(I) \in 1..Len(tasks) /\ IsEnd(tasks[Min(I)], pipe)
    BY <2>1 DEF IsEnd
  <2>3. tasks[Min(I)] \in Ends(p)
    BY <2>2, EndIsEnd DEF IsEnd
  <2>4. ASSUME NEW i \in 1..Len(tasks), IsEnd(tasks[i], pipe) PROVE Min(I) <= i
    BY <2>1, <2>4 DEF IsEnd
  <2> HIDE DEF I
  <2> QED BY <1>1, <1>3, <2>2, <2>3, <2>4
<1> QED BY <1>2, <1>3

\* Scope finds an end.
LEMMA ScopeIs ==
    ASSUME NEW p, NEW tasks \in Seq(Tasks(p))
    PROVE  LET scope == Scope(p, tasks)
           IN  \/ scope = 0
               \/ scope \in 1..Len(tasks) /\ tasks[scope] \in Ends(p)
<1> DEFINE I == {i \in 1..Len(tasks) : tasks[i].op = "end" /\ OwnsFlag(p, tasks[i].pipe)}
<1>1. Scope(p, tasks) = IF I # {} THEN Min(I) ELSE 0
  BY DEF Scope, SelectInSeq
<1>2. CASE I # {}
  <2>1. I \in SUBSET Nat
    OBVIOUS
  <2>2. Min(I) \in I
    <3> HIDE DEF I
    <3> QED BY <1>2, <2>1, MinIsLeast
  <2>3. Min(I) \in 1..Len(tasks) /\ tasks[Min(I)] \in Ends(p)
    BY <2>2, EndIsEnd
  <2> HIDE DEF I
  <2> QED BY <1>1, <1>2, <2>3
<1> QED BY <1>1, <1>2

\* An end may change anything but its pipe and its side step.
LEMMA Touched ==
    ASSUME NEW p, NEW tasks \in Seq(Tasks(p)), NEW n, NEW end,
           n \in 1..Len(tasks) => /\ end \in Ends(p) /\ tasks[n].op = "end"
                                  /\ end.pipe = tasks[n].pipe /\ end.side = tasks[n].side
    PROVE  LET new == [tasks EXCEPT ![n] = end]
           IN  /\ new \in Seq(Tasks(p)) /\ Len(new) = Len(tasks)
               /\ \A j \in 1..Len(tasks) : Alike(new[j], tasks[j])
<1> DEFINE new == [tasks EXCEPT ![n] = end]
<1>1. n \in 1..Len(tasks) => end \in Tasks(p) /\ Alike(end, tasks[n])
  BY DEF Tasks, Ends, Alike
<1>2. new \in Seq(Tasks(p)) /\ Len(new) = Len(tasks)
  <2>1. CASE n \in 1..Len(tasks)
    BY <1>1, <2>1
  <2>2. CASE n \notin 1..Len(tasks)
    <3>1. new = tasks
      BY <2>2
    <3> QED BY <3>1
  <2> QED BY <2>1, <2>2
<1>3. ASSUME NEW j \in 1..Len(tasks) PROVE Alike(new[j], tasks[j])
  <2>1. CASE j = n
    BY <1>1, <2>1
  <2>2. CASE j # n
    BY <2>2 DEF Alike
  <2> QED BY <2>1, <2>2
<1> QED BY <1>2, <1>3

\* An agenda whose tasks changed in place.
LEMMA AlikeOnto ==
    ASSUME NEW p, NEW new \in Seq(Tasks(p)), NEW old \in Seq(Tasks(p)), Len(new) = Len(old),
           \A j \in 1..Len(old) : Alike(new[j], old[j])
    PROVE  Onto(p, new, old, {})
BY DEF Onto

\* An agenda that did not change.
LEMMA OntoItself ==
    ASSUME NEW p, NEW old \in Seq(Tasks(p))
    PROVE  Onto(p, old, old, {})
<1>1. \A j \in 1..Len(old) : Alike(old[j], old[j])
  BY DEF Alike
<1> QED BY <1>1, AlikeOnto

\* A failure changes ends in place.
LEMMA FailOnto ==
    ASSUME NEW p, NEW old \in Seq(Tasks(p)), NEW at \in Places(p), NEW cause \in Causes,
           NEW aborts \in BOOLEAN
    PROVE  Onto(p, Fail(p, old, at, cause, aborts), old, {})
<1> DEFINE own == EndOf(old, at[1])
           scope == Scope(p, old)
           failing == Failing(old[own], at[2], cause)
           failed == [old EXCEPT ![own] = failing]
           aborting == Aborting(failed[scope], aborts)
           new == [failed EXCEPT ![scope] = aborting]
<1>1. Fail(p, old, at, cause, aborts) = new
  BY DEF Fail
<1>2. at[2] \in Nat
  BY DEF Places
<1>3. \A end \in Ends(p) : /\ Failing(end, at[2], cause) \in Ends(p)
                           /\ Failing(end, at[2], cause).pipe = end.pipe
                           /\ Failing(end, at[2], cause).side = end.side
  BY <1>2 DEF Failing, Ends
<1>4. \A end \in Ends(p) : /\ Aborting(end, aborts) \in Ends(p)
                           /\ Aborting(end, aborts).pipe = end.pipe
                           /\ Aborting(end, aborts).side = end.side
  BY DEF Aborting, Ends
<1>5. \A end \in Ends(p) : end.op = "end"
  BY DEF Ends
<1>6. own \in 1..Len(old) => old[own] \in Ends(p)
  BY EndOfIs
<1>7. scope \in 1..Len(old) => old[scope] \in Ends(p)
  BY ScopeIs
<1> HIDE DEF own, scope
<1>8. /\ failed \in Seq(Tasks(p)) /\ Len(failed) = Len(old)
      /\ \A j \in 1..Len(old) : Alike(failed[j], old[j])
  <2>1. own \in 1..Len(old) => /\ failing \in Ends(p) /\ old[own].op = "end"
                               /\ failing.pipe = old[own].pipe /\ failing.side = old[own].side
    BY <1>3, <1>5, <1>6
  <2> HIDE DEF failing
  <2> QED BY <2>1, Touched
<1> HIDE DEF failed
<1>9. /\ new \in Seq(Tasks(p)) /\ Len(new) = Len(failed)
      /\ \A j \in 1..Len(failed) : Alike(new[j], failed[j])
  <2>1. scope \in 1..Len(failed) => failed[scope].op = "end"
    BY <1>5, <1>7, <1>8 DEF Alike
  <2>2. scope \in 1..Len(failed) => failed[scope] \in Ends(p)
    BY <1>8, <2>1, EndIsEnd
  <2>3. scope \in 1..Len(failed) =>
            /\ aborting \in Ends(p) /\ failed[scope].op = "end"
            /\ aborting.pipe = failed[scope].pipe /\ aborting.side = failed[scope].side
    BY <1>4, <2>1, <2>2
  <2> HIDE DEF aborting
  <2> QED BY <1>8, <2>3, Touched
<1> HIDE DEF new
<1>10. \A j \in 1..Len(old) : Alike(new[j], old[j])
  BY <1>8, <1>9 DEF Alike
<1> QED BY <1>1, <1>8, <1>9, <1>10, AlikeOnto

\* The elements of two sequences put together.
LEMMA Concatenated ==
    ASSUME NEW S, NEW front \in Seq(S), NEW old \in Seq(S)
    PROVE  /\ front \o old \in Seq(S) /\ Len(front \o old) = Len(front) + Len(old)
           /\ Len(front) \in Nat /\ Len(old) \in Nat
           /\ \A i \in 1..Len(front) : (front \o old)[i] = front[i]
           /\ \A j \in 1..Len(old) : (front \o old)[Len(front) + j] = old[j]
OBVIOUS

\* Tasks of pipes that end in the agenda may be put in front of it.
LEMMA PutBefore ==
    ASSUME NEW p, NEW old \in Seq(Tasks(p)), NEW front \in Seq(Tasks(p)), NEW sides,
           \A i \in 1..Len(front) :
               /\ ~IsEnd(front[i], "root")
               /\ front[i].op = "end" /\ OwnedBy(p, front[i].pipe, {"alongside"}) =>
                      front[i].side \in sides
               /\ \/ EndIn(old, Around(p, front[i]))
                  \/ \E j \in i + 1..Len(front) : IsEnd(front[j], Around(p, front[i]))
    PROVE  Onto(p, front \o old, old, sides)
<1> DEFINE new == front \o old
<1>1. /\ new \in Seq(Tasks(p)) /\ Len(new) = Len(front) + Len(old)
      /\ Len(front) \in Nat /\ Len(old) \in Nat
      /\ \A i \in 1..Len(front) : new[i] = front[i]
      /\ \A j \in 1..Len(old) : new[Len(front) + j] = old[j]
  BY Concatenated
<1> HIDE DEF new
<1>2. ASSUME NEW j \in 1..Len(old) PROVE Alike(new[Len(new) - Len(old) + j], old[j])
  BY <1>1 DEF Alike
<1>3. ASSUME NEW i \in 1..Len(new) - Len(old)
      PROVE  /\ ~IsEnd(new[i], "root")
             /\ new[i].op = "end" /\ OwnedBy(p, new[i].pipe, {"alongside"}) =>
                    new[i].side \in sides
             /\ \E j \in i + 1..Len(new) : IsEnd(new[j], Around(p, new[i]))
  <2>1. i \in 1..Len(front) /\ new[i] = front[i]
    BY <1>1
  <2>2. CASE EndIn(old, Around(p, front[i]))
    <3>1. PICK j \in 1..Len(old) : IsEnd(old[j], Around(p, front[i]))
      BY <2>2 DEF EndIn
    <3>2. Len(front) + j \in i + 1..Len(new) /\ new[Len(front) + j] = old[j]
      BY <1>1, <2>1
    <3> QED BY <2>1, <3>1, <3>2
  <2>3. CASE \E j \in i + 1..Len(front) : IsEnd(front[j], Around(p, front[i]))
    BY <1>1, <2>1, <2>3
  <2> QED BY <2>1, <2>2, <2>3
<1>4. Onto(p, new, old, sides)
  BY <1>1, <1>2, <1>3 DEF Onto
<1> QED BY <1>4 DEF new

\* Items are put in front of the agenda their pipe ends in.
LEMMA EmitOnto ==
    ASSUME NEW p, NEW old \in Seq(Tasks(p)), NEW at \in Places(p), NEW items \in Seq(Items),
           EndIn(old, at[1])
    PROVE  Onto(p, Emit(old, at, items), old, {})
<1> DEFINE front == [i \in 1..Len(items) |-> ItemInto(<<at[1], at[2] + 1>>, items[i])]
<1>1. front \in Seq(Tasks(p)) /\ Len(front) = Len(items)
      /\ \A i \in 1..Len(items) : front[i] = ItemInto(<<at[1], at[2] + 1>>, items[i])
  <2>1. \A i \in 1..Len(items) : ItemInto(<<at[1], at[2] + 1>>, items[i]) \in Tasks(p)
    BY DEF ItemInto, Tasks, Places
  <2> QED BY <2>1
<1>2. ASSUME NEW i \in 1..Len(front)
      PROVE  front[i].op = "item" /\ Around(p, front[i]) = at[1]
  BY <1>1 DEF ItemInto, Around
<1>3. Emit(old, at, items) = front \o old
  BY DEF Emit
<1> HIDE DEF front
<1> QED BY <1>1, <1>2, <1>3, PutBefore DEF IsEnd

\* A pipe that starts has a well-formed end.
LEMMA EndOfPipeIs ==
    ASSUME NEW p, WellFormed(p), NEW pipe \in DOMAIN p, NEW item \in Items,
           NEW round \in Nat, NEW side \in Nat
    PROVE  EndOfPipe(p, pipe, item, round, side) \in Ends(p)
<1>1. p[pipe] \in Seq([kind : Kinds, subs : Seq(DOMAIN p \ {"root"}), max : Nat])
  BY DEF WellFormed
<1>2. Len(p[pipe]) \in Nat
  BY <1>1
<1>3. Item(0, 0) \in Items
  BY DEF Item, Items
<1>4. /\ [k \in 1..Len(p[pipe]) |-> Item(0, 0)] \in Seq(Items)
      /\ Len([k \in 1..Len(p[pipe]) |-> Item(0, 0)]) = Len(p[pipe])
  BY <1>2, <1>3
<1>5. None \in Causes
  BY DEF None, Failure, Causes
<1>6. <<>> \in Seq(Items)
  OBVIOUS
<1> QED BY <1>4, <1>5, <1>6 DEF EndOfPipe, Ends

\* So is a pipe that is embedded in one of the agenda's.
LEMMA StartOnto ==
    ASSUME NEW p, WellFormed(p), NEW old \in Seq(Tasks(p)), NEW pipe \in DOMAIN p \ {"root"},
           NEW item \in Items, NEW round \in Nat, NEW side \in Nat, NEW sides,
           EndIn(old, Owner(p, pipe)[1]), OwnedBy(p, pipe, {"alongside"}) => side \in sides
    PROVE  LET new == Start(p, pipe, item, round, side) \o old
           IN  /\ Onto(p, new, old, sides)
               /\ Len(new) = Len(old) + 3
               /\ new[3].op = "end" /\ new[3].pipe = pipe /\ new[3].side = side
<1> DEFINE into == ItemInto(<<pipe, 1>>, item)
           done == DoneInto(<<pipe, 1>>)
           end == EndOfPipe(p, pipe, item, round, side)
           front == <<into, done, end>>
<1>1. Start(p, pipe, item, round, side) = front
  BY DEF Start
<1>2. into \in Tasks(p) /\ into.op = "item" /\ Around(p, into) = pipe
  BY DEF ItemInto, Tasks, Places, Around
<1>3. done \in Tasks(p) /\ done.op = "done" /\ Around(p, done) = pipe
  <2>1. /\ p[pipe] # <<>>
        /\ p[pipe] \in Seq([kind : Kinds, subs : Seq(DOMAIN p \ {"root"}), max : Nat])
    BY DEF WellFormed
  <2>2. 1 \in 1..Len(p[pipe])
    BY <2>1
  <2>3. <<pipe, 1>> \in Locations(p)
    BY <2>2 DEF Locations
  <2> QED BY <2>3 DEF DoneInto, Tasks, Around
<1>4. end \in Ends(p)
  BY EndOfPipeIs
<1>5. IsEnd(end, pipe) /\ Around(p, end) = Owner(p, pipe)[1] /\ end.side = side
  BY DEF EndOfPipe, IsEnd, Around
<1>6. end \in Tasks(p)
  BY <1>4 DEF Tasks
<1> HIDE DEF into, done, end
<1>7. front \in Seq(Tasks(p)) /\ Len(front) = 3 /\ front[1] = into /\ front[2] = done
      /\ front[3] = end
  BY <1>2, <1>3, <1>6
<1> HIDE DEF front
<1>8. Onto(p, front \o old, old, sides)
  <2>1. ASSUME NEW i \in 1..Len(front)
        PROVE  /\ ~IsEnd(front[i], "root")
               /\ front[i].op = "end" /\ OwnedBy(p, front[i].pipe, {"alongside"}) =>
                      front[i].side \in sides
               /\ \/ EndIn(old, Around(p, front[i]))
                  \/ \E j \in i + 1..Len(front) : IsEnd(front[j], Around(p, front[i]))
    <3>1. CASE i = 1
      BY <1>2, <1>5, <1>7, <3>1 DEF IsEnd
    <3>2. CASE i = 2
      BY <1>3, <1>5, <1>7, <3>2 DEF IsEnd
    <3>3. CASE i = 3
      BY <1>5, <1>7, <3>3 DEF IsEnd
    <3> QED BY <1>7, <3>1, <3>2, <3>3
  <2> QED BY <1>7, <2>1, PutBefore
<1>9. Len(front \o old) = Len(old) + 3 /\ (front \o old)[3] = end
  <2>1. front \in Seq(Tasks(p))
    BY <1>7
  <2>2. Len(front \o old) = Len(front) + Len(old) /\ Len(old) \in Nat
    BY <2>1, Concatenated
  <2>3. \A i \in 1..Len(front) : (front \o old)[i] = front[i]
    BY <2>1, Concatenated
  <2> QED BY <1>7, <2>2, <2>3
<1> QED BY <1>1, <1>5, <1>8, <1>9 DEF IsEnd

\* A turn may put one thing in front of another.
LEMMA OntoOnto ==
    ASSUME NEW p, NEW old \in Seq(Tasks(p)), NEW mid, NEW new, NEW S,
           Onto(p, mid, old, S), Onto(p, new, mid, S)
    PROVE  Onto(p, new, old, S)
<1>1. /\ mid \in Seq(Tasks(p)) /\ new \in Seq(Tasks(p))
      /\ Len(old) \in Nat /\ Len(mid) \in Nat /\ Len(new) \in Nat
      /\ Len(old) <= Len(mid) /\ Len(mid) <= Len(new)
  BY DEF Onto
<1> DEFINE d == Len(new) - Len(mid)
           e == Len(mid) - Len(old)
<1>2. ASSUME NEW j \in 1..Len(old)
      PROVE  Alike(new[Len(new) - Len(old) + j], old[j])
  <2>1. e + j \in 1..Len(mid) /\ d + (e + j) = Len(new) - Len(old) + j
    BY <1>1
  <2>2. Alike(mid[e + j], old[j]) /\ Alike(new[d + (e + j)], mid[e + j])
    BY <2>1 DEF Onto
  <2> QED BY <2>1, <2>2 DEF Alike
<1>3. ASSUME NEW i \in 1..Len(new) - Len(old)
      PROVE  /\ ~IsEnd(new[i], "root")
             /\ new[i].op = "end" /\ OwnedBy(p, new[i].pipe, {"alongside"}) => new[i].side \in S
             /\ \E j \in i + 1..Len(new) : IsEnd(new[j], Around(p, new[i]))
  <2>1. CASE i <= d
    BY <1>1, <2>1 DEF Onto
  <2>2. CASE i > d
    <3> DEFINE k == i - d
    <3>1. k \in 1..e /\ k \in 1..Len(mid) /\ d + k = i
      BY <1>1, <2>2
    <3>2. Alike(new[i], mid[k])
      BY <3>1 DEF Onto
    <3>3. /\ ~IsEnd(mid[k], "root")
          /\ mid[k].op = "end" /\ OwnedBy(p, mid[k].pipe, {"alongside"}) => mid[k].side \in S
      BY <3>1 DEF Onto
    <3>4. PICK j \in k + 1..Len(mid) : IsEnd(mid[j], Around(p, mid[k]))
      BY <3>1 DEF Onto
    <3>5. d + j \in i + 1..Len(new) /\ j \in 1..Len(mid)
      BY <1>1, <3>1, <3>4
    <3>6. Alike(new[d + j], mid[j])
      BY <3>5 DEF Onto
    <3>7. Around(p, new[i]) = Around(p, mid[k])
      BY <3>2 DEF Around, Alike
    <3> HIDE DEF k
    <3>8. IsEnd(new[d + j], Around(p, new[i]))
      BY <3>4, <3>6, <3>7 DEF IsEnd, Alike
    <3> QED BY <3>2, <3>3, <3>5, <3>8 DEF IsEnd, Alike
  <2> QED BY <1>1, <2>1, <2>2
<1> QED BY <1>1, <1>2, <1>3 DEF Onto

\* Whatever the turn put in front of the rest, every pipe still ends inside its own.
LEMMA NestedOnto ==
    ASSUME NEW p, NEW tasks \in Seq(Tasks(p)), Nested(p, tasks), ~EndsRoot(tasks),
           NEW new, NEW sides, Onto(p, new, Tail(tasks), sides)
    PROVE  Nested(p, new)
<1>1. /\ Len(tasks) \in Nat /\ Tail(tasks) \in Seq(Tasks(p)) /\ Len(Tail(tasks)) = Len(tasks) - 1
      /\ \A j \in 1..Len(tasks) - 1 : Tail(tasks)[j] = tasks[j + 1]
      /\ new \in Seq(Tasks(p)) /\ Len(new) \in Nat /\ Len(tasks) - 1 <= Len(new)
  BY DEF Nested, Onto
<1>2. /\ Len(tasks) # 0 /\ IsEnd(tasks[Len(tasks)], "root")
      /\ \A i \in 1..Len(tasks) - 1 : ~IsEnd(tasks[i], "root")
  <2>1. Len(tasks) # 0 /\ EndOf(tasks, "root") = Len(tasks)
    BY DEF Nested
  <2>2. /\ IsEnd(tasks[Len(tasks)], "root")
        /\ \A i \in 1..Len(tasks) : IsEnd(tasks[i], "root") => Len(tasks) <= i
    BY <2>1, EndOfIs
  <2> QED BY <1>1, <2>1, <2>2
<1>3. Len(tasks) > 1
  BY <1>1, <1>2 DEF EndsRoot, IsEnd
<1> DEFINE d == Len(new) - (Len(tasks) - 1)
<1>4. ASSUME NEW j \in 1..Len(tasks) - 1
      PROVE  Alike(new[d + j], tasks[j + 1]) /\ d + j \in 1..Len(new)
  <2>1. d = Len(new) - Len(Tail(tasks)) /\ j \in 1..Len(Tail(tasks))
    BY <1>1
  <2> HIDE DEF d
  <2>2. Alike(new[d + j], Tail(tasks)[j])
    BY <2>1 DEF Onto
  <2>3. d \in Nat /\ d + j \in 1..Len(new)
    BY <1>1, <2>1
  <2> QED BY <1>1, <2>2, <2>3
<1>5. IsEnd(new[Len(new)], "root") /\ Len(new) # 0
  <2>1. Len(tasks) - 1 \in 1..Len(tasks) - 1 /\ d + (Len(tasks) - 1) = Len(new)
    BY <1>1, <1>3
  <2>2. Alike(new[d + (Len(tasks) - 1)], tasks[(Len(tasks) - 1) + 1])
    BY <1>4, <2>1
  <2>3. (Len(tasks) - 1) + 1 = Len(tasks)
    BY <1>1
  <2>4. Alike(new[Len(new)], tasks[Len(tasks)])
    BY <2>1, <2>2, <2>3
  <2> QED BY <1>1, <1>2, <1>3, <2>4 DEF IsEnd, Alike
<1>6. ASSUME NEW i \in 1..Len(new) - 1
      PROVE  /\ ~IsEnd(new[i], "root")
             /\ \E j \in i + 1..Len(new) : IsEnd(new[j], Around(p, new[i]))
  <2>1. CASE i <= d
    BY <1>1, <2>1 DEF Onto
  <2>2. CASE i > d
    <3> DEFINE k == i - d
    <3>1. k \in 1..Len(tasks) - 1 /\ k + 1 \in 1..Len(tasks) - 1 /\ d + k = i
      BY <1>1, <2>2
    <3>2. Alike(new[i], tasks[k + 1])
      BY <1>4, <3>1
    <3>3. PICK j \in (k + 1) + 1..Len(tasks) : IsEnd(tasks[j], Around(p, tasks[k + 1]))
      BY <3>1 DEF Nested, IsEnd
    <3>4. j - 1 \in 1..Len(tasks) - 1 /\ d + (j - 1) \in i + 1..Len(new) /\ (j - 1) + 1 = j
      BY <1>1, <3>1, <3>3
    <3>5. Alike(new[d + (j - 1)], tasks[(j - 1) + 1])
      BY <1>4, <3>4
    <3>6. Around(p, new[i]) = Around(p, tasks[k + 1])
      BY <3>2 DEF Around, Alike
    <3> HIDE DEF k
    <3>7. IsEnd(new[d + (j - 1)], Around(p, new[i]))
      BY <3>3, <3>4, <3>5, <3>6 DEF IsEnd, Alike
    <3> QED BY <1>2, <3>1, <3>2, <3>4, <3>7 DEF IsEnd, Alike
  <2> QED BY <1>1, <2>1, <2>2
<1>7. EndOf(new, "root") = Len(new)
  <2>1. EndIn(new, "root") /\ Len(new) \in 1..Len(new)
    BY <1>1, <1>5 DEF EndIn
  <2> QED BY <1>1, <1>5, <1>6, <2>1, EndOfIs
<1>8. new # <<>>
  BY <1>5
<1> QED BY <1>6, <1>7, <1>8 DEF Nested, IsEnd

-----------------------------------------------------------------------------
(* The head of an agenda.                                                  *)

\* A stage of the program.
LEMMA LocationIs ==
    ASSUME NEW p, WellFormed(p), NEW at \in Locations(p)
    PROVE  /\ at \in Places(p) /\ at[1] \in DOMAIN p /\ at[2] \in 1..Len(p[at[1]])
           /\ at = <<at[1], at[2]>> /\ Len(p[at[1]]) \in Nat
           /\ Stage(p, at) \in [kind : Kinds, subs : Seq(DOMAIN p \ {"root"}), max : Nat]
<1>1. PICK pipe \in DOMAIN p : \E k \in 1..Len(p[pipe]) : at = <<pipe, k>>
  BY DEF Locations
<1>2. PICK k \in 1..Len(p[pipe]) : at = <<pipe, k>>
  BY <1>1
<1> DEFINE S == [kind : Kinds, subs : Seq(DOMAIN p \ {"root"}), max : Nat]
<1>3. p[pipe] \in Seq(S)
  BY DEF WellFormed
<1>4. Len(p[pipe]) \in Nat /\ k \in Nat \ {0} /\ p[pipe][k] \in S
  <2> HIDE DEF S
  <2> QED BY <1>2, <1>3
<1> QED BY <1>2, <1>4 DEF Places, Stage

\* An item's place is a stage, or the end of the pipe.
LEMMA PlaceIs ==
    ASSUME NEW p, WellFormed(p), NEW at \in Places(p)
    PROVE  /\ at[1] \in DOMAIN p /\ at[2] \in Nat \ {0}
           /\ InPipe(p, at) => at \in Locations(p)
<1> DEFINE S == [kind : Kinds, subs : Seq(DOMAIN p \ {"root"}), max : Nat]
<1>0. at[1] \in DOMAIN p /\ at[2] \in Nat \ {0} /\ at = <<at[1], at[2]>>
  BY DEF Places
<1>1. p[at[1]] \in Seq(S)
  BY <1>0 DEF WellFormed
<1> HIDE DEF S
<1>2. Len(p[at[1]]) \in Nat
  BY <1>1
<1> QED BY <1>0, <1>2 DEF InPipe, Locations

\* A pipe other than the root is embedded in exactly one stage.
LEMMA OwnerIs ==
    ASSUME NEW p, WellFormed(p), NEW pipe \in DOMAIN p \ {"root"}
    PROVE  /\ Owner(p, pipe) \in Locations(p) /\ Embeds(p, Owner(p, pipe), pipe)
           /\ Owner(p, pipe) \in Places(p) /\ Owner(p, pipe)[1] \in DOMAIN p
           /\ \A at \in Locations(p) : Embeds(p, at, pipe) => at = Owner(p, pipe)
<1>1. \E at \in Locations(p) : Embeds(p, at, pipe)
  BY DEF WellFormed
<1>2. Owner(p, pipe) \in Locations(p) /\ Embeds(p, Owner(p, pipe), pipe)
  BY <1>1 DEF Owner
<1>3. \A at \in Locations(p) : Embeds(p, at, pipe) => at = Owner(p, pipe)
  BY <1>2 DEF WellFormed
<1> QED BY <1>2, <1>3, LocationIs

\* A pipe that a stage embeds is embedded there.
LEMMA SubIs ==
    ASSUME NEW p, WellFormed(p), NEW at \in Locations(p), NEW pipe \in Range(Stage(p, at).subs)
    PROVE  pipe \in DOMAIN p \ {"root"} /\ Owner(p, pipe) = at
<1>1. Stage(p, at).subs \in Seq(DOMAIN p \ {"root"})
  BY LocationIs
<1>2. pipe \in DOMAIN p \ {"root"}
  BY <1>1 DEF Range
<1>3. Embeds(p, at, pipe)
  BY DEF Embeds
<1> QED BY <1>2, <1>3, OwnerIs

\* A stage that embeds pipes has a first one.
LEMMA FirstSub ==
    ASSUME NEW p, WellFormed(p), NEW at \in Locations(p), Stage(p, at).kind \in SubKinds
    PROVE  Stage(p, at).subs[1] \in Range(Stage(p, at).subs)
<1>1. Stage(p, at).subs \in Seq(DOMAIN p \ {"root"}) /\ Stage(p, at).subs # <<>>
  BY LocationIs DEF WellFormed
<1>2. 1 \in DOMAIN Stage(p, at).subs
  BY <1>1
<1> QED BY <1>2 DEF Range

\* A stage starts the pipe it embeds in front of its own.
LEMMA EmbeddedOnto ==
    ASSUME NEW p, WellFormed(p), NEW old \in Seq(Tasks(p)), NEW at \in Locations(p),
           Stage(p, at).kind \in SubKinds, EndIn(old, at[1]),
           NEW item \in Items, NEW round \in Nat, NEW side \in Nat, NEW sides,
           Stage(p, at).kind = "alongside" => side \in sides
    PROVE  LET new == Embedded(p, old, at, item, round, side)
           IN  /\ Onto(p, new, old, sides)
               /\ 3 \in 1..Len(new) /\ new[3].op = "end" /\ new[3].side = side
               /\ new[3].pipe \in DOMAIN p \ {"root"} /\ Owner(p, new[3].pipe) = at
<1> DEFINE pipe == Stage(p, at).subs[1]
<1>1. pipe \in DOMAIN p \ {"root"} /\ Owner(p, pipe) = at
  BY FirstSub, SubIs
<1>2. Embedded(p, old, at, item, round, side) = Start(p, pipe, item, round, side) \o old
  BY DEF Embedded
<1> HIDE DEF pipe
<1>3. OwnedBy(p, pipe, {"alongside"}) => side \in sides
  BY <1>1 DEF OwnedBy
<1>4. Len(old) \in Nat
  OBVIOUS
<1> QED BY <1>1, <1>2, <1>3, <1>4, StartOnto

\* The place a turn is about.
At(p, tasks) ==
    IF Head(tasks).op = "end" THEN Owner(p, Head(tasks).pipe) ELSE Head(tasks).at

\* The head of an agenda and the rest: the pipe of the head ends in the rest.
LEMMA HeadIs ==
    ASSUME NEW p, WellFormed(p), NEW tasks \in Seq(Tasks(p)), Nested(p, tasks), ~EndsRoot(tasks)
    PROVE  /\ Head(tasks) = tasks[1] /\ Head(tasks) \in Tasks(p) /\ Tail(tasks) \in Seq(Tasks(p))
           /\ Len(tasks) > 1 /\ Len(tasks) \in Nat /\ Len(Tail(tasks)) = Len(tasks) - 1
           /\ \A i \in 1..Len(Tail(tasks)) : Tail(tasks)[i] = tasks[i + 1]
           /\ EndIn(Tail(tasks), At(p, tasks)[1])
           /\ \A pipe \in DOMAIN p \ {"root"} :
                  EndIn(Tail(tasks), pipe) => EndIn(Tail(tasks), Owner(p, pipe)[1])
<1>1. /\ Len(tasks) \in Nat /\ Tail(tasks) \in Seq(Tasks(p)) /\ Len(Tail(tasks)) = Len(tasks) - 1
      /\ Head(tasks) = tasks[1] /\ Head(tasks) \in Tasks(p)
      /\ \A j \in 1..Len(tasks) - 1 : Tail(tasks)[j] = tasks[j + 1]
  BY DEF Nested
<1>2. /\ Len(tasks) # 0 /\ IsEnd(tasks[Len(tasks)], "root")
      /\ \A i \in 1..Len(tasks) - 1 : ~IsEnd(tasks[i], "root")
  BY <1>1, EndOfIs DEF Nested, EndIn
<1>3. Len(tasks) > 1
  BY <1>1, <1>2 DEF EndsRoot, IsEnd
<1>4. ASSUME NEW i \in 1..Len(tasks) - 1
      PROVE  EndIn(Tail(tasks), Around(p, tasks[i]))
  <2>1. PICK j \in i + 1..Len(tasks) : IsEnd(tasks[j], Around(p, tasks[i]))
    BY DEF Nested, IsEnd
  <2>2. j - 1 \in 1..Len(tasks) - 1 /\ (j - 1) + 1 = j
    BY <1>1, <2>1
  <2>3. Tail(tasks)[j - 1] = tasks[j]
    BY <1>1, <2>2
  <2> QED BY <1>1, <2>1, <2>2, <2>3 DEF EndIn
<1>5. EndIn(Tail(tasks), At(p, tasks)[1])
  <2>1. 1 \in 1..Len(tasks) - 1 /\ Around(p, tasks[1]) = At(p, tasks)[1]
    BY <1>1, <1>3 DEF Around, At
  <2> QED BY <1>4, <2>1
<1>6. ASSUME NEW pipe \in DOMAIN p \ {"root"}, EndIn(Tail(tasks), pipe)
      PROVE  EndIn(Tail(tasks), Owner(p, pipe)[1])
  <2>1. PICK j \in 1..Len(tasks) - 1 : IsEnd(tasks[j + 1], pipe)
    BY <1>1, <1>6 DEF EndIn
  <2>2. j + 1 \in 1..Len(tasks) - 1
    BY <1>1, <1>2, <2>1 DEF IsEnd
  <2>3. Around(p, tasks[j + 1]) = Owner(p, pipe)[1]
    BY <2>1 DEF Around, IsEnd
  <2> QED BY <1>4, <2>2, <2>3
<1> QED BY <1>1, <1>3, <1>5, <1>6

\* The head of an agenda, by what it is.
LEMMA HeadFields ==
    ASSUME NEW p, WellFormed(p), NEW tasks \in Seq(Tasks(p)), Nested(p, tasks), ~EndsRoot(tasks)
    PROVE  /\ AtItem(tasks) => Head(tasks).at \in Places(p) /\ Head(tasks).item \in Items
           /\ AtDone(tasks) => Head(tasks).at \in Locations(p)
           /\ Head(tasks).op = "end" =>
                  /\ Head(tasks) \in Ends(p) /\ Head(tasks).pipe \in DOMAIN p \ {"root"}
                  /\ Head(tasks).item \in Items /\ Head(tasks).outs \in Seq(Items)
                  /\ Head(tasks).cause \in Causes /\ Head(tasks).round \in Nat
           /\ Head(tasks).op \in {"item", "done", "end"}
           /\ At(p, tasks) \in Places(p)
<1>1. Head(tasks) \in Tasks(p)
  BY HeadIs
<1>2. AtItem(tasks) => Head(tasks).at \in Places(p) /\ Head(tasks).item \in Items
  BY <1>1 DEF AtItem, Tasks, Ends
<1>3. AtDone(tasks) => Head(tasks).at \in Locations(p)
  BY <1>1 DEF AtDone, Tasks, Ends
<1>4. Head(tasks).op = "end" =>
          /\ Head(tasks) \in Ends(p) /\ Head(tasks).pipe \in DOMAIN p \ {"root"}
          /\ Head(tasks).item \in Items /\ Head(tasks).outs \in Seq(Items)
          /\ Head(tasks).cause \in Causes /\ Head(tasks).round \in Nat
  BY <1>1, EndIsEnd DEF EndsRoot, Ends
<1>5. Head(tasks).op \in {"item", "done", "end"}
  BY <1>1 DEF Tasks, Ends
<1> QED BY <1>2, <1>3, <1>4, <1>5, OwnerIs, LocationIs DEF At, AtItem, AtDone

\* A completion passes on.
LEMMA PassedOnOnto ==
    ASSUME NEW p, WellFormed(p), NEW tasks \in Seq(Tasks(p)), Nested(p, tasks), ~EndsRoot(tasks),
           AtDone(tasks)
    PROVE  Onto(p, PassedOn(p, tasks), Tail(tasks), {})
<1> DEFINE at == Head(tasks).at
           done == DoneInto(<<at[1], at[2] + 1>>)
<1>1. /\ Tail(tasks) \in Seq(Tasks(p)) /\ EndIn(Tail(tasks), at[1])
      /\ at \in Locations(p) /\ at[1] \in DOMAIN p /\ at[2] \in 1..Len(p[at[1]])
      /\ Len(p[at[1]]) \in Nat
  BY HeadIs, HeadFields, LocationIs DEF At, AtDone
<1>2. CASE at[2] = Len(p[at[1]])
  BY <1>1, <1>2, OntoItself DEF PassedOn
<1>3. CASE at[2] # Len(p[at[1]])
  <2>1. at[2] + 1 \in 1..Len(p[at[1]])
    BY <1>1, <1>3
  <2>2. <<at[1], at[2] + 1>> \in Locations(p)
    BY <1>1, <2>1 DEF Locations
  <2>3. done \in Tasks(p) /\ done.op = "done" /\ Around(p, done) = at[1]
    BY <2>2 DEF DoneInto, Tasks, Around
  <2>4. PassedOn(p, tasks) = <<done>> \o Tail(tasks)
    BY <1>3 DEF PassedOn
  <2> HIDE DEF done, at
  <2>5. <<done>> \in Seq(Tasks(p)) /\ Len(<<done>>) = 1 /\ <<done>>[1] = done
    BY <2>3
  <2> DEFINE front == <<done>>
  <2> HIDE DEF front
  <2>6. \A i \in 1..Len(front) : front[i] = done
    BY <2>5 DEF front
  <2>7. Onto(p, front \o Tail(tasks), Tail(tasks), {})
    BY <1>1, <2>3, <2>5, <2>6, PutBefore DEF IsEnd, front
  <2> QED BY <2>4, <2>7 DEF front
<1> QED BY <1>2, <1>3

\* A Reduce lets go of its accumulator.
LEMMA CompletedOnto ==
    ASSUME NEW p, WellFormed(p), NEW tasks \in Seq(Tasks(p)), Nested(p, tasks), ~EndsRoot(tasks),
           AtDone(tasks)
    PROVE  Onto(p, Completed(p, tasks), Tail(tasks), {})
<1> DEFINE at == Head(tasks).at
           own == EndOf(tasks, at[1])
           passed == PassedOn(p, tasks)
<1>1. Onto(p, passed, Tail(tasks), {})
  BY PassedOnOnto
<1>2. CASE Stage(p, at).kind # "reduce"
  BY <1>1, <1>2 DEF Completed
<1>3. CASE Stage(p, at).kind = "reduce"
  <2>1. /\ Tail(tasks) \in Seq(Tasks(p)) /\ EndIn(Tail(tasks), at[1])
        /\ at \in Locations(p) /\ at \in Places(p) /\ at[2] \in 1..Len(p[at[1]])
    BY HeadIs, HeadFields, LocationIs DEF At, AtDone
  <2>2. EndIn(tasks, at[1])
    <3>1. PICK i \in 1..Len(Tail(tasks)) : IsEnd(Tail(tasks)[i], at[1])
      BY <2>1 DEF EndIn
    <3>2. i + 1 \in 1..Len(tasks) /\ Tail(tasks)[i] = tasks[i + 1]
      BY HeadIs
    <3> QED BY <3>1, <3>2 DEF EndIn
  <2>3. tasks[own] \in Ends(p) /\ tasks[own].pipe = at[1]
    BY <2>2, EndOfIs DEF IsEnd
  <2>4. tasks[own].acc \in Seq(Items) /\ Len(tasks[own].acc) = Len(p[at[1]])
    BY <2>3 DEF Ends
  <2> DEFINE item == tasks[own].acc[at[2]]
  <2>5. item \in Items
    BY <2>1, <2>4
  <2>6. Completed(p, tasks) = Emit(passed, at, <<item>>)
    BY <1>3 DEF Completed
  <2> HIDE DEF item, own, passed
  <2>7. EndIn(passed, at[1])
    <3>1. PICK i \in 1..Len(Tail(tasks)) : IsEnd(Tail(tasks)[i], at[1])
      BY <2>1 DEF EndIn
    <3> DEFINE old == Tail(tasks)
               j == Len(passed) - Len(old) + i
    <3> HIDE DEF old
    <3>2. old \in Seq(Tasks(p)) /\ Onto(p, passed, old, {}) /\ i \in 1..Len(old)
          /\ IsEnd(old[i], at[1])
      BY <1>1, <2>1, <3>1 DEF old
    <3>3. /\ Alike(passed[j], old[i]) /\ Len(old) <= Len(passed) /\ Len(passed) \in Nat
          /\ Len(old) \in Nat
      BY <3>2 DEF Onto
    <3>4. j \in 1..Len(passed)
      BY <3>2, <3>3
    <3>5. IsEnd(passed[j], at[1])
      BY <3>2, <3>3 DEF IsEnd, Alike
    <3> QED BY <3>4, <3>5 DEF EndIn
  <2>8. passed \in Seq(Tasks(p)) /\ <<item>> \in Seq(Items)
    BY <1>1, <2>5 DEF Onto
  <2>9. Onto(p, Emit(passed, at, <<item>>), passed, {})
    BY <2>1, <2>7, <2>8, EmitOnto
  <2> QED BY <1>1, <2>1, <2>6, <2>9, OntoOnto
<1> QED BY <1>2, <1>3

\* An item leaves its pipe.
LEMMA LeftOnto ==
    ASSUME NEW p, WellFormed(p), NEW tasks \in Seq(Tasks(p)), Nested(p, tasks), ~EndsRoot(tasks),
           AtItem(tasks)
    PROVE  Onto(p, Left(p, tasks), Tail(tasks), {})
<1> DEFINE old == Tail(tasks)
           pipe == Head(tasks).at[1]
           item == Head(tasks).item
           own == EndOf(old, pipe)
<1>1. /\ old \in Seq(Tasks(p)) /\ EndIn(old, pipe) /\ item \in Items /\ pipe \in DOMAIN p
      /\ pipe # "root" => EndIn(old, Owner(p, pipe)[1])
  BY HeadIs, HeadFields, PlaceIs DEF At, AtItem
<1>2. CASE OwnedBy(p, pipe, {"switch"})
  <2>1. pipe # "root" /\ Owner(p, pipe) \in Places(p)
    BY <1>1, <1>2, OwnerIs DEF OwnedBy
  <2>2. <<item>> \in Seq(Items)
    BY <1>1
  <2>3. Left(p, tasks) = Emit(old, Owner(p, pipe), <<item>>)
    BY <1>2 DEF Left
  <2> HIDE DEF old, pipe, item
  <2>4. Onto(p, Left(p, tasks), old, {})
    BY <1>1, <2>1, <2>2, <2>3, EmitOnto
  <2> QED BY <2>4 DEF old
<1>3. CASE ~OwnedBy(p, pipe, {"switch"})
  <2> DEFINE end == Collecting(old[own], item)
             new == [old EXCEPT ![own] = end]
  <2>1. Left(p, tasks) = new
    BY <1>3 DEF Left
  <2>2. old[own] \in Ends(p)
    BY <1>1, EndOfIs
  <2> HIDE DEF old, own, item
  <2>3. old[own].outs \in Seq(Items)
    BY <2>2 DEF Ends
  <2>4. Append(old[own].outs, item) \in Seq(Items)
    BY <1>1, <2>3
  <2>5. end \in Ends(p) /\ end.pipe = old[own].pipe /\ end.side = old[own].side
        /\ old[own].op = "end"
    BY <2>2, <2>4 DEF Ends, Collecting
  <2> HIDE DEF end
  <2>6. /\ new \in Seq(Tasks(p)) /\ Len(new) = Len(old)
        /\ \A j \in 1..Len(old) : Alike(new[j], old[j])
    BY <1>1, <2>5, Touched
  <2> HIDE DEF new
  <2>7. Onto(p, new, old, {})
    BY <1>1, <2>6, AlikeOnto
  <2> QED BY <2>1, <2>7 DEF old
<1> QED BY <1>2, <1>3

-----------------------------------------------------------------------------
(* The agenda behind each turn.                                            *)

\* Items go on behind the stage an embedded pipe is in.
LEMMA EmittedOnto ==
    ASSUME NEW p, WellFormed(p), NEW tasks \in Seq(Tasks(p)), Nested(p, tasks), ~EndsRoot(tasks),
           Head(tasks).op = "end", NEW items \in Seq(Items)
    PROVE  Onto(p, Emitted(p, tasks, items), Tail(tasks), {})
<1> DEFINE at == Owner(p, Head(tasks).pipe)
<1>1. Tail(tasks) \in Seq(Tasks(p)) /\ EndIn(Tail(tasks), at[1])
  BY HeadIs DEF At
<1>2. at \in Places(p)
  BY HeadFields DEF At
<1> QED BY <1>1, <1>2, EmitOnto DEF Emitted

\* A pipe that failed fails that stage.
LEMMA EndedOnto ==
    ASSUME NEW p, WellFormed(p), NEW tasks \in Seq(Tasks(p)), Nested(p, tasks), ~EndsRoot(tasks),
           Head(tasks).op = "end", NEW succeeded, Onto(p, succeeded, Tail(tasks), {})
    PROVE  Onto(p, Ended(p, tasks, succeeded), Tail(tasks), {})
<1>1. Tail(tasks) \in Seq(Tasks(p))
  BY HeadIs
<1>2. Owner(p, Head(tasks).pipe) \in Places(p) /\ Head(tasks).cause \in Causes
  BY HeadFields DEF At
<1> QED BY <1>1, <1>2, FailOnto DEF Ended

\* The ends of pipes that take no step.
LEMMA EndsOnto ==
    ASSUME NEW p, WellFormed(p), NEW tasks \in Seq(Tasks(p)), Nested(p, tasks), ~EndsRoot(tasks),
           Head(tasks).op = "end"
    PROVE  /\ Onto(p, EndedArmOrVia(p, tasks), Tail(tasks), {})
           /\ Onto(p, EndedUnjudged(p, tasks), Tail(tasks), {})
           /\ Onto(p, EndedUnrescued(p, tasks), Tail(tasks), {})
           /\ Onto(p, EndedAwaited(p, tasks), Tail(tasks), {})
<1>1. Onto(p, Tail(tasks), Tail(tasks), {})
  BY HeadIs, OntoItself
<1>2. Head(tasks).outs \in Seq(Items) /\ <<Head(tasks).item>> \in Seq(Items)
  BY HeadFields
<1>3. Onto(p, Emitted(p, tasks, Head(tasks).outs), Tail(tasks), {})
      /\ Onto(p, Emitted(p, tasks, <<Head(tasks).item>>), Tail(tasks), {})
  BY <1>2, EmittedOnto
<1>4. Onto(p, EndedArmOrVia(p, tasks), Tail(tasks), {})
  BY <1>1, <1>3, EndedOnto DEF EndedArmOrVia
<1>5. Onto(p, EndedUnjudged(p, tasks), Tail(tasks), {})
  BY <1>1, EndedOnto DEF EndedUnjudged
<1>6. Onto(p, EndedAwaited(p, tasks), Tail(tasks), {})
  BY <1>3, EndedOnto DEF EndedAwaited
<1> QED BY <1>3, <1>4, <1>5, <1>6 DEF EndedUnrescued

\* A stage takes an item.
LEMMA TakesIs ==
    ASSUME NEW p, WellFormed(p), NEW tasks \in Seq(Tasks(p)), Nested(p, tasks), ~EndsRoot(tasks),
           NEW kinds, Takes(p, tasks, kinds)
    PROVE  /\ AtItem(tasks) /\ Head(tasks).at \in Locations(p) /\ Head(tasks).at \in Places(p)
           /\ Head(tasks).item \in Items /\ Stage(p, Head(tasks).at).kind \in kinds
           /\ EndIn(Tail(tasks), Head(tasks).at[1]) /\ Tail(tasks) \in Seq(Tasks(p))
BY HeadIs, HeadFields, PlaceIs DEF Takes, At, AtItem

\* A Loop, a Via or a Rescue starts its pipe, or fails for the abort flag.
LEMMA EmbarkedOnto ==
    ASSUME NEW p, WellFormed(p), NEW tasks \in Seq(Tasks(p)), Nested(p, tasks), ~EndsRoot(tasks),
           Takes(p, tasks, {"loop", "via", "rescue"})
    PROVE  Onto(p, Embarked(p, tasks), Tail(tasks), {})
<1> DEFINE at == Head(tasks).at
<1>1. /\ at \in Locations(p) /\ at \in Places(p) /\ Head(tasks).item \in Items
      /\ Stage(p, at).kind \in {"loop", "via", "rescue"}
      /\ EndIn(Tail(tasks), at[1]) /\ Tail(tasks) \in Seq(Tasks(p))
  BY TakesIs
<1>2. Onto(p, Fail(p, Tail(tasks), at, Aborted, FALSE), Tail(tasks), {})
  <2>1. Aborted \in Causes
    BY DEF Aborted, Failure, Causes
  <2> QED BY <1>1, <2>1, FailOnto
<1>3. Onto(p, Embedded(p, Tail(tasks), at, Head(tasks).item, 1, 0), Tail(tasks), {})
  <2>1. Stage(p, at).kind \in SubKinds /\ Stage(p, at).kind # "alongside"
    BY <1>1 DEF SubKinds
  <2> HIDE DEF at
  <2> QED BY <1>1, <2>1, EmbeddedOnto
<1> QED BY <1>2, <1>3 DEF Embarked

\* A turn has an agenda for every result of its step.
LEMMA ResultsAreAnswers ==
    ASSUME NEW p, WellFormed(p), NEW at \in Locations(p)
    PROVE  Results(p, at) \subseteq Answers(p)
<1>1. Range(Stage(p, at).subs) \subseteq DOMAIN p
  BY SubIs
<1> QED BY <1>1 DEF Results, Answers

\* Whatever the step of the turn returns, the agenda behind it is well formed.
Sound(p, tasks, turn, sides) ==
    /\ turn.asks.at \in Locations(p)
    /\ \A result \in Results(p, turn.asks.at) \ {"error"} :
           Onto(p, turn.next[result], Tail(tasks), sides)

\* A stage with one step for each item.
LEMMA PlainSound ==
    ASSUME NEW p, WellFormed(p), NEW tasks \in Seq(Tasks(p)), Nested(p, tasks), ~EndsRoot(tasks),
           NEW id \in Nat, Takes(p, tasks, PlainKinds)
    PROVE  Sound(p, tasks, PlainTurn(p, tasks, id), {})
<1> DEFINE at == Head(tasks).at
           turn == PlainTurn(p, tasks, id)
<1>1. /\ at \in Locations(p) /\ at \in Places(p) /\ Head(tasks).item \in Items
      /\ Stage(p, at).kind \in PlainKinds
      /\ EndIn(Tail(tasks), at[1]) /\ Tail(tasks) \in Seq(Tasks(p))
  BY TakesIs
<1>2. turn.asks.at = at
  BY DEF PlainTurn, Turn
<1>3. ASSUME NEW result \in Results(p, at)
      PROVE  Onto(p, turn.next[result], Tail(tasks), {})
  <2> DEFINE items == Emission(Stage(p, at).kind, Head(tasks).item, result, id)
  <2>1. result \in Answers(p)
    BY <1>1, ResultsAreAnswers
  <2>2. turn.next[result] = Emit(Tail(tasks), at, items)
    BY <2>1 DEF PlainTurn, Turn
  <2>3. Item(id, 1) \in Items /\ Item(id, 2) \in Items
    BY DEF Item, Items
  <2>4. items \in Seq(Items)
    BY <1>1, <2>3 DEF Emission, PlainKinds
  <2> HIDE DEF items, at, turn
  <2>5. Onto(p, Emit(Tail(tasks), at, items), Tail(tasks), {})
    BY <1>1, <2>4, EmitOnto
  <2> QED BY <2>2, <2>5
<1> QED BY <1>1, <1>2, <1>3 DEF Sound

\* The step that closes a stream.
LEMMA CloseSound ==
    ASSUME NEW p, WellFormed(p), NEW tasks \in Seq(Tasks(p)), Nested(p, tasks), ~EndsRoot(tasks),
           AtDone(tasks)
    PROVE  Sound(p, tasks, CloseTurn(p, tasks), {})
<1> DEFINE at == Head(tasks).at
           turn == CloseTurn(p, tasks)
<1>1. at \in Locations(p)
  BY HeadFields
<1>2. turn.asks.at = at
  BY DEF CloseTurn, Turn
<1>3. \A result \in Results(p, at) : turn.next[result] = PassedOn(p, tasks)
  BY <1>1, ResultsAreAnswers DEF CloseTurn, Turn
<1>4. Onto(p, PassedOn(p, tasks), Tail(tasks), {})
  BY PassedOnOnto
<1> HIDE DEF at, turn
<1> QED BY <1>1, <1>2, <1>3, <1>4 DEF Sound, turn

\* A step that folds an item.
LEMMA ReduceSound ==
    ASSUME NEW p, WellFormed(p), NEW tasks \in Seq(Tasks(p)), Nested(p, tasks), ~EndsRoot(tasks),
           NEW id \in Nat, Takes(p, tasks, {"reduce"})
    PROVE  Sound(p, tasks, ReduceTurn(p, tasks, id), {})
<1> DEFINE old == Tail(tasks)
           at == Head(tasks).at
           own == EndOf(old, at[1])
           end == Accumulating(old[own], at[2], Item(id, 1))
           new == [old EXCEPT ![own] = end]
           turn == ReduceTurn(p, tasks, id)
<1>1. at \in Locations(p) /\ EndIn(old, at[1]) /\ old \in Seq(Tasks(p))
      /\ at[2] \in 1..Len(p[at[1]])
  BY TakesIs, LocationIs
<1>2. turn.asks.at = at
  BY DEF ReduceTurn, Turn
<1>3. \A result \in Results(p, at) : turn.next[result] = new
  BY <1>1, ResultsAreAnswers DEF ReduceTurn, Turn
<1>4. old[own] \in Ends(p) /\ old[own].pipe = at[1]
  <2> DEFINE pipe == at[1]
  <2>1. EndIn(old, pipe) /\ old \in Seq(Tasks(p))
    BY <1>1
  <2> HIDE DEF old, pipe
  <2>2. old[EndOf(old, pipe)] \in Ends(p) /\ IsEnd(old[EndOf(old, pipe)], pipe)
    BY <2>1, EndOfIs
  <2> QED BY <2>2 DEF IsEnd, pipe
<1>5. /\ old[own].acc \in Seq(Items) /\ Item(id, 1) \in Items /\ old[own].op = "end"
      /\ at[2] \in 1..Len(old[own].acc)
  BY <1>1, <1>4 DEF Ends, Item, Items
<1> HIDE DEF old, at, own, turn
<1>6. /\ [old[own].acc EXCEPT ![at[2]] = Item(id, 1)] \in Seq(Items)
      /\ Len([old[own].acc EXCEPT ![at[2]] = Item(id, 1)]) = Len(old[own].acc)
  <2> DEFINE acc == old[own].acc
             item == Item(id, 1)
             n == at[2]
  <2>1. acc \in Seq(Items) /\ item \in Items
    BY <1>5
  <2>2. n \in 1..Len(acc)
    BY <1>5
  <2> HIDE DEF acc, item, n
  <2>3. [acc EXCEPT ![n] = item] \in Seq(Items) /\ Len([acc EXCEPT ![n] = item]) = Len(acc)
    BY <2>1, <2>2
  <2> QED BY <2>3 DEF acc, item, n
<1>7. end \in Ends(p) /\ end.pipe = old[own].pipe /\ end.side = old[own].side
  BY <1>4, <1>6 DEF Ends, Accumulating
<1> HIDE DEF end
<1>8. /\ new \in Seq(Tasks(p)) /\ Len(new) = Len(old)
      /\ \A j \in 1..Len(old) : Alike(new[j], old[j])
  BY <1>1, <1>5, <1>7, Touched
<1> HIDE DEF new
<1>9. Onto(p, new, old, {})
  BY <1>1, <1>8, AlikeOnto
<1> QED BY <1>1, <1>2, <1>3, <1>9 DEF Sound, old, turn

\* A step that picks an arm.
LEMMA SwitchSound ==
    ASSUME NEW p, WellFormed(p), NEW tasks \in Seq(Tasks(p)), Nested(p, tasks), ~EndsRoot(tasks),
           NEW id \in Nat, Takes(p, tasks, {"switch"})
    PROVE  Sound(p, tasks, SwitchTurn(p, tasks, id), {})
<1> DEFINE at == Head(tasks).at
           item == Head(tasks).item
           turn == SwitchTurn(p, tasks, id)
<1>1. /\ at \in Locations(p) /\ at \in Places(p) /\ item \in Items
      /\ Stage(p, at).kind = "switch"
      /\ EndIn(Tail(tasks), at[1]) /\ Tail(tasks) \in Seq(Tasks(p))
  BY TakesIs
<1>2. turn.asks.at = at
  BY DEF SwitchTurn, Turn
<1>3. ASSUME NEW key \in Results(p, at) \ {"error"}
      PROVE  Onto(p, turn.next[key], Tail(tasks), {})
  <2>1. key \in Answers(p)
    BY <1>1, ResultsAreAnswers
  <2>2. CASE key \notin Range(Stage(p, at).subs)
    <3>1. Failure("step", id) \in Causes
      BY DEF Failure, Causes
    <3>2. turn.next[key] = Fail(p, Tail(tasks), at, Failure("step", id), TRUE)
      BY <2>1, <2>2 DEF SwitchTurn, Turn
    <3> HIDE DEF at, turn
    <3> QED BY <1>1, <3>1, <3>2, FailOnto
  <2>3. CASE key \in Range(Stage(p, at).subs)
    <3>1. key \in DOMAIN p \ {"root"} /\ Owner(p, key) = at
      BY <1>1, <2>1, <2>3, SubIs
    <3>2. ~OwnedBy(p, key, {"alongside"})
      BY <1>1, <3>1 DEF OwnedBy
    <3>3. turn.next[key] = Start(p, key, item, 1, 0) \o Tail(tasks)
      BY <2>1, <2>3 DEF SwitchTurn, Turn
    <3> HIDE DEF at, turn, item
    <3>4. Onto(p, Start(p, key, item, 1, 0) \o Tail(tasks), Tail(tasks), {})
      BY <1>1, <3>1, <3>2, StartOnto
    <3> QED BY <3>3, <3>4
  <2> QED BY <2>2, <2>3
<1> QED BY <1>1, <1>2, <1>3 DEF Sound

\* A side step: the pipe beside it ends in its name.
LEMMA LaunchSound ==
    ASSUME NEW p, WellFormed(p), NEW tasks \in Seq(Tasks(p)), Nested(p, tasks), ~EndsRoot(tasks),
           NEW id \in Nat, Launches(p, tasks)
    PROVE  LET turn == LaunchTurn(p, tasks, id)
               new == turn.next["ok"]
           IN  /\ Sound(p, tasks, turn, {id})
               /\ Onto(p, new, Tail(tasks), {id})
               /\ Stage(p, turn.asks.at).kind = "alongside"
               /\ 3 \in 1..Len(new) /\ new[3].op = "end" /\ new[3].side = id
               /\ OwnedBy(p, new[3].pipe, {"alongside"})
<1> DEFINE at == Head(tasks).at
           item == Head(tasks).item
           turn == LaunchTurn(p, tasks, id)
           new == Embedded(p, Tail(tasks), at, item, 1, id)
<1>1. /\ at \in Locations(p) /\ item \in Items
      /\ Stage(p, at).kind = "alongside"
      /\ EndIn(Tail(tasks), at[1]) /\ Tail(tasks) \in Seq(Tasks(p))
  BY TakesIs DEF Launches
<1>2. turn.asks.at = at
  BY DEF LaunchTurn, Turn
<1>3. \A result \in Answers(p) : turn.next[result] = new
  BY DEF LaunchTurn, Turn
<1>4. "ok" \in Answers(p) /\ Results(p, at) \subseteq Answers(p)
  BY <1>1, ResultsAreAnswers DEF Answers
<1>5. Stage(p, at).kind \in SubKinds
  BY <1>1 DEF SubKinds
<1> HIDE DEF at, item, turn
<1>6. /\ Onto(p, new, Tail(tasks), {id})
      /\ 3 \in 1..Len(new) /\ new[3].op = "end" /\ new[3].side = id
      /\ new[3].pipe \in DOMAIN p \ {"root"} /\ Owner(p, new[3].pipe) = at
  <2> DEFINE old == Tail(tasks)
             sides == {id}
  <2>1. old \in Seq(Tasks(p)) /\ EndIn(old, at[1]) /\ id \in sides /\ 1 \in Nat
    BY <1>1
  <2>2. new = Embedded(p, old, at, item, 1, id)
    OBVIOUS
  <2> HIDE DEF old, sides, new
  <2>3. /\ Onto(p, new, old, sides)
        /\ 3 \in 1..Len(new) /\ new[3].op = "end" /\ new[3].side = id
        /\ new[3].pipe \in DOMAIN p \ {"root"} /\ Owner(p, new[3].pipe) = at
    BY <1>1, <1>5, <2>1, <2>2, EmbeddedOnto
  <2> QED BY <2>3 DEF old, sides
<1> HIDE DEF new
<1>7. OwnedBy(p, new[3].pipe, {"alongside"})
  BY <1>1, <1>6 DEF OwnedBy
<1>8. Sound(p, tasks, turn, {id})
  BY <1>1, <1>2, <1>3, <1>4, <1>6 DEF Sound
<1> QED BY <1>1, <1>2, <1>3, <1>4, <1>6, <1>7, <1>8 DEF turn

\* A Loop's predicate.
LEMMA VerdictSound ==
    ASSUME NEW p, WellFormed(p), NEW tasks \in Seq(Tasks(p)), Nested(p, tasks), ~EndsRoot(tasks),
           EndsIn(p, tasks, {"loop"}), ~Unjudged(tasks)
    PROVE  Sound(p, tasks, VerdictTurn(p, tasks), {})
<1> DEFINE at == Owner(p, Head(tasks).pipe)
           made == Last(Head(tasks).outs)
           turn == VerdictTurn(p, tasks)
           round == Head(tasks).round + 1
<1>1. Head(tasks).op = "end" /\ Stage(p, at).kind = "loop"
  BY DEF EndsIn, OwnedBy
<1>2. at \in Locations(p) /\ at \in Places(p) /\ Head(tasks).outs \in Seq(Items)
      /\ Head(tasks).outs # <<>> /\ round \in Nat
  BY <1>1, HeadFields, OwnerIs DEF Unjudged
<1>3. made \in Items /\ <<made>> \in Seq(Items)
  BY <1>2 DEF Last
<1>4. EndIn(Tail(tasks), at[1]) /\ Tail(tasks) \in Seq(Tasks(p))
  BY <1>1, HeadIs DEF At
<1>5. turn.asks.at = at
  BY DEF VerdictTurn, Turn
<1>6. \A verdict \in Answers(p) :
          turn.next[verdict] \in {Emitted(p, tasks, <<made>>),
                                  Fail(p, Tail(tasks), at, MaxIterations, FALSE),
                                  Embedded(p, Tail(tasks), at, made, round, 0)}
  BY DEF VerdictTurn, Turn
<1>7. MaxIterations \in Causes /\ Stage(p, at).kind \in SubKinds
  BY <1>1 DEF MaxIterations, Failure, Causes, SubKinds
<1> HIDE DEF at, made, turn, round
<1>8. Onto(p, Emitted(p, tasks, <<made>>), Tail(tasks), {})
  BY <1>1, <1>3, EmittedOnto
<1>9. Onto(p, Fail(p, Tail(tasks), at, MaxIterations, FALSE), Tail(tasks), {})
  BY <1>2, <1>4, <1>7, FailOnto
<1>10. Onto(p, Embedded(p, Tail(tasks), at, made, round, 0), Tail(tasks), {})
  BY <1>1, <1>2, <1>3, <1>4, <1>7, EmbeddedOnto
<1>11. Results(p, at) \subseteq Answers(p)
  BY <1>2, ResultsAreAnswers
<1>12. \A verdict \in Results(p, at) : Onto(p, turn.next[verdict], Tail(tasks), {})
  BY <1>6, <1>8, <1>9, <1>10, <1>11
<1> QED BY <1>2, <1>5, <1>12 DEF Sound, turn

\* The handlers of Rescue and Alongside.
LEMMA HandlersSound ==
    ASSUME NEW p, WellFormed(p), NEW tasks \in Seq(Tasks(p)), Nested(p, tasks), ~EndsRoot(tasks),
           Head(tasks).op = "end", NEW id \in Nat, NEW cause, NEW seen
    PROVE  /\ Sound(p, tasks, RescueTurn(p, tasks, id, seen), {})
           /\ Sound(p, tasks, SideTurn(p, tasks, cause, seen), {})
<1> DEFINE at == Owner(p, Head(tasks).pipe)
           rescue == RescueTurn(p, tasks, id, seen)
           side == SideTurn(p, tasks, cause, seen)
<1>1. at \in Locations(p) /\ <<Head(tasks).item>> \in Seq(Items)
  BY HeadFields, OwnerIs
<1>2. <<Item(id, 1)>> \in Seq(Items)
  BY DEF Item, Items
<1>3. rescue.asks.at = at /\ side.asks.at = at
  BY DEF RescueTurn, SideTurn, Turn
<1>4. \A result \in Answers(p) : /\ rescue.next[result] = Emitted(p, tasks, <<Item(id, 1)>>)
                             /\ side.next[result] = Emitted(p, tasks, <<Head(tasks).item>>)
  BY DEF RescueTurn, SideTurn, Turn
<1>5. Onto(p, Emitted(p, tasks, <<Item(id, 1)>>), Tail(tasks), {})
      /\ Onto(p, Emitted(p, tasks, <<Head(tasks).item>>), Tail(tasks), {})
  BY <1>1, <1>2, EmittedOnto
<1>6. Results(p, at) \subseteq Answers(p)
  BY <1>1, ResultsAreAnswers
<1> HIDE DEF at, rescue, side
<1> QED BY <1>1, <1>3, <1>4, <1>5, <1>6 DEF Sound, rescue, side

\* Refused, failed or answered, a step leaves a well-formed agenda.
LEMMA AfterOnto ==
    ASSUME NEW p, WellFormed(p), NEW tasks \in Seq(Tasks(p)), Nested(p, tasks), ~EndsRoot(tasks),
           NEW turn, NEW sides, Sound(p, tasks, turn, sides), NEW id \in Nat
    PROVE  /\ Onto(p, Stopped(p, tasks, turn), Tail(tasks), {})
           /\ Onto(p, Denied(p, tasks, turn), Tail(tasks), {})
           /\ \A result \in Results(p, turn.asks.at) :
                  \/ Onto(p, After(p, tasks, id, turn, result), Tail(tasks), sides)
                  \/ Onto(p, After(p, tasks, id, turn, result), Tail(tasks), {})
<1>1. Tail(tasks) \in Seq(Tasks(p)) /\ turn.asks.at \in Places(p)
  BY HeadIs, LocationIs DEF Sound
<1>2. Aborted \in Causes /\ Refused \in Causes /\ Failure("step", id) \in Causes
  BY DEF Aborted, Refused, Failure, Causes
<1>3. SetsFlag(Refused) \in BOOLEAN /\ SetsFlag(Failure("step", id)) \in BOOLEAN
  BY DEF SetsFlag
<1>4. Onto(p, Stopped(p, tasks, turn), Tail(tasks), {})
  BY <1>1, <1>2, FailOnto DEF Stopped
<1>5. Onto(p, Denied(p, tasks, turn), Tail(tasks), {})
  BY <1>1, <1>2, <1>3, FailOnto DEF Denied
<1>6. ASSUME NEW result \in Results(p, turn.asks.at)
      PROVE  \/ Onto(p, After(p, tasks, id, turn, result), Tail(tasks), sides)
             \/ Onto(p, After(p, tasks, id, turn, result), Tail(tasks), {})
  <2>1. CASE result = "error"
    BY <1>1, <1>2, <1>3, <2>1, FailOnto DEF After
  <2>2. CASE result # "error"
    BY <2>2 DEF After, Sound
  <2> QED BY <2>1, <2>2
<1> QED BY <1>4, <1>5, <1>6

-----------------------------------------------------------------------------
(* Replaying records.                                                      *)

\* The turn takes a step.
Asks(p, recs, tasks) ==
    \/ Completes(p, tasks, {"stream"})
    \/ Takes(p, tasks, PlainKinds \cup {"reduce", "switch", "alongside"})
    \/ EndsIn(p, tasks, {"loop"}) /\ ~Unjudged(tasks)
    \/ EndsIn(p, tasks, {"rescue"}) /\ Head(tasks).cause # None
    \/ /\ EndsIn(p, tasks, {"alongside"}) /\ Head(tasks).cause = None
       /\ SideCause(recs, Head(tasks).side) # None

\* The step it takes,
TurnOf(p, recs, tasks, id) ==
    IF AtDone(tasks) THEN CloseTurn(p, tasks)
    ELSE IF Takes(p, tasks, PlainKinds) THEN PlainTurn(p, tasks, id)
    ELSE IF Takes(p, tasks, {"reduce"}) THEN ReduceTurn(p, tasks, id)
    ELSE IF Takes(p, tasks, {"switch"}) THEN SwitchTurn(p, tasks, id)
    ELSE IF AtItem(tasks) THEN LaunchTurn(p, tasks, id)
    ELSE IF EndsIn(p, tasks, {"loop"}) THEN VerdictTurn(p, tasks)
    ELSE IF EndsIn(p, tasks, {"rescue"}) THEN RescueTurn(p, tasks, id, {})
    ELSE SideTurn(p, tasks, SideCause(recs, Head(tasks).side), {})

\* and the agenda behind a turn without one.
QuietTo(p, tasks) ==
    IF Stops(p, tasks) THEN Tail(tasks)
    ELSE IF Leaves(p, tasks) THEN Left(p, tasks)
    ELSE IF AtDone(tasks) THEN Completed(p, tasks)
    ELSE IF AtItem(tasks) THEN Embarked(p, tasks)
    ELSE IF EndsIn(p, tasks, {"loop"}) THEN EndedUnjudged(p, tasks)
    ELSE IF EndsIn(p, tasks, {"rescue"}) THEN EndedUnrescued(p, tasks)
    ELSE IF EndsIn(p, tasks, {"alongside"}) THEN EndedAwaited(p, tasks)
    ELSE EndedArmOrVia(p, tasks)

\* The step is not refused by the abort flag.
Taken(p, recs, tasks) == Asks(p, recs, tasks) /\ ~IsAborted(p, Tail(tasks))

\* A side step the turn waits for has a smaller ID and is recorded.
Settled(p, recs, limit, tasks) ==
    EndsIn(p, tasks, {"alongside"}) => Head(tasks).side \in (1..limit - 1) \cap DOMAIN recs

\* The turn can be replayed: what it reads is recorded, under IDs below limit.
Goes(p, recs, limit, tasks, id) ==
    /\ ~EndsRoot(tasks)
    /\ Settled(p, recs, limit, tasks)
    /\ Taken(p, recs, tasks) =>
           id \in 1..limit - 1 /\ (Launches(p, tasks) \/ id \in DOMAIN recs)

\* The agenda behind a turn that is replayed, and the next step ID.
Behind(p, recs, tasks, id) ==
    LET turn == TurnOf(p, recs, tasks, id)
    IN  IF ~Asks(p, recs, tasks) THEN <<QuietTo(p, tasks), id>>
        ELSE IF IsAborted(p, Tail(tasks)) THEN <<Stopped(p, tasks, turn), id>>
        ELSE IF Launches(p, tasks) THEN <<turn.next["ok"], id + 1>>
        ELSE <<After(p, tasks, id, turn, recs[id].result), id + 1>>

\* T is an execution that replays its first m turns,
Path(p, recs, limit, m, T) ==
    /\ T[0] = <<Initial(p), 1>>
    /\ \A k \in 0..m - 1 :
           /\ Goes(p, recs, limit, T[k][1], T[k][2])
           /\ T[k + 1] = Behind(p, recs, T[k][1], T[k][2])

\* and comes to an agenda.
Reaches(p, recs, limit, tasks, id) ==
    \E m \in Nat : \E T : Path(p, recs, limit, m, T) /\ T[m] = <<tasks, id>>

\* What is recorded below limit stays recorded.
Preserves(recs, new, limit) ==
    \A id \in DOMAIN recs : id \in 1..limit - 1 => id \in DOMAIN new /\ new[id] = recs[id]

\* Every execution begins with the same agenda.
LEMMA Begins == \A p, recs, limit : Reaches(p, recs, limit, Initial(p), 1)
<1> SUFFICES ASSUME NEW p, NEW recs, NEW limit
             PROVE  Reaches(p, recs, limit, Initial(p), 1)
  OBVIOUS
<1> DEFINE T == [k \in 0..0 |-> <<Initial(p), 1>>]
<1>1. Path(p, recs, limit, 0, T) /\ T[0] = <<Initial(p), 1>>
  BY DEF Path
<1> QED BY <1>1 DEF Reaches

\* A turn that can be replayed is.
LEMMA GoesOn ==
    ASSUME NEW p, NEW recs, NEW limit, NEW tasks, NEW id,
           Reaches(p, recs, limit, tasks, id), Goes(p, recs, limit, tasks, id),
           NEW new, NEW next, Behind(p, recs, tasks, id) = <<new, next>>
    PROVE  Reaches(p, recs, limit, new, next)
<1>0. PICK m \in Nat : \E T : Path(p, recs, limit, m, T) /\ T[m] = <<tasks, id>>
  BY DEF Reaches
<1>1. PICK T : Path(p, recs, limit, m, T) /\ T[m] = <<tasks, id>>
  BY <1>0
<1> DEFINE U == [k \in 0..m + 1 |-> IF k <= m THEN T[k] ELSE <<new, next>>]
<1>2. U[m + 1] = <<new, next>> /\ \A k \in 0..m : U[k] = T[k]
  OBVIOUS
<1> HIDE DEF U
<1>3. U[0] = <<Initial(p), 1>>
  BY <1>1, <1>2 DEF Path
<1>4. ASSUME NEW k \in 0..m
      PROVE  /\ Goes(p, recs, limit, U[k][1], U[k][2])
             /\ U[k + 1] = Behind(p, recs, U[k][1], U[k][2])
  <2>1. CASE k = m
    BY <1>1, <1>2, <2>1
  <2>2. CASE k # m
    <3>1. k \in 0..m - 1 /\ k + 1 \in 0..m
      BY <2>2
    <3>2. U[k] = T[k] /\ U[k + 1] = T[k + 1]
      BY <1>2, <3>1
    <3> QED BY <1>1, <3>1, <3>2 DEF Path
  <2> QED BY <2>1, <2>2
<1>5. Path(p, recs, limit, m + 1, U)
  BY <1>3, <1>4 DEF Path
<1> QED BY <1>2, <1>5 DEF Reaches

\* More records change no turn that was replayed,
LEMMA SameSide ==
    ASSUME NEW p, NEW recs, NEW limit \in Int, NEW more \in Int, limit <= more, NEW new,
           Preserves(recs, new, limit), NEW tasks, Settled(p, recs, limit, tasks)
    PROVE  /\ Settled(p, new, more, tasks)
           /\ Asks(p, new, tasks) = Asks(p, recs, tasks)
           /\ Asks(p, recs, tasks) =>
                  \A id : TurnOf(p, new, tasks, id) = TurnOf(p, recs, tasks, id)
<1>1. EndsIn(p, tasks, {"alongside"}) =>
          SideCause(new, Head(tasks).side) = SideCause(recs, Head(tasks).side)
  BY DEF Settled, Preserves, SideCause
<1>2. Settled(p, new, more, tasks)
  BY DEF Settled, Preserves
<1>3. Asks(p, new, tasks) = Asks(p, recs, tasks)
  BY <1>1 DEF Asks
<1>4. ASSUME Asks(p, recs, tasks), NEW id
      PROVE  TurnOf(p, new, tasks, id) = TurnOf(p, recs, tasks, id)
  <2>1. ~AtDone(tasks) /\ ~AtItem(tasks) /\ ~EndsIn(p, tasks, {"loop"})
        /\ ~EndsIn(p, tasks, {"rescue"}) => EndsIn(p, tasks, {"alongside"})
    BY <1>4 DEF Asks, Completes, Takes
  <2> QED BY <1>1, <2>1 DEF TurnOf
<1> QED BY <1>2, <1>3, <1>4

\* nor where it leads,
LEMMA Transfer ==
    ASSUME NEW p, NEW recs, NEW limit \in Int, NEW more \in Int, limit <= more, NEW new,
           Preserves(recs, new, limit), NEW tasks, NEW id,
           Goes(p, recs, limit, tasks, id)
    PROVE  /\ Goes(p, new, more, tasks, id)
           /\ Behind(p, new, tasks, id) = Behind(p, recs, tasks, id)
<1>1. /\ Settled(p, new, more, tasks) /\ Asks(p, new, tasks) = Asks(p, recs, tasks)
      /\ Asks(p, recs, tasks) => TurnOf(p, new, tasks, id) = TurnOf(p, recs, tasks, id)
  BY SameSide DEF Goes
<1> QED BY <1>1 DEF Goes, Behind, Taken, Preserves

\* so an execution that was replayed is still.
LEMMA Carries ==
    ASSUME NEW p, NEW recs, NEW limit \in Int, NEW more \in Int, limit <= more, NEW new,
           Preserves(recs, new, limit), NEW tasks, NEW id,
           Reaches(p, recs, limit, tasks, id)
    PROVE  Reaches(p, new, more, tasks, id)
<1>0. PICK m \in Nat : \E T : Path(p, recs, limit, m, T) /\ T[m] = <<tasks, id>>
  BY DEF Reaches
<1>1. PICK T : Path(p, recs, limit, m, T) /\ T[m] = <<tasks, id>>
  BY <1>0
<1>2. Path(p, new, more, m, T)
  BY <1>1, Transfer DEF Path
<1> QED BY <1>1, <1>2 DEF Reaches

\* Two replays agree turn for turn,
LEMMA Deterministic ==
    ASSUME NEW p, NEW recs, NEW limit, NEW m \in Nat, NEW n \in Nat, m <= n, NEW T, NEW U,
           Path(p, recs, limit, m, T), Path(p, recs, limit, n, U)
    PROVE  T[m] = U[m]
<1> DEFINE Differ == {k \in 0..m : T[k] # U[k]}
<1>1. SUFFICES ASSUME Differ # {} PROVE FALSE
  OBVIOUS
<1>2. Differ \in SUBSET Nat
  OBVIOUS
<1>3. PICK k \in Differ : \A j \in Differ : k <= j
  <2> HIDE DEF Differ
  <2> QED BY <1>1, <1>2, MinIsLeast
<1>4. k # 0
  BY DEF Path
<1>5. k - 1 \in 0..m - 1 /\ k - 1 \in 0..n - 1 /\ k - 1 + 1 = k
  BY <1>4
<1>6. T[k - 1] = U[k - 1]
  BY <1>3, <1>5
<1>7. T[k] = U[k]
  BY <1>5, <1>6 DEF Path
<1> QED BY <1>7

\* so there is one agenda at which they stop.
LEMMA Unique ==
    ASSUME NEW p, NEW recs, NEW limit, NEW tasks, NEW id, NEW others, NEW other,
           Reaches(p, recs, limit, tasks, id), ~Goes(p, recs, limit, tasks, id),
           Reaches(p, recs, limit, others, other), ~Goes(p, recs, limit, others, other)
    PROVE  tasks = others /\ id = other
<1>0. PICK m \in Nat : \E T : Path(p, recs, limit, m, T) /\ T[m] = <<tasks, id>>
  BY DEF Reaches
<1>1. PICK T : Path(p, recs, limit, m, T) /\ T[m] = <<tasks, id>>
  BY <1>0
<1>1a. PICK n \in Nat : \E U : Path(p, recs, limit, n, U) /\ U[n] = <<others, other>>
  BY DEF Reaches
<1>2. PICK U : Path(p, recs, limit, n, U) /\ U[n] = <<others, other>>
  BY <1>1a
<1>3. m <= n => T[m] = U[m]
  BY <1>1, <1>2, Deterministic
<1>4. n <= m => U[n] = T[n]
  BY <1>1, <1>2, Deterministic
<1>5. ~(m < n)
  <2>1. SUFFICES ASSUME m < n PROVE FALSE
    OBVIOUS
  <2>2. m \in 0..n - 1 /\ U[m] = <<tasks, id>>
    BY <1>1, <1>3, <2>1
  <2> QED BY <1>2, <2>2 DEF Path
<1>6. ~(n < m)
  <2>1. SUFFICES ASSUME n < m PROVE FALSE
    OBVIOUS
  <2>2. n \in 0..m - 1 /\ T[n] = <<others, other>>
    BY <1>2, <1>4, <2>1
  <2> QED BY <1>1, <2>2 DEF Path
<1>7. m = n
  BY <1>5, <1>6
<1> QED BY <1>1, <1>2, <1>3, <1>7

-----------------------------------------------------------------------------
(* The inductive invariant, and what carries over.                         *)

\* An end that waits for a side step.
IsSide(p, task) == task.op = "end" /\ OwnedBy(p, task.pipe, {"alongside"})

\* asked is what the step with this ID asks for, when the smaller IDs are replayed.
Told(p, recs, id, asked) ==
    \E tasks : /\ Reaches(p, recs, id, tasks, id)
               /\ Taken(p, recs, tasks) /\ Settled(p, recs, id, tasks)
               /\ TurnOf(p, recs, tasks, id).asks = asked

\* An execution runs the recorded shape.
Shaped ==
    /\ shape = <<>> => DOMAIN records = {} /\ outcomes = {}
    /\ Running => program = shape /\ nextID # 0
\* Some end waits for every side step in flight.
SidesAwaited ==
    Running => \A id \in DOMAIN flying :
                   \E i \in 1..Len(agenda) : IsSide(program, agenda[i]) /\ agenda[i].side = id
\* A side step that an end waits for flies or is recorded.
SidesTaken ==
    Running /\ halt = "no" =>
        \A i \in 1..Len(agenda) : IsSide(program, agenda[i]) =>
            agenda[i].side \in 1..nextID - 1 /\ agenda[i].side \in DOMAIN flying \cup DOMAIN records
\* Side steps are Alongsides'.
SidesAsk ==
    \A id \in DOMAIN flying : /\ flying[id].at \in Locations(shape)
                              /\ Stage(shape, flying[id].at).kind = "alongside"
\* A record's result is one its stage may return.
RecordsAnswer ==
    \A id \in DOMAIN records : /\ records[id].asked.at \in Locations(shape)
                               /\ records[id].result \in Results(shape, records[id].asked.at)
\* An undisturbed execution is where the records lead.
Replayed == Running /\ halt = "no" => Reaches(shape, records, nextID, agenda, nextID)
\* Every record, and every side step in flight, is what the records before it lead to.
Explained ==
    /\ \A id \in DOMAIN records : Told(shape, records, id, records[id].asked)
    /\ \A id \in DOMAIN flying : Told(shape, records, id, flying[id])
\* Every outcome is one the records lead to.
Concluded ==
    \A result \in outcomes : \E tasks : \E id \in Nat :
        Reaches(shape, records, id, tasks, id) /\ EndsRoot(tasks) /\ result = Outcome(tasks)

\* The inductive invariant.
IInv ==
    /\ TypeOK /\ NoMisread /\ NoStepOutlives
    /\ Shaped /\ SidesAwaited /\ SidesTaken /\ SidesAsk /\ RecordsAnswer
    /\ Replayed /\ Explained /\ Concluded

\* What the goroutine's steps leave alone.
Framed == UNCHANGED <<deployed, phase, halt, results, bounds>>

\* What is known of a run that executes.
LEMMA Executing ==
    ASSUME IInv, Running
    PROVE  /\ program \in Programs /\ WellFormed(program) /\ shape = program
           /\ agenda \in Seq(Tasks(program)) /\ Nested(program, agenda)
           /\ nextID \in Nat /\ nextID >= 1
BY ReplayAssumption DEF IInv, TypeOK, Shaped, Running

\* What side steps are owed carries over a turn.
LEMMA SidesFollow ==
    ASSUME IInv, Running, ~EndsRoot(agenda), Framed, NEW sides \in SUBSET {nextID},
           Onto(program, agenda', Tail(agenda), sides),
           EndsIn(program, agenda, {"alongside"}) => Head(agenda).side \notin DOMAIN flying,
           nextID' \in {nextID, nextID + 1}, sides # {} => nextID' = nextID + 1,
           DOMAIN records \subseteq DOMAIN records', DOMAIN flying \subseteq DOMAIN flying',
           sides \subseteq DOMAIN flying' \cup DOMAIN records',
           \A id \in DOMAIN flying' \ DOMAIN flying :
               \E i \in 1..Len(agenda') :
                   IsSide(program, agenda'[i]) /\ agenda'[i].side = id
    PROVE  /\ agenda' \in Seq(Tasks(program')) /\ Nested(program', agenda')
           /\ SidesAwaited' /\ SidesTaken'
<1> DEFINE old == Tail(agenda)
           d == Len(agenda') - Len(old)
<1>1. /\ WellFormed(program) /\ agenda \in Seq(Tasks(program)) /\ Nested(program, agenda)
      /\ nextID \in Nat /\ nextID >= 1
  BY Executing
<1>2. program' = program /\ halt' = halt /\ phase' = phase
  BY DEF Framed, deployed
<1>3. agenda' \in Seq(Tasks(program)) /\ Nested(program, agenda')
  BY <1>1, NestedOnto DEF Onto
<1>4. /\ Len(agenda) > 1 /\ Len(agenda) \in Nat /\ Len(old) = Len(agenda) - 1
      /\ \A i \in 1..Len(old) : old[i] = agenda[i + 1]
      /\ Head(agenda) = agenda[1]
  BY <1>1, HeadIs
<1>0. Onto(program, agenda', old, sides) /\ Len(agenda') \in Nat
  BY <1>3
<1> HIDE DEF old
<1>5. /\ Len(agenda') \in Nat /\ Len(old) <= Len(agenda')
      /\ \A j \in 1..Len(old) : Alike(agenda'[d + j], old[j])
      /\ \A i \in 1..d : IsSide(program, agenda'[i]) => agenda'[i].side \in sides
  BY <1>0 DEF Onto, IsSide
<1>6. \A t, u : Alike(t, u) => /\ IsSide(program, t) <=> IsSide(program, u)
                               /\ IsSide(program, u) => t.side = u.side
  BY DEF Alike, IsSide
<1>7. SidesAwaited'
  <2>1. SUFFICES ASSUME NEW id \in DOMAIN flying'
                 PROVE  \E i \in 1..Len(agenda') :
                            IsSide(program, agenda'[i]) /\ agenda'[i].side = id
    BY <1>2 DEF SidesAwaited
  <2>2. CASE id \in DOMAIN flying
    <3>1. PICK i \in 1..Len(agenda) : IsSide(program, agenda[i]) /\ agenda[i].side = id
      BY <2>2 DEF IInv, SidesAwaited
    <3>2. i # 1
      BY <1>4, <2>2, <3>1 DEF IsSide, EndsIn
    <3> DEFINE j == i - 1
    <3>3. j \in 1..Len(old) /\ old[j] = agenda[i]
      BY <1>4, <3>1, <3>2
    <3> HIDE DEF j
    <3>4. Alike(agenda'[d + j], agenda[i])
      BY <1>5, <3>3
    <3>5. d + j \in 1..Len(agenda')
      BY <1>4, <1>5, <3>3
    <3>6. IsSide(program, agenda'[d + j]) /\ agenda'[d + j].side = id
      BY <1>6, <3>1, <3>4
    <3> HIDE DEF d
    <3> QED BY <3>5, <3>6
  <2>3. CASE id \notin DOMAIN flying
    BY <2>3
  <2> QED BY <2>2, <2>3
<1>8. SidesTaken'
  <2>1. SUFFICES ASSUME Running, halt = "no", NEW i \in 1..Len(agenda'),
                        IsSide(program, agenda'[i])
                 PROVE  /\ agenda'[i].side \in 1..nextID' - 1
                        /\ agenda'[i].side \in DOMAIN flying' \cup DOMAIN records'
    BY <1>2 DEF SidesTaken, Running
  <2>2. CASE i \in 1..d
    <3>1. agenda'[i].side \in sides
      BY <1>5, <2>1, <2>2
    <3>2. agenda'[i].side = nextID /\ nextID' = nextID + 1
      BY <3>1
    <3>3. agenda'[i].side \in 1..nextID' - 1
      BY <1>1, <3>2
    <3>4. agenda'[i].side \in DOMAIN flying' \cup DOMAIN records'
      BY <3>1
    <3> QED BY <3>3, <3>4
  <2>3. CASE i \notin 1..d
    <3> DEFINE j == i - d
    <3>1. j \in 1..Len(old) /\ d + j = i /\ j + 1 \in 1..Len(agenda)
      BY <1>4, <1>5, <2>3
    <3> HIDE DEF j, d
    <3>2. Alike(agenda'[i], agenda[j + 1])
      BY <1>4, <1>5, <3>1
    <3>3. IsSide(program, agenda[j + 1]) /\ agenda'[i].side = agenda[j + 1].side
      BY <1>6, <2>1, <3>2
    <3>4. /\ agenda[j + 1].side \in 1..nextID - 1
          /\ agenda[j + 1].side \in DOMAIN flying \cup DOMAIN records
      BY <2>1, <3>1, <3>3 DEF IInv, SidesTaken
    <3> QED BY <1>1, <3>3, <3>4
  <2> QED BY <2>2, <2>3
<1> QED BY <1>2, <1>3, <1>7, <1>8

\* Steps recorded in addition change nothing for what is already explained.
LEMMA StillTold ==
    ASSUME NEW p, NEW recs, NEW new, NEW id \in Int, NEW asked,
           Told(p, recs, id, asked), Preserves(recs, new, id)
    PROVE  Told(p, new, id, asked)
<1>1. PICK tasks : /\ Reaches(p, recs, id, tasks, id)
                   /\ Taken(p, recs, tasks) /\ Settled(p, recs, id, tasks)
                   /\ TurnOf(p, recs, tasks, id).asks = asked
  BY DEF Told
<1>2. Reaches(p, new, id, tasks, id)
  BY <1>1, Carries
<1>3. /\ Settled(p, new, id, tasks) /\ Asks(p, new, tasks)
      /\ TurnOf(p, new, tasks, id) = TurnOf(p, recs, tasks, id)
  BY <1>1, SameSide DEF Taken
<1> QED BY <1>1, <1>2, <1>3 DEF Told, Taken

\* Outcomes stay explained.
LEMMA StillConcluded ==
    ASSUME Concluded, outcomes' \subseteq outcomes, shape' = shape \/ outcomes = {},
           \A id \in Int : Preserves(records, records', id)
    PROVE  Concluded'
<1>1. SUFFICES ASSUME NEW result \in outcomes, shape' = shape
               PROVE  \E tasks : \E id \in Nat :
                          /\ Reaches(shape, records', id, tasks, id)
                          /\ EndsRoot(tasks) /\ result = Outcome(tasks)
  BY DEF Concluded
<1>2. PICK tasks : \E id \in Nat :
          Reaches(shape, records, id, tasks, id) /\ EndsRoot(tasks) /\ result = Outcome(tasks)
  BY DEF Concluded
<1>0. PICK id \in Nat :
          Reaches(shape, records, id, tasks, id) /\ EndsRoot(tasks) /\ result = Outcome(tasks)
  BY <1>2
<1>3. Reaches(shape, records', id, tasks, id)
  BY <1>0, Carries
<1> QED BY <1>0, <1>3

-----------------------------------------------------------------------------
(* Turns without a record.                                                 *)

\* A turn that ends an Alongside has waited for its side step.
Waited == EndsIn(program, agenda, {"alongside"}) => Head(agenda).side \notin DOMAIN flying

\* What it waited for is recorded.
LEMMA HeadSettled ==
    ASSUME IInv, Running, halt = "no", ~EndsRoot(agenda), Waited
    PROVE  Settled(program, records, nextID, agenda)
<1>1. agenda[1] = Head(agenda) /\ 1 \in 1..Len(agenda)
  BY Executing, HeadIs
<1>2. SUFFICES ASSUME EndsIn(program, agenda, {"alongside"})
               PROVE  Head(agenda).side \in (1..nextID - 1) \cap DOMAIN records
  BY DEF Settled
<1>3. IsSide(program, agenda[1])
  BY <1>1, <1>2 DEF IsSide, EndsIn
<1>4. /\ agenda[1].side \in 1..nextID - 1
      /\ agenda[1].side \in DOMAIN flying \cup DOMAIN records
  BY <1>1, <1>3 DEF IInv, SidesTaken
<1> QED BY <1>1, <1>2, <1>4 DEF Waited

\* The next step ID is not in flight.
LEMMA FlyingBefore ==
    ASSUME IInv, Running, halt = "no"
    PROVE  nextID \notin DOMAIN flying
<1>1. SUFFICES ASSUME nextID \in DOMAIN flying PROVE FALSE
  OBVIOUS
<1>2. PICK i \in 1..Len(agenda) : IsSide(program, agenda[i]) /\ agenda[i].side = nextID
  BY <1>1 DEF IInv, SidesAwaited
<1>3. nextID \in 1..nextID - 1 /\ nextID \in Nat
  BY <1>2, Executing DEF IInv, SidesTaken
<1> QED BY <1>3

\* The agenda that a step was recorded for is the agenda that reads its record.
LEMMA SameStep ==
    ASSUME IInv, Running, halt = "no", ~EndsRoot(agenda), Waited,
           Taken(program, records, agenda), nextID \in DOMAIN records
    PROVE  records[nextID].asked = TurnOf(program, records, agenda, nextID).asks
<1>1. shape = program /\ nextID \in Nat
  BY Executing
<1>2. Reaches(program, records, nextID, agenda, nextID)
  BY <1>1 DEF IInv, Replayed
<1>3. Told(program, records, nextID, records[nextID].asked)
  BY <1>1 DEF IInv, Explained
<1>4. PICK tasks : /\ Reaches(program, records, nextID, tasks, nextID)
                   /\ Taken(program, records, tasks)
                   /\ TurnOf(program, records, tasks, nextID).asks = records[nextID].asked
  BY <1>3 DEF Told
<1>5. nextID \notin 1..nextID - 1
  BY <1>1
<1>6. /\ ~Goes(program, records, nextID, agenda, nextID)
      /\ ~Goes(program, records, nextID, tasks, nextID)
  BY <1>4, <1>5 DEF Goes
<1>7. tasks = agenda
  BY <1>2, <1>4, <1>6, Unique
<1> QED BY <1>4, <1>7

\* A turn takes the replay along.
LEMMA Advances ==
    ASSUME IInv, Running, halt = "no", ~EndsRoot(agenda), Waited, NEW recs,
           \A id \in Int : Preserves(records, recs, id),
           Taken(program, records, agenda) => Launches(program, agenda) \/ nextID \in DOMAIN recs,
           NEW next \in {nextID, nextID + 1}, Taken(program, records, agenda) => next = nextID + 1,
           NEW tasks, Behind(program, recs, agenda, nextID) = <<tasks, next>>
    PROVE  /\ Reaches(program, recs, next, tasks, next)
           /\ Reaches(program, recs, nextID, agenda, nextID)
           /\ Settled(program, recs, nextID, agenda)
           /\ Asks(program, recs, agenda) = Asks(program, records, agenda)
           /\ Asks(program, records, agenda) => TurnOf(program, recs, agenda, nextID)
                                                = TurnOf(program, records, agenda, nextID)
<1>1. shape = program /\ nextID \in Nat /\ nextID >= 1
  BY Executing
<1>2. Reaches(program, records, nextID, agenda, nextID)
  BY <1>1 DEF IInv, Replayed
<1>3. Settled(program, records, nextID, agenda)
  BY HeadSettled
<1>4. /\ Settled(program, recs, nextID, agenda) /\ Settled(program, recs, next, agenda)
      /\ Asks(program, recs, agenda) = Asks(program, records, agenda)
      /\ Asks(program, records, agenda) => TurnOf(program, recs, agenda, nextID)
                                           = TurnOf(program, records, agenda, nextID)
  BY <1>1, <1>3, SameSide
<1>5. Reaches(program, recs, nextID, agenda, nextID) /\ Reaches(program, recs, next, agenda, nextID)
  BY <1>1, <1>2, Carries
<1>6. Goes(program, recs, next, agenda, nextID)
  BY <1>1, <1>4 DEF Goes, Taken
<1>7. Reaches(program, recs, next, tasks, next)
  BY <1>5, <1>6, GoesOn
<1> QED BY <1>4, <1>5, <1>7

\* A turn that records nothing.
LEMMA UnrecordedKeeps ==
    ASSUME IInv, Running, ~EndsRoot(agenda), Waited, Framed,
           UNCHANGED <<records, misread, live, flying>>, nextID' \in {nextID, nextID + 1},
           Onto(program, agenda', Tail(agenda), {}),
           halt = "no" => Reaches(program, records, nextID', agenda', nextID')
    PROVE  IInv'
<1>1. /\ agenda' \in Seq(Tasks(program')) /\ Nested(program', agenda')
      /\ SidesAwaited' /\ SidesTaken'
  BY SidesFollow DEF Waited
<1>2. shape = program /\ nextID \in Nat /\ nextID >= 1
  BY Executing
<1>3. UNCHANGED <<program, shape, phase, halt, outcome, outcomes, crashes, forks>>
  BY DEF Framed, deployed, results, bounds
<1>4. nextID' \in Nat /\ nextID' # 0
  BY <1>2
<1>5. TypeOK'
  BY <1>1, <1>3, <1>4 DEF IInv, TypeOK
<1>6. NoMisread' /\ NoStepOutlives'
  BY <1>3 DEF IInv, NoMisread, NoStepOutlives
<1>7. Shaped' /\ SidesAsk' /\ RecordsAnswer' /\ Explained' /\ Concluded'
  BY <1>3, <1>4 DEF IInv, Shaped, Running, SidesAsk, RecordsAnswer, Explained, Concluded
<1>8. Replayed'
  BY <1>2, <1>3 DEF Replayed
<1> QED BY <1>1, <1>5, <1>6, <1>7, <1>8 DEF IInv

\* A turn without a step.
LEMMA QuietKeeps ==
    ASSUME IInv, Running, ~EndsRoot(agenda), Waited, ~Asks(program, records, agenda),
           NEW tasks, tasks = QuietTo(program, agenda), Quiet(tasks),
           Onto(program, tasks, Tail(agenda), {})
    PROVE  IInv'
<1>1. /\ agenda' = tasks
      /\ UNCHANGED <<nextID, records, misread, live, flying>> /\ Framed
  BY DEF Quiet, Untouched, Framed, database
<1>2. Behind(program, records, agenda, nextID) = <<tasks, nextID>>
  BY DEF Behind
<1>3. ASSUME halt = "no" PROVE Reaches(program, records, nextID, tasks, nextID)
  <2>1. \A id \in Int : Preserves(records, records, id)
    BY DEF Preserves
  <2>2. ~Taken(program, records, agenda)
    BY DEF Taken
  <2> QED BY <1>2, <1>3, <2>1, <2>2, Advances
<1> QED BY <1>1, <1>3, UnrecordedKeeps

-----------------------------------------------------------------------------
(* Turns with one.                                                         *)

\* A turn that records the next step.
LEMMA RecordedKeeps ==
    ASSUME IInv, Running, halt = "no", ~EndsRoot(agenda), Waited, Framed,
           Taken(program, records, agenda), ~Launches(program, agenda),
           nextID \notin DOMAIN records, nextID' = nextID + 1,
           UNCHANGED <<misread, flying>>, live' \subseteq live \cup {nextID},
           NEW turn, turn = TurnOf(program, records, agenda, nextID),
           turn.asks.at \in Locations(program),
           NEW result \in Results(program, turn.asks.at),
           records' = With(records, nextID, [asked |-> turn.asks, result |-> result]),
           agenda' = After(program, agenda, nextID, turn, result),
           Onto(program, agenda', Tail(agenda), {})
    PROVE  IInv'
<1> DEFINE entry == [asked |-> turn.asks, result |-> result]
<1>1. shape = program /\ nextID \in Nat /\ nextID >= 1
  BY Executing
<1>0. records' = With(records, nextID, entry) /\ entry.result = result /\ entry.asked = turn.asks
  OBVIOUS
<1> HIDE DEF entry
<1>2. /\ DOMAIN records' = DOMAIN records \cup {nextID} /\ records'[nextID] = entry
      /\ \A id \in DOMAIN records : records'[id] = records[id]
      /\ \A id \in Int : Preserves(records, records', id)
  BY <1>0 DEF With, Preserves
<1>3. /\ agenda' \in Seq(Tasks(program')) /\ Nested(program', agenda')
      /\ SidesAwaited' /\ SidesTaken'
  BY <1>2, SidesFollow DEF Waited
<1>4. UNCHANGED <<program, shape, phase, halt, outcome, outcomes, crashes, forks>>
  BY DEF Framed, deployed, results, bounds
<1>5. nextID \notin DOMAIN flying
  BY FlyingBefore
<1>6. TypeOK'
  BY <1>1, <1>2, <1>3, <1>4, <1>5 DEF IInv, TypeOK
<1>7. NoMisread' /\ NoStepOutlives'
  BY <1>4 DEF IInv, NoMisread, NoStepOutlives
<1>8. Shaped'
  <2>1. shape # <<>>
    BY <1>1, Executing DEF WellFormed
  <2> QED BY <1>1, <1>4, <2>1 DEF Shaped, Running
<1>9. SidesAsk'
  BY <1>4 DEF IInv, SidesAsk
<1>10. RecordsAnswer'
  BY <1>0, <1>1, <1>2, <1>4 DEF IInv, RecordsAnswer
<1>11. Asks(program, records, agenda) /\ ~IsAborted(program, Tail(agenda))
  BY DEF Taken
<1>12. /\ Reaches(program, records', nextID', agenda', nextID')
       /\ Reaches(program, records', nextID, agenda, nextID)
       /\ Settled(program, records', nextID, agenda)
       /\ Asks(program, records', agenda)
       /\ TurnOf(program, records', agenda, nextID) = turn
  <2> DEFINE recs == records'
  <2>1. nextID \in DOMAIN recs /\ recs[nextID].result = result
    BY <1>0, <1>2
  <2> HIDE DEF recs
  <2>3. /\ Asks(program, recs, agenda)
        /\ TurnOf(program, recs, agenda, nextID) = turn
    <3>1. Settled(program, records, nextID, agenda)
      BY HeadSettled
    <3>2. Preserves(records, recs, nextID)
      BY <1>1, <1>2 DEF recs
    <3> QED BY <1>1, <1>11, <3>1, <3>2, SameSide
  <2>4. Behind(program, recs, agenda, nextID) = <<agenda', nextID'>>
    BY <1>11, <2>1, <2>3 DEF Behind
  <2>5. \A id \in Int : Preserves(records, recs, id)
    BY <1>2 DEF recs
  <2>6. /\ Reaches(program, recs, nextID', agenda', nextID')
        /\ Reaches(program, recs, nextID, agenda, nextID)
        /\ Settled(program, recs, nextID, agenda)
    BY <2>1, <2>4, <2>5, Advances
  <2> QED BY <2>3, <2>6 DEF recs
<1>13. Replayed'
  BY <1>1, <1>4, <1>12 DEF Replayed
<1>14. Explained'
  <2>1. ASSUME NEW id \in DOMAIN records PROVE Told(shape, records', id, records'[id].asked)
    <3>1. id \in Nat /\ Told(shape, records, id, records[id].asked)
      BY DEF IInv, TypeOK, Explained
    <3> QED BY <1>2, <3>1, StillTold
  <2>2. ASSUME NEW id \in DOMAIN flying PROVE Told(shape, records', id, flying[id])
    <3>1. id \in Nat /\ Told(shape, records, id, flying[id])
      BY DEF IInv, TypeOK, Explained
    <3> QED BY <1>2, <3>1, StillTold
  <2>3. Told(shape, records', nextID, records'[nextID].asked)
    BY <1>0, <1>1, <1>2, <1>11, <1>12 DEF Told, Taken
  <2> QED BY <1>2, <1>4, <2>1, <2>2, <2>3 DEF Explained
<1>15. Concluded'
  BY <1>2, <1>4, StillConcluded DEF IInv
<1> QED BY <1>3, <1>6, <1>7, <1>8, <1>9, <1>10, <1>13, <1>14, <1>15 DEF IInv

\* A turn with one, however it fares.
LEMMA RunStepKeeps ==
    ASSUME IInv, Running, ~EndsRoot(agenda), Waited, Asks(program, records, agenda),
           ~Launches(program, agenda), NEW turn, RunStep(turn), Untouched,
           turn = TurnOf(program, records, agenda, nextID), Sound(program, agenda, turn, {})
    PROVE  IInv'
<1>1. /\ WellFormed(program) /\ shape = program /\ agenda \in Seq(Tasks(program))
      /\ Nested(program, agenda) /\ nextID \in Nat
  BY Executing
<1>2. Framed /\ UNCHANGED flying
  BY DEF Untouched, Framed
<1>3. \A id \in Int : Preserves(records, records, id)
  BY DEF Preserves
<1>4. /\ Onto(program, Stopped(program, agenda, turn), Tail(agenda), {})
      /\ Onto(program, Denied(program, agenda, turn), Tail(agenda), {})
      /\ \A result \in Results(program, turn.asks.at) :
             Onto(program, After(program, agenda, nextID, turn, result), Tail(agenda), {})
  BY <1>1, AfterOnto
<1>5. CASE /\ Barred /\ agenda' = Stopped(program, agenda, turn)
           /\ UNCHANGED <<nextID, database, live>>
  <2>1. UNCHANGED <<records, misread, live, nextID>> /\ ~Taken(program, records, agenda)
    BY <1>5 DEF database, Taken, Barred
  <2>2. Behind(program, records, agenda, nextID) = <<Stopped(program, agenda, turn), nextID>>
    BY <1>5 DEF Behind, Barred
  <2>3. ASSUME halt = "no"
        PROVE  Reaches(program, records, nextID, Stopped(program, agenda, turn), nextID)
    BY <1>3, <2>1, <2>2, <2>3, Advances
  <2> QED BY <1>2, <1>4, <1>5, <2>1, <2>3, UnrecordedKeeps
<1>6. CASE /\ ~Barred /\ halt # "no" /\ nextID' = nextID + 1
           /\ agenda' = Denied(program, agenda, turn) /\ UNCHANGED <<database, live>>
  BY <1>2, <1>4, <1>6, UnrecordedKeeps DEF database
<1>7. CASE /\ ~Barred /\ halt = "no" /\ nextID \in DOMAIN records /\ nextID' = nextID + 1
           /\ agenda' = After(program, agenda, nextID, turn, Recorded(nextID))
           /\ misread' = (misread \/ records[nextID].asked # turn.asks)
           /\ UNCHANGED <<records, live>>
  <2>1. Taken(program, records, agenda)
    BY <1>7 DEF Taken, Barred
  <2>2. records[nextID].asked = turn.asks
    BY <1>7, <2>1, SameStep
  <2>3. UNCHANGED misread
    BY <1>7, <2>2 DEF IInv, TypeOK
  <2> DEFINE new == After(program, agenda, nextID, turn, records[nextID].result)
  <2>4. Onto(program, new, Tail(agenda), {})
    BY <1>1, <1>4, <1>7, <2>2 DEF IInv, RecordsAnswer
  <2>5. Behind(program, records, agenda, nextID) = <<new, nextID + 1>>
    BY <2>1 DEF Behind, Taken
  <2>6. agenda' = new
    BY <1>7 DEF Recorded
  <2> HIDE DEF new
  <2>7. Reaches(program, records, nextID + 1, new, nextID + 1)
    BY <1>3, <1>7, <2>5, Advances
  <2> QED BY <1>2, <1>7, <2>3, <2>4, <2>6, <2>7, UnrecordedKeeps
<1>8. CASE /\ ~Barred /\ halt = "no" /\ nextID \notin DOMAIN records /\ nextID' = nextID + 1
           /\ \E result \in Results(program, turn.asks.at) :
                 /\ records' = With(records, nextID, [asked |-> turn.asks, result |-> result])
                 /\ agenda' = After(program, agenda, nextID, turn, result)
                 /\ live' = IF result = "error" THEN live \cup {nextID} ELSE live
           /\ UNCHANGED misread
  <2>1. Taken(program, records, agenda)
    BY <1>8 DEF Taken, Barred
  <2>2. PICK result \in Results(program, turn.asks.at) :
           /\ records' = With(records, nextID, [asked |-> turn.asks, result |-> result])
           /\ agenda' = After(program, agenda, nextID, turn, result)
           /\ live' = IF result = "error" THEN live \cup {nextID} ELSE live
    BY <1>8
  <2>3. turn.asks.at \in Locations(program) /\ live' \subseteq live \cup {nextID}
    BY <2>2 DEF Sound
  <2>4. Onto(program, agenda', Tail(agenda), {})
    BY <1>4, <2>2
  <2> QED BY <1>2, <1>8, <2>1, <2>2, <2>3, <2>4, RecordedKeeps
<1> QED BY <1>5, <1>6, <1>7, <1>8 DEF RunStep

-----------------------------------------------------------------------------
(* Launching a side step.                                                  *)

\* A launch that DBOS lets through: the side step flies, or it is recorded.
LEMMA LaunchedKeeps ==
    ASSUME IInv, Running, halt = "no", ~EndsRoot(agenda), Waited, Framed,
           Launches(program, agenda), Taken(program, records, agenda),
           UNCHANGED <<records, misread, live>>, nextID' = nextID + 1,
           NEW turn, turn = LaunchTurn(program, agenda, nextID),
           turn = TurnOf(program, records, agenda, nextID), agenda' = turn.next["ok"],
           \/ nextID \in DOMAIN records /\ UNCHANGED flying
           \/ nextID \notin DOMAIN records /\ flying' = With(flying, nextID, turn.asks)
    PROVE  IInv'
<1> DEFINE asks == turn.asks
<1>1. /\ shape = program /\ nextID \in Nat /\ nextID >= 1 /\ WellFormed(program)
      /\ agenda \in Seq(Tasks(program)) /\ Nested(program, agenda)
  BY Executing
<1>2. nextID \notin DOMAIN flying
  BY FlyingBefore
<1>3. /\ asks.at \in Locations(program) /\ Stage(program, asks.at).kind = "alongside"
      /\ Onto(program, agenda', Tail(agenda), {nextID})
      /\ 3 \in 1..Len(agenda') /\ IsSide(program, agenda'[3]) /\ agenda'[3].side = nextID
  <2> DEFINE launch == LaunchTurn(program, agenda, nextID)
             new == launch.next["ok"]
  <2>0. /\ Sound(program, agenda, launch, {nextID})
        /\ Onto(program, new, Tail(agenda), {nextID})
        /\ Stage(program, launch.asks.at).kind = "alongside"
        /\ 3 \in 1..Len(new) /\ new[3].op = "end" /\ new[3].side = nextID
        /\ OwnedBy(program, new[3].pipe, {"alongside"})
    BY <1>1, LaunchSound
  <2>2. launch = turn /\ new = agenda'
    OBVIOUS
  <2> HIDE DEF launch, new
  <2>1. /\ Sound(program, agenda, turn, {nextID})
        /\ Onto(program, agenda', Tail(agenda), {nextID})
        /\ Stage(program, turn.asks.at).kind = "alongside"
        /\ 3 \in 1..Len(agenda') /\ agenda'[3].op = "end" /\ agenda'[3].side = nextID
        /\ OwnedBy(program, agenda'[3].pipe, {"alongside"})
    BY <2>0, <2>2
  <2> QED BY <2>1 DEF Sound, IsSide
<1> HIDE DEF asks
<1>4. /\ DOMAIN flying \subseteq DOMAIN flying'
      /\ DOMAIN flying' \subseteq DOMAIN flying \cup {nextID}
      /\ \A id \in DOMAIN flying : flying'[id] = flying[id]
      /\ nextID \in DOMAIN flying' => flying'[nextID] = asks
      /\ nextID \in DOMAIN flying' \cup DOMAIN records
      /\ DOMAIN flying' \cap DOMAIN records = {}
  <2>1. DOMAIN flying \cap DOMAIN records = {}
    BY DEF IInv, TypeOK
  <2>2. CASE nextID \in DOMAIN records /\ UNCHANGED flying
    BY <1>2, <2>1, <2>2
  <2>3. CASE nextID \notin DOMAIN records /\ flying' = With(flying, nextID, asks)
    BY <1>2, <2>1, <2>3 DEF With
  <2> QED BY <2>2, <2>3 DEF asks
<1>5. UNCHANGED <<program, shape, phase, halt, outcome, outcomes, crashes, forks>>
  BY DEF Framed, deployed, results, bounds
<1>6. /\ agenda' \in Seq(Tasks(program')) /\ Nested(program', agenda')
      /\ SidesAwaited' /\ SidesTaken'
  <2>1. ~EndsIn(program, agenda, {"alongside"})
    BY DEF Launches, Takes, AtItem, EndsIn
  <2>2. DOMAIN records \subseteq DOMAIN records'
    OBVIOUS
  <2>3. \A id \in DOMAIN flying' \ DOMAIN flying : \E i \in 1..Len(agenda') :
            IsSide(program, agenda'[i]) /\ agenda'[i].side = id
    BY <1>3, <1>4
  <2> DEFINE sides == {nextID}
  <2>4. sides \in SUBSET {nextID} /\ sides \subseteq DOMAIN flying' \cup DOMAIN records'
    BY <1>4
  <2>5. Onto(program, agenda', Tail(agenda), sides)
    BY <1>3
  <2> HIDE DEF sides
  <2> QED BY <1>4, <2>1, <2>2, <2>3, <2>4, <2>5, SidesFollow
<1>7. TypeOK'
  BY <1>1, <1>4, <1>5, <1>6 DEF IInv, TypeOK
<1>8. NoMisread' /\ NoStepOutlives' /\ Shaped' /\ RecordsAnswer' /\ Concluded'
  BY <1>1, <1>5 DEF IInv, NoMisread, NoStepOutlives, Shaped, Running, RecordsAnswer, Concluded
<1>9. SidesAsk'
  BY <1>1, <1>3, <1>4, <1>5 DEF IInv, SidesAsk
<1>10. Asks(program, records, agenda) /\ ~IsAborted(program, Tail(agenda))
  BY DEF Taken
<1>11. Reaches(program, records, nextID + 1, agenda', nextID + 1)
  <2>1. \A id \in Int : Preserves(records, records, id)
    BY DEF Preserves
  <2>2. Behind(program, records, agenda, nextID) = <<agenda', nextID + 1>>
    BY <1>10 DEF Behind
  <2> QED BY <2>1, <2>2, Advances
<1>12. Told(program, records, nextID, asks)
  <2>1. Reaches(program, records, nextID, agenda, nextID)
    BY <1>1 DEF IInv, Replayed
  <2> QED BY <2>1, HeadSettled DEF Told, asks
<1>13. Explained'
  BY <1>1, <1>4, <1>5, <1>12 DEF IInv, Explained
<1>14. Replayed'
  BY <1>1, <1>5, <1>11 DEF Replayed
<1> QED BY <1>6, <1>7, <1>8, <1>9, <1>13, <1>14 DEF IInv

\* Each action preserves the invariant.
LEMMA LaunchKeeps == ASSUME IInv, Launch PROVE IInv'
<1> DEFINE turn == LaunchTurn(program, agenda, nextID)
<1>1. /\ Running /\ Launches(program, agenda) /\ AtItem(agenda)
      /\ Framed /\ UNCHANGED <<records, live>>
  BY DEF Launch, Launches, Takes, Running, Framed
<1>2. /\ WellFormed(program) /\ shape = program /\ agenda \in Seq(Tasks(program))
      /\ Nested(program, agenda) /\ nextID \in Nat
  BY <1>1, Executing
<1>3. ~EndsRoot(agenda) /\ ~EndsIn(program, agenda, {"alongside"}) /\ Waited
  BY <1>1 DEF AtItem, EndsRoot, EndsIn, Waited
<1>4. Asks(program, records, agenda) /\ turn = TurnOf(program, records, agenda, nextID)
  BY <1>1 DEF Asks, Launches, Takes, TurnOf, AtItem, AtDone, PlainKinds
<1>5. Sound(program, agenda, turn, {nextID})
  BY <1>1, <1>2, <1>3, LaunchSound
<1>6. /\ Onto(program, Stopped(program, agenda, turn), Tail(agenda), {})
      /\ Onto(program, Denied(program, agenda, turn), Tail(agenda), {})
  BY <1>2, <1>3, <1>5, AfterOnto
<1>7. \A id \in Int : Preserves(records, records, id)
  BY DEF Preserves
<1>8. CASE /\ Barred
           /\ agenda' = Stopped(program, agenda, turn)
           /\ UNCHANGED <<nextID, misread, flying>>
  <2> HIDE DEF turn
  <2>1. ~Taken(program, records, agenda)
    BY <1>8 DEF Taken, Barred
  <2>2. Behind(program, records, agenda, nextID) = <<Stopped(program, agenda, turn), nextID>>
    BY <1>4, <1>8 DEF Behind, Barred
  <2>3. ASSUME halt = "no"
        PROVE  Reaches(program, records, nextID, Stopped(program, agenda, turn), nextID)
    BY <1>1, <1>3, <1>7, <2>1, <2>2, <2>3, Advances
  <2> QED BY <1>1, <1>3, <1>6, <1>8, <2>3, UnrecordedKeeps
<1>9. CASE /\ ~Barred /\ halt # "no"
           /\ nextID' = nextID + 1
           /\ agenda' = Denied(program, agenda, turn)
           /\ UNCHANGED <<misread, flying>>
  <2> HIDE DEF turn
  <2> QED BY <1>1, <1>3, <1>6, <1>9, UnrecordedKeeps
<1>10. CASE /\ ~Barred /\ halt = "no"
            /\ nextID' = nextID + 1
            /\ agenda' = turn.next["ok"]
            /\ IF nextID \in DOMAIN records
               THEN /\ misread' = (misread \/ records[nextID].asked # turn.asks)
                    /\ UNCHANGED flying
               ELSE flying' = With(flying, nextID, turn.asks) /\ UNCHANGED misread
  <2>0. turn = LaunchTurn(program, agenda, nextID)
    OBVIOUS
  <2> HIDE DEF turn
  <2>1. Taken(program, records, agenda)
    BY <1>4, <1>10 DEF Taken, Barred
  <2>2. nextID \in DOMAIN records => records[nextID].asked = turn.asks
    BY <1>1, <1>3, <1>4, <1>10, <2>1, SameStep
  <2>3. UNCHANGED misread
    BY <1>10, <2>2 DEF IInv, TypeOK
  <2>4. \/ nextID \in DOMAIN records /\ UNCHANGED flying
        \/ nextID \notin DOMAIN records /\ flying' = With(flying, nextID, turn.asks)
    BY <1>10
  <2> QED BY <1>1, <1>3, <1>4, <1>10, <2>0, <2>1, <2>3, <2>4, LaunchedKeeps
<1> QED BY <1>8, <1>9, <1>10 DEF Launch

-----------------------------------------------------------------------------
(* The other actions of the workflow goroutine.                            *)

LEMMA DropKeeps == ASSUME IInv, Drop PROVE IInv'
<1>1. Running /\ Quiet(Tail(agenda)) /\ ~EndsRoot(agenda) /\ Waited
  BY DEF Drop, Stops, AtItem, AtDone, EndsRoot, EndsIn, Waited
<1>2. ~Asks(program, records, agenda) /\ Tail(agenda) = QuietTo(program, agenda)
  BY DEF Drop, Stops, Refuses, Asks, QuietTo, Completes, Takes, AtItem, AtDone, EndsIn
<1>3. Onto(program, Tail(agenda), Tail(agenda), {})
  BY <1>1, Executing, HeadIs, OntoItself
<1> QED BY <1>1, <1>2, <1>3, QuietKeeps

LEMMA LeaveKeeps == ASSUME IInv, Leave PROVE IInv'
<1>1. Running /\ AtItem(agenda) /\ Quiet(Left(program, agenda)) /\ ~EndsRoot(agenda) /\ Waited
  BY DEF Leave, Leaves, AtItem, EndsRoot, EndsIn, Waited
<1>2. ~Asks(program, records, agenda) /\ Left(program, agenda) = QuietTo(program, agenda)
  BY DEF Leave, Leaves, Stops, Asks, QuietTo, Completes, Takes, AtItem, AtDone, EndsIn
<1>3. Onto(program, Left(program, agenda), Tail(agenda), {})
  BY <1>1, Executing, LeftOnto
<1> QED BY <1>1, <1>2, <1>3, QuietKeeps

LEMMA CompleteKeeps == ASSUME IInv, Complete PROVE IInv'
<1>1. /\ Running /\ AtDone(agenda) /\ Quiet(Completed(program, agenda)) /\ ~EndsRoot(agenda)
      /\ Waited
  BY DEF Complete, Completes, AtDone, EndsRoot, EndsIn, Waited
<1>2. ~Asks(program, records, agenda) /\ Completed(program, agenda) = QuietTo(program, agenda)
  BY DEF Complete, Completes, Stops, Refuses, Leaves, Asks, QuietTo, Takes, AtItem, AtDone, EndsIn
<1>3. Onto(program, Completed(program, agenda), Tail(agenda), {})
  BY <1>1, Executing, CompletedOnto
<1> QED BY <1>1, <1>2, <1>3, QuietKeeps

LEMMA EmbedKeeps == ASSUME IInv, Embed PROVE IInv'
<1>1. /\ Running /\ Takes(program, agenda, {"loop", "via", "rescue"})
      /\ Quiet(Embarked(program, agenda)) /\ ~EndsRoot(agenda) /\ Waited
  BY DEF Embed, Takes, AtItem, EndsRoot, EndsIn, Waited
<1>2. ~Asks(program, records, agenda) /\ Embarked(program, agenda) = QuietTo(program, agenda)
  BY <1>1 DEF Stops, Leaves, Asks, QuietTo, Takes, Completes, AtItem, AtDone, EndsIn, PlainKinds
<1>3. Onto(program, Embarked(program, agenda), Tail(agenda), {})
  BY <1>1, Executing, EmbarkedOnto
<1> QED BY <1>1, <1>2, <1>3, QuietKeeps

LEMMA EndArmOrViaKeeps == ASSUME IInv, EndArmOrVia PROVE IInv'
<1>1. /\ Running /\ Head(agenda).op = "end" /\ EndsIn(program, agenda, {"switch", "via"})
      /\ Quiet(EndedArmOrVia(program, agenda)) /\ ~EndsRoot(agenda) /\ Waited
  BY DEF EndArmOrVia, EndsRoot, EndsIn, OwnedBy, Waited
<1>2. /\ ~Asks(program, records, agenda)
      /\ EndedArmOrVia(program, agenda) = QuietTo(program, agenda)
  BY <1>1 DEF Stops, Leaves, Asks, QuietTo, Takes, Completes, AtItem, AtDone, EndsIn, OwnedBy
<1>3. Onto(program, EndedArmOrVia(program, agenda), Tail(agenda), {})
  BY <1>1, Executing, EndsOnto
<1> QED BY <1>1, <1>2, <1>3, QuietKeeps

LEMMA EndIterationKeeps == ASSUME IInv, EndIteration PROVE IInv'
<1>1. /\ Running /\ Head(agenda).op = "end" /\ EndsIn(program, agenda, {"loop"})
      /\ ~EndsRoot(agenda) /\ Waited
  BY DEF EndIteration, EndsRoot, EndsIn, OwnedBy, Waited
<1>2. CASE Unjudged(agenda) /\ Quiet(EndedUnjudged(program, agenda))
  <2>1. /\ ~Asks(program, records, agenda)
        /\ EndedUnjudged(program, agenda) = QuietTo(program, agenda)
    BY <1>1, <1>2 DEF Stops, Leaves, Asks, QuietTo, Takes, Completes, AtItem, AtDone, EndsIn,
                      OwnedBy
  <2>2. Onto(program, EndedUnjudged(program, agenda), Tail(agenda), {})
    BY <1>1, Executing, EndsOnto
  <2> QED BY <1>1, <1>2, <2>1, <2>2, QuietKeeps
<1>3. CASE ~Unjudged(agenda) /\ RunStep(VerdictTurn(program, agenda)) /\ Untouched
  <2>1. /\ Asks(program, records, agenda) /\ ~Launches(program, agenda)
        /\ VerdictTurn(program, agenda) = TurnOf(program, records, agenda, nextID)
    BY <1>1, <1>3 DEF Asks, Launches, TurnOf, Takes, AtItem, AtDone, EndsIn
  <2>2. Sound(program, agenda, VerdictTurn(program, agenda), {})
    BY <1>1, <1>3, Executing, VerdictSound
  <2> QED BY <1>1, <1>3, <2>1, <2>2, RunStepKeeps
<1> QED BY <1>2, <1>3 DEF EndIteration

LEMMA EndRescuedKeeps == ASSUME IInv, EndRescued PROVE IInv'
<1>1. /\ Running /\ Head(agenda).op = "end" /\ EndsIn(program, agenda, {"rescue"})
      /\ ~EndsRoot(agenda) /\ Waited
  BY DEF EndRescued, EndsRoot, EndsIn, OwnedBy, Waited
<1>2. CASE Head(agenda).cause = None /\ Quiet(EndedUnrescued(program, agenda))
  <2>1. /\ ~Asks(program, records, agenda)
        /\ EndedUnrescued(program, agenda) = QuietTo(program, agenda)
    BY <1>1, <1>2 DEF Stops, Leaves, Asks, QuietTo, Takes, Completes, AtItem, AtDone, EndsIn,
                      OwnedBy
  <2>2. Onto(program, EndedUnrescued(program, agenda), Tail(agenda), {})
    BY <1>1, Executing, EndsOnto
  <2> QED BY <1>1, <1>2, <2>1, <2>2, QuietKeeps
<1>3. CASE /\ Head(agenda).cause # None
           /\ RunStep(RescueTurn(program, agenda, nextID, live)) /\ Untouched
  <2> DEFINE turn == RescueTurn(program, agenda, nextID, live)
  <2>1. /\ Asks(program, records, agenda) /\ ~Launches(program, agenda)
        /\ RescueTurn(program, agenda, nextID, {}) = TurnOf(program, records, agenda, nextID)
    BY <1>1, <1>3 DEF Asks, Launches, TurnOf, Takes, AtItem, AtDone, EndsIn, OwnedBy
  <2>2. Sound(program, agenda, turn, {})
    BY <1>1, Executing, HandlersSound
  <2>3. turn = RescueTurn(program, agenda, nextID, {})
    BY DEF RescueTurn, RescueCause
  <2> HIDE DEF turn
  <2>4. RunStep(turn) /\ Untouched /\ turn = TurnOf(program, records, agenda, nextID)
    BY <1>3, <2>1, <2>3 DEF turn
  <2> QED BY <1>1, <2>1, <2>2, <2>4, RunStepKeeps
<1> QED BY <1>2, <1>3 DEF EndRescued

LEMMA EndAlongsideKeeps == ASSUME IInv, EndAlongside PROVE IInv'
<1> DEFINE sideCause == SideCause(records, Head(agenda).side)
<1>1. /\ Running /\ Head(agenda).op = "end" /\ EndsIn(program, agenda, {"alongside"})
      /\ ~EndsRoot(agenda) /\ Waited
  BY DEF EndAlongside, EndsRoot, EndsIn, OwnedBy, Waited, Awaited
<1>2. CASE (Head(agenda).cause # None \/ sideCause = None) /\ Quiet(EndedAwaited(program, agenda))
  <2>1. /\ ~Asks(program, records, agenda)
        /\ EndedAwaited(program, agenda) = QuietTo(program, agenda)
    BY <1>1, <1>2 DEF Stops, Leaves, Asks, QuietTo, Takes, Completes, AtItem, AtDone, EndsIn,
                      OwnedBy
  <2>2. Onto(program, EndedAwaited(program, agenda), Tail(agenda), {})
    BY <1>1, Executing, EndsOnto
  <2> QED BY <1>1, <1>2, <2>1, <2>2, QuietKeeps
<1>3. CASE /\ Head(agenda).cause = None /\ sideCause # None
           /\ RunStep(SideTurn(program, agenda, sideCause, live)) /\ Untouched
  <2> DEFINE turn == SideTurn(program, agenda, sideCause, live)
  <2>1. /\ Asks(program, records, agenda) /\ ~Launches(program, agenda)
        /\ SideTurn(program, agenda, sideCause, {}) = TurnOf(program, records, agenda, nextID)
    BY <1>1, <1>3 DEF Asks, Launches, TurnOf, Takes, AtItem, AtDone, EndsIn, OwnedBy
  <2>2. Sound(program, agenda, turn, {})
    BY <1>1, Executing, HandlersSound
  <2>3. turn = SideTurn(program, agenda, sideCause, {})
    BY DEF SideTurn, RescueCause
  <2> HIDE DEF turn
  <2>4. RunStep(turn) /\ Untouched /\ turn = TurnOf(program, records, agenda, nextID)
    BY <1>3, <2>1, <2>3 DEF turn
  <2> QED BY <1>1, <2>1, <2>2, <2>4, RunStepKeeps
<1> QED BY <1>2, <1>3 DEF EndAlongside

LEMMA CloseStreamKeeps == ASSUME IInv, CloseStream PROVE IInv'
<1>1. /\ Running /\ AtDone(agenda) /\ RunStep(CloseTurn(program, agenda)) /\ Untouched
      /\ ~EndsRoot(agenda) /\ Waited
  BY DEF CloseStream, Completes, AtDone, EndsRoot, EndsIn, Waited
<1>2. /\ Asks(program, records, agenda) /\ ~Launches(program, agenda)
      /\ CloseTurn(program, agenda) = TurnOf(program, records, agenda, nextID)
  BY <1>1 DEF CloseStream, Asks, Launches, TurnOf, Takes, AtItem, AtDone
<1>3. Sound(program, agenda, CloseTurn(program, agenda), {})
  BY <1>1, Executing, CloseSound
<1> QED BY <1>1, <1>2, <1>3, RunStepKeeps

\* A stage that takes an item.
LEMMA TakingKeeps ==
    ASSUME IInv, Running, NEW kinds \in SUBSET (PlainKinds \cup {"reduce", "switch"}),
           Takes(program, agenda, kinds), NEW turn, RunStep(turn), Untouched,
           turn = TurnOf(program, records, agenda, nextID), Sound(program, agenda, turn, {})
    PROVE  IInv'
<1>1. ~EndsRoot(agenda) /\ Waited
  BY DEF Takes, AtItem, EndsRoot, EndsIn, Waited
<1>2. Asks(program, records, agenda) /\ ~Launches(program, agenda)
  BY DEF Asks, Launches, Takes, PlainKinds
<1> QED BY <1>1, <1>2, RunStepKeeps

LEMMA PlainStageKeeps == ASSUME IInv, PlainStage PROVE IInv'
<1> DEFINE turn == PlainTurn(program, agenda, nextID)
<1>1. /\ Running /\ Takes(program, agenda, PlainKinds) /\ RunStep(turn) /\ Untouched
      /\ AtItem(agenda) /\ ~EndsRoot(agenda)
  BY DEF PlainStage, Takes, AtItem, EndsRoot
<1>2. turn = TurnOf(program, records, agenda, nextID)
  BY <1>1 DEF TurnOf, AtItem, AtDone
<1>3. Sound(program, agenda, turn, {})
  BY <1>1, Executing, PlainSound
<1> QED BY <1>1, <1>2, <1>3, TakingKeeps

LEMMA AccumulateKeeps == ASSUME IInv, Accumulate PROVE IInv'
<1> DEFINE turn == ReduceTurn(program, agenda, nextID)
<1>1. /\ Running /\ Takes(program, agenda, {"reduce"}) /\ RunStep(turn) /\ Untouched
      /\ AtItem(agenda) /\ ~EndsRoot(agenda)
  BY DEF Accumulate, Takes, AtItem, EndsRoot
<1>2. turn = TurnOf(program, records, agenda, nextID)
  BY <1>1 DEF TurnOf, Takes, AtItem, AtDone, PlainKinds
<1>3. Sound(program, agenda, turn, {})
  BY <1>1, Executing, ReduceSound
<1> HIDE DEF turn
<1> QED BY <1>1, <1>2, <1>3, TakingKeeps

LEMMA DispatchKeeps == ASSUME IInv, Dispatch PROVE IInv'
<1> DEFINE turn == SwitchTurn(program, agenda, nextID)
<1>1. /\ Running /\ Takes(program, agenda, {"switch"}) /\ RunStep(turn) /\ Untouched
      /\ AtItem(agenda) /\ ~EndsRoot(agenda)
  BY DEF Dispatch, Takes, AtItem, EndsRoot
<1>2. turn = TurnOf(program, records, agenda, nextID)
  BY <1>1 DEF TurnOf, Takes, AtItem, AtDone, PlainKinds
<1>3. Sound(program, agenda, turn, {})
  BY <1>1, Executing, SwitchSound
<1> HIDE DEF turn
<1> QED BY <1>1, <1>2, <1>3, TakingKeeps

-----------------------------------------------------------------------------
(* The other actions.                                                      *)

\* When no execution runs, nothing flies, and the records and the shape still
\* tell what they told.
LEMMA RestKeeps ==
    ASSUME IInv, phase' # "running", TypeOK', UNCHANGED <<misread, shape, records>>,
           DOMAIN flying' = {}, outcomes' \subseteq outcomes
    PROVE  IInv'
<1>1. /\ NoMisread' /\ NoStepOutlives' /\ Shaped' /\ SidesAwaited' /\ SidesTaken' /\ SidesAsk'
      /\ RecordsAnswer' /\ Replayed' /\ Explained'
  BY DEF IInv, NoMisread, NoStepOutlives, Shaped, Running, SidesAwaited, SidesTaken, SidesAsk,
         RecordsAnswer, Replayed, Explained
<1>2. Concluded'
  BY DEF IInv, Concluded
<1> QED BY <1>1, <1>2 DEF IInv

LEMMA RecordOutcomeKeeps == ASSUME IInv, RecordOutcome PROVE IInv'
<1>1. /\ phase' \in {"pending", "recorded", "cancelled"} /\ phase = "ended" /\ halt' = "no"
      /\ UNCHANGED <<program, shape, agenda, nextID, records, misread, flying, live, outcomes,
                     crashes, forks>>
  BY DEF RecordOutcome, PhaseAfter, deployed, database, results, bounds
<1>2. TypeOK'
  BY <1>1 DEF IInv, TypeOK
<1>3. DOMAIN flying' = {}
  BY <1>1 DEF IInv, NoStepOutlives
<1> QED BY <1>1, <1>2, <1>3, RestKeeps

LEMMA CrashKeeps == ASSUME IInv, Crash PROVE IInv'
<1>1. /\ phase' \in {"pending", "cancelled"} /\ agenda' = <<>> /\ flying' = <<>> /\ live' = {}
      /\ halt' = "no" /\ crashes' = crashes + 1 /\ crashes < MaxCrashes
      /\ UNCHANGED <<program, shape, nextID, records, misread, outcomes, forks>>
  BY DEF Crash, PhaseAfter, deployed, database
<1>2. DOMAIN flying' = {}
  BY <1>1
<1>3. agenda' \in Seq(Tasks(program))
  BY <1>1
<1>4. crashes' \in 0..MaxCrashes
  BY <1>1, ReplayAssumption DEF IInv, TypeOK
<1>5. TypeOK'
  BY <1>1, <1>2, <1>3, <1>4 DEF IInv, TypeOK
<1> QED BY <1>1, <1>2, <1>5, RestKeeps

LEMMA HaltKeeps == ASSUME IInv, Halt PROVE IInv'
<1>1. /\ halt' \in {"stop", "cancel"}
      /\ UNCHANGED <<program, shape, phase, agenda, nextID, records, misread, flying, live,
                     outcomes, forks>>
  BY DEF Halt, deployed, database, results
<1>2. crashes' \in 0..MaxCrashes
  BY ReplayAssumption DEF Halt, IInv, TypeOK
<1>3. TypeOK'
  BY <1>1, <1>2 DEF IInv, TypeOK
<1>4. /\ NoMisread' /\ NoStepOutlives' /\ Shaped' /\ SidesAwaited' /\ SidesTaken' /\ SidesAsk'
      /\ RecordsAnswer' /\ Replayed' /\ Explained' /\ Concluded'
  BY <1>1 DEF IInv, NoMisread, NoStepOutlives, Shaped, Running, SidesAwaited, SidesTaken,
              SidesAsk, RecordsAnswer, Replayed, Explained, Concluded
<1> QED BY <1>3, <1>4 DEF IInv

LEMMA ForkKeeps == ASSUME IInv, Fork PROVE IInv'
<1>1. PICK at \in {records[id].asked.at : id \in DOMAIN records} :
          LET first == Min({id \in DOMAIN records : records[id].asked.at = at})
          IN  records' = Restrict(records, {id \in DOMAIN records : id < first})
  BY DEF Fork
<1> DEFINE those == {id \in DOMAIN records : records[id].asked.at = at}
           first == Min(those)
           kept == {id \in DOMAIN records : id < first}
<1>2. DOMAIN records \subseteq Nat
  BY DEF IInv, TypeOK
<1>3. first \in Nat
  <2>1. those # {} /\ those \in SUBSET Nat
    BY <1>2
  <2> HIDE DEF those
  <2> QED BY <2>1, MinIsLeast
<1>4. records' = Restrict(records, kept)
  BY <1>1
<1> HIDE DEF first
<1>5. /\ DOMAIN records' = kept /\ \A id \in kept : records'[id] = records[id]
      /\ \A id \in kept : Preserves(records, records', id)
  BY <1>2, <1>3, <1>4 DEF Restrict, Preserves
<1>6. /\ phase \in {"recorded", "cancelled"} /\ phase' = "pending" /\ outcomes' = {}
      /\ forks < MaxForks /\ forks' = forks + 1
      /\ UNCHANGED <<program, shape, agenda, nextID, flying, live, halt, crashes, misread>>
  BY DEF Fork, deployed
<1>7. DOMAIN flying' = {}
  BY <1>6 DEF IInv, NoStepOutlives
<1>8. TypeOK'
  <2>1. forks' \in 0..MaxForks
    BY <1>6, ReplayAssumption DEF IInv, TypeOK
  <2> QED BY <1>5, <1>6, <1>7, <2>1 DEF IInv, TypeOK
<1>9. /\ NoMisread' /\ NoStepOutlives' /\ SidesAwaited' /\ SidesTaken' /\ SidesAsk'
      /\ Replayed' /\ Concluded'
  BY <1>6, <1>7 DEF IInv, NoMisread, NoStepOutlives, Running, SidesAwaited, SidesTaken, SidesAsk,
                    Replayed, Concluded
<1>10. Shaped' /\ RecordsAnswer'
  BY <1>5, <1>6 DEF IInv, Shaped, Running, RecordsAnswer
<1>11. Explained'
  <2>1. ASSUME NEW id \in kept PROVE Told(shape, records', id, records[id].asked)
    <3>1. id \in Int /\ Told(shape, records, id, records[id].asked)
      BY <1>2 DEF IInv, Explained
    <3>2. Preserves(records, records', id)
      BY <1>5
    <3> QED BY <3>1, <3>2, StillTold
  <2> QED BY <1>5, <1>6, <1>7, <2>1 DEF Explained
<1> QED BY <1>8, <1>9, <1>10, <1>11 DEF IInv

LEMMA EndRunKeeps == ASSUME IInv, EndRun PROVE IInv'
<1>1. /\ Running /\ EndsRoot(agenda) /\ phase' = "ended" /\ agenda' = <<>> /\ live' = {}
      /\ UNCHANGED <<program, shape, nextID, records, misread, flying, halt, crashes, forks>>
  BY DEF EndRun, deployed, database, bounds
<1>2. DOMAIN flying' = {}
  <2>1. SUFFICES ASSUME NEW id \in DOMAIN flying PROVE FALSE
    BY <1>1
  <2>2. PICK i \in 1..Len(agenda) : IsSide(program, agenda[i])
    BY <1>1 DEF IInv, SidesAwaited
  <2>3. agenda \in Seq(Tasks(program)) /\ Nested(program, agenda)
    BY <1>1, Executing
  <2>4. EndOf(agenda, "root") = Len(agenda) /\ Head(agenda) = agenda[1] /\ 1 \in 1..Len(agenda)
    BY <2>3 DEF Nested
  <2>5. IsEnd(agenda[1], "root")
    BY <1>1, <2>4 DEF EndsRoot, IsEnd
  <2>6. Len(agenda) <= 1
    BY <2>3, <2>4, <2>5, EndOfIs
  <2>7. i = 1
    BY <2>6
  <2> QED BY <2>2, <2>5, <2>7 DEF IsSide, IsEnd, OwnedBy
<1>3. agenda' \in Seq(Tasks(program))
  BY <1>1
<1>4. TypeOK'
  BY <1>1, <1>2, <1>3 DEF IInv, TypeOK
<1>5. shape = program /\ nextID \in Nat /\ shape # <<>>
  BY <1>1, Executing DEF WellFormed
<1>6. /\ NoMisread' /\ NoStepOutlives' /\ Shaped' /\ SidesAwaited' /\ SidesTaken' /\ SidesAsk'
      /\ RecordsAnswer' /\ Replayed'
  BY <1>1, <1>2, <1>5 DEF IInv, NoMisread, NoStepOutlives, Shaped, Running, SidesAwaited,
         SidesTaken, SidesAsk, RecordsAnswer, Replayed
<1>7. Explained'
  BY <1>1 DEF IInv, Explained
<1>8. Concluded'
  <2>1. SUFFICES ASSUME NEW result \in outcomes'
                 PROVE  \E tasks : \E id \in Nat : /\ Reaches(shape, records, id, tasks, id)
                                                   /\ EndsRoot(tasks) /\ result = Outcome(tasks)
    BY <1>1 DEF Concluded
  <2>2. CASE result \in outcomes
    BY <2>2 DEF IInv, Concluded
  <2>3. CASE result \notin outcomes
    <3>1. halt = "no" /\ result = Outcome(agenda)
      BY <2>3 DEF EndRun
    <3>2. Reaches(shape, records, nextID, agenda, nextID)
      BY <1>1, <3>1 DEF IInv, Replayed
    <3> QED BY <1>1, <1>5, <3>1, <3>2
  <2> QED BY <2>2, <2>3
<1> QED BY <1>4, <1>6, <1>7, <1>8 DEF IInv

\* An execution begins with a well-formed agenda.
LEMMA InitialIs ==
    ASSUME NEW p, WellFormed(p)
    PROVE  /\ p # <<>> /\ Initial(p) \in Seq(Tasks(p)) /\ Nested(p, Initial(p))
           /\ \A i \in 1..Len(Initial(p)) : ~IsSide(p, Initial(p)[i])
<1> DEFINE into == ItemInto(<<"root", 1>>, Item(0, 1))
           done == DoneInto(<<"root", 1>>)
           end == EndOfPipe(p, "root", Item(0, 1), 1, 0)
           tasks == <<into, done, end>>
<1>1. Initial(p) = tasks
  BY DEF Initial, Start
<1>2. "root" \in DOMAIN p /\ Len(p["root"]) \in Nat /\ 1 \in 1..Len(p["root"]) /\ p # <<>>
  <2>1. "root" \in DOMAIN p /\ p["root"] # <<>>
        /\ p["root"] \in Seq([kind : Kinds, subs : Seq(DOMAIN p \ {"root"}), max : Nat])
    BY DEF WellFormed
  <2> QED BY <2>1
<1>3. into \in Tasks(p) /\ done \in Tasks(p)
  BY <1>2 DEF Tasks, ItemInto, DoneInto, Item, Items, Places, Locations
<1>4. end \in Tasks(p)
  BY <1>2, EndOfPipeIs DEF Tasks, Items, Item
<1>5. /\ into.op = "item" /\ into.at[1] = "root" /\ done.op = "done" /\ done.at[1] = "root"
      /\ end.op = "end" /\ end.pipe = "root"
  BY DEF ItemInto, DoneInto, EndOfPipe
<1> HIDE DEF into, done, end
<1>6. tasks \in Seq(Tasks(p)) /\ Len(tasks) = 3
      /\ tasks[1] = into /\ tasks[2] = done /\ tasks[3] = end
  BY <1>3, <1>4
<1> HIDE DEF tasks
<1>7. EndOf(tasks, "root") = 3
  <2>1. EndIn(tasks, "root")
    BY <1>5, <1>6 DEF EndIn, IsEnd
  <2>2. EndOf(tasks, "root") \in 1..3 /\ IsEnd(tasks[EndOf(tasks, "root")], "root")
    BY <1>6, <2>1, EndOfIs
  <2> QED BY <1>5, <1>6, <2>2 DEF IsEnd
<1>8. Nested(p, tasks)
  <2>1. tasks # <<>>
    BY <1>6
  <2>2. ASSUME NEW i \in 1..Len(tasks) - 1
        PROVE  \E j \in i+1..Len(tasks) : tasks[j].op = "end" /\ tasks[j].pipe = Around(p, tasks[i])
    <3>1. i \in {1, 2} /\ 3 \in i+1..Len(tasks)
      BY <1>6
    <3>2. Around(p, tasks[i]) = "root"
      BY <1>5, <1>6, <3>1 DEF Around
    <3> QED BY <1>5, <1>6, <3>1, <3>2
  <2> QED BY <1>6, <1>7, <2>1, <2>2 DEF Nested
<1>9. \A i \in 1..Len(tasks) : ~IsSide(p, tasks[i])
  BY <1>5, <1>6 DEF IsSide, OwnedBy
<1> QED BY <1>1, <1>2, <1>6, <1>8, <1>9

LEMMA BeginKeeps == ASSUME IInv, Begin PROVE IInv'
<1>1. /\ phase = "pending" /\ nextID' = 1 /\ program' \in Programs
      /\ UNCHANGED <<records, misread, flying, live, halt, outcomes, crashes, forks>>
  BY DEF Begin, database, bounds, IInv, TypeOK
<1>2. DOMAIN flying = {}
  BY <1>1 DEF IInv, NoStepOutlives
<1>3. WellFormed(program')
  BY <1>1, ReplayAssumption
<1>4. CASE /\ ShapeAgrees(program') /\ shape' = program'
           /\ phase' = "running" /\ agenda' = Initial(program')
  <2>1. shape' = shape \/ (DOMAIN records = {} /\ outcomes = {})
    BY <1>4 DEF ShapeAgrees, IInv, Shaped
  <2>2. /\ shape' # <<>> /\ agenda' \in Seq(Tasks(program')) /\ Nested(program', agenda')
        /\ \A i \in 1..Len(agenda') : ~IsSide(program', agenda'[i])
    BY <1>3, <1>4, InitialIs
  <2>3. TypeOK'
    BY <1>1, <1>2, <1>4, <2>2 DEF IInv, TypeOK
  <2>4. /\ NoMisread' /\ NoStepOutlives' /\ Shaped' /\ SidesAwaited' /\ SidesTaken' /\ SidesAsk'
    BY <1>1, <1>2, <1>4, <2>2 DEF IInv, NoMisread, NoStepOutlives, Shaped, Running, SidesAwaited,
           SidesTaken, SidesAsk
  <2>5. RecordsAnswer'
    BY <1>1, <2>1 DEF IInv, RecordsAnswer
  <2>6. Explained'
    BY <1>1, <1>2, <2>1 DEF IInv, Explained
  <2>7. Concluded'
    BY <1>1, <2>1 DEF IInv, Concluded
  <2>8. Replayed'
    BY <1>1, <1>4, Begins DEF Replayed
  <2> QED BY <2>3, <2>4, <2>5, <2>6, <2>7, <2>8 DEF IInv
<1>5. CASE phase' = "ended" /\ agenda' = <<>> /\ UNCHANGED shape
  <2>1. agenda' \in Seq(Tasks(program'))
    BY <1>5
  <2>2. TypeOK'
    BY <1>1, <1>5, <2>1 DEF IInv, TypeOK
  <2> QED BY <1>1, <1>2, <1>5, <2>2, RestKeeps
<1> QED BY <1>4, <1>5 DEF Begin

LEMMA SideReturnsKeeps == ASSUME IInv, SideReturns PROVE IInv'
<1>1. PICK id \in DOMAIN flying :
          /\ flying' = Restrict(flying, DOMAIN flying \ {id})
          /\ \/ \E result \in {"ok", "error"} :
                   records' = With(records, id, [asked |-> flying[id], result |-> result])
             \/ halt = "stop" /\ UNCHANGED records
  BY DEF SideReturns
<1>2. /\ Running
      /\ UNCHANGED <<program, shape, phase, agenda, nextID, misread, live, halt, outcomes,
                     crashes, forks>>
  BY DEF SideReturns, Running, deployed, results, bounds
<1>3. /\ shape = program /\ nextID \in Nat /\ WellFormed(program)
      /\ agenda \in Seq(Tasks(program)) /\ Nested(program, agenda)
  BY <1>2, Executing
<1>4. id \notin DOMAIN records /\ id \in Nat
  BY DEF IInv, TypeOK
<1>5. /\ DOMAIN flying' = DOMAIN flying \ {id}
      /\ \A k \in DOMAIN flying' : flying'[k] = flying[k]
  BY <1>1 DEF Restrict
<1>6. /\ DOMAIN records \subseteq DOMAIN records'
      /\ DOMAIN records' \subseteq DOMAIN records \cup {id}
      /\ \A k \in DOMAIN records : records'[k] = records[k]
      /\ id \in DOMAIN records' =>
             records'[id].asked = flying[id] /\ records'[id].result \in {"ok", "error"}
      /\ halt = "no" => id \in DOMAIN records'
      /\ \A n \in Int : Preserves(records, records', n)
  <2>1. CASE UNCHANGED records /\ halt = "stop"
    BY <1>4, <2>1 DEF Preserves
  <2>2. ASSUME NEW result \in {"ok", "error"},
               records' = With(records, id, [asked |-> flying[id], result |-> result])
        PROVE  /\ DOMAIN records' = DOMAIN records \cup {id}
               /\ \A k \in DOMAIN records : records'[k] = records[k]
               /\ records'[id].asked = flying[id] /\ records'[id].result \in {"ok", "error"}
               /\ \A n \in Int : Preserves(records, records', n)
    <3> DEFINE entry == [asked |-> flying[id], result |-> result]
    <3>1. records' = With(records, id, entry) /\ entry.asked = flying[id] /\ entry.result = result
      BY <2>2
    <3> HIDE DEF entry
    <3> QED BY <1>4, <3>1 DEF With, Preserves
  <2> QED BY <1>1, <2>1, <2>2
<1>7. TypeOK'
  BY <1>2, <1>4, <1>5, <1>6 DEF IInv, TypeOK
<1>8. NoMisread' /\ NoStepOutlives'
  BY <1>2 DEF IInv, NoMisread, NoStepOutlives, Running
<1>9. Shaped'
  <2>1. shape # <<>>
    BY <1>3 DEF WellFormed
  <2> QED BY <1>2, <1>3, <2>1 DEF IInv, Shaped, Running
<1>10. SidesAwaited' /\ SidesAsk'
  BY <1>2, <1>5 DEF IInv, SidesAwaited, SidesAsk, Running
<1>11. SidesTaken'
  BY <1>2, <1>5, <1>6 DEF IInv, SidesTaken, Running
<1>12. RecordsAnswer'
  <2>1. /\ flying[id].at \in Locations(shape)
        /\ {"ok", "error"} \subseteq Results(shape, flying[id].at)
    BY DEF IInv, SidesAsk, Results
  <2> QED BY <1>2, <1>6, <2>1 DEF IInv, RecordsAnswer
<1>13. Replayed'
  <2>1. Running /\ halt = "no" => Reaches(shape, records', nextID, agenda, nextID)
    BY <1>3, <1>6, Carries DEF IInv, Replayed
  <2> QED BY <1>2, <2>1 DEF Replayed, Running
<1>14. Explained'
  <2>1. ASSUME NEW k \in DOMAIN records PROVE Told(shape, records', k, records[k].asked)
    <3>1. k \in Nat /\ Told(shape, records, k, records[k].asked)
      BY DEF IInv, TypeOK, Explained
    <3> QED BY <1>6, <3>1, StillTold
  <2>2. ASSUME NEW k \in DOMAIN flying PROVE Told(shape, records', k, flying[k])
    <3>1. k \in Nat /\ Told(shape, records, k, flying[k])
      BY DEF IInv, TypeOK, Explained
    <3> QED BY <1>6, <3>1, StillTold
  <2> QED BY <1>2, <1>5, <1>6, <2>1, <2>2 DEF Explained
<1>15. Concluded'
  BY <1>2, <1>6, StillConcluded DEF IInv
<1> QED BY <1>7, <1>8, <1>9, <1>10, <1>11, <1>12, <1>13, <1>14, <1>15 DEF IInv

-----------------------------------------------------------------------------
(* The theorems about replay.                                              *)

\* A new run.
LEMMA InitHolds == Init => IInv
<1> SUFFICES ASSUME Init PROVE IInv
  OBVIOUS
<1>1. /\ program \in Programs /\ shape = <<>> /\ phase = "pending" /\ agenda = <<>> /\ nextID = 1
      /\ records = <<>> /\ flying = <<>> /\ live = {} /\ halt = "no" /\ outcomes = {}
      /\ crashes = 0 /\ forks = 0 /\ misread = FALSE
  BY DEF Init
<1>2. DOMAIN records = {} /\ DOMAIN flying = {} /\ agenda \in Seq(Tasks(program))
  BY <1>1
<1>3. TypeOK
  <2>1. crashes \in 0..MaxCrashes /\ forks \in 0..MaxForks
    BY <1>1, ReplayAssumption
  <2>2. /\ DOMAIN records \cup DOMAIN flying \cup live \subseteq Nat
        /\ DOMAIN flying \cap DOMAIN records = {}
    BY <1>1, <1>2
  <2> QED BY <1>1, <1>2, <2>1, <2>2 DEF TypeOK
<1>4. /\ NoMisread /\ NoStepOutlives /\ Shaped /\ SidesAwaited /\ SidesTaken /\ SidesAsk
      /\ RecordsAnswer /\ Replayed /\ Explained /\ Concluded
  BY <1>1, <1>2 DEF NoMisread, NoStepOutlives, Shaped, Running, SidesAwaited, SidesTaken, SidesAsk,
                    RecordsAnswer, Replayed, Explained, Concluded
<1> QED BY <1>3, <1>4 DEF IInv

LEMMA StutterKeeps == ASSUME IInv, UNCHANGED vars PROVE IInv'
<1>1. UNCHANGED <<program, shape, phase, agenda, nextID, records, misread, flying, live, halt,
                  outcomes, crashes, forks>>
  BY DEF vars
<1> QED BY <1>1 DEF IInv, TypeOK, NoMisread, NoStepOutlives, Shaped, Running, SidesAwaited,
           SidesTaken, SidesAsk, RecordsAnswer, Replayed, Explained, Concluded

\* The invariant holds whatever crashed, stopped, was cancelled, redeployed or forked.
THEOREM Inductive == Spec => []IInv
<1>1. IInv /\ [Next]_vars => IInv'
  BY DropKeeps, LeaveKeeps, CompleteKeeps, CloseStreamKeeps, PlainStageKeeps, AccumulateKeeps,
     DispatchKeeps, EmbedKeeps, LaunchKeeps, EndArmOrViaKeeps, EndIterationKeeps,
     EndRescuedKeeps, EndAlongsideKeeps, EndRunKeeps, SideReturnsKeeps, BeginKeeps,
     RecordOutcomeKeeps, HaltKeeps, CrashKeeps, ForkKeeps, StutterKeeps DEF Next, Goroutine
<1> QED BY InitHolds, <1>1, PTL DEF Spec

\* Two undisturbed executions replayed each other.
LEMMA OneEnd ==
    ASSUME NEW p, NEW recs, NEW i \in Nat, NEW j \in Nat, i <= j, NEW tasks, NEW others,
           Reaches(p, recs, i, tasks, i), EndsRoot(tasks),
           Reaches(p, recs, j, others, j), EndsRoot(others)
    PROVE  tasks = others
<1>1. Preserves(recs, recs, i)
  BY DEF Preserves
<1>2. Reaches(p, recs, j, tasks, i)
  BY <1>1, Carries
<1>3. ~Goes(p, recs, j, tasks, i) /\ ~Goes(p, recs, j, others, j)
  BY DEF Goes
<1> QED BY <1>2, <1>3, Unique

\* Two outcomes are one.
LEMMA OutcomesAgree == IInv => OneOutcome
<1> SUFFICES ASSUME IInv, NEW u \in outcomes, NEW v \in outcomes PROVE u = v
  BY DEF OneOutcome
<1>1. PICK tasks : \E id \in Nat :
          Reaches(shape, records, id, tasks, id) /\ EndsRoot(tasks) /\ u = Outcome(tasks)
  BY DEF IInv, Concluded
<1>2. PICK i \in Nat :
          Reaches(shape, records, i, tasks, i) /\ EndsRoot(tasks) /\ u = Outcome(tasks)
  BY <1>1
<1>3. PICK others : \E id \in Nat :
          Reaches(shape, records, id, others, id) /\ EndsRoot(others) /\ v = Outcome(others)
  BY DEF IInv, Concluded
<1>4. PICK j \in Nat :
          Reaches(shape, records, j, others, j) /\ EndsRoot(others) /\ v = Outcome(others)
  BY <1>3
<1>5. CASE i <= j
  BY <1>2, <1>4, <1>5, OneEnd
<1>6. CASE j <= i
  BY <1>2, <1>4, <1>6, OneEnd
<1> QED BY <1>2, <1>4, <1>5, <1>6

\* The types hold, every pipe on the agenda ends inside the pipe it is embedded in,
\* and a side step in flight has no record (collectSub, Alongside).
THEOREM ReplayTypes == Spec => []TypeOK
<1>1. IInv => TypeOK
  BY DEF IInv
<1> QED BY Inductive, <1>1, PTL

\* A step reads the record of its own stage, input and cause, in every execution of
\* the run and of its forks (README.md 866-867).
THEOREM ReplaysItself == Spec => []NoMisread
<1>1. IInv => NoMisread
  BY DEF IInv
<1> QED BY Inductive, <1>1, PTL

\* Undisturbed executions of a run agree on its outcome (Rescue).
THEOREM RecoversOutcome == Spec => []OneOutcome
BY Inductive, OutcomesAgree, PTL

\* No execution ends before its side steps (Alongside).
THEOREM SidesEndFirst == Spec => []NoStepOutlives
<1>1. IInv => NoStepOutlives
  BY DEF IInv
<1> QED BY Inductive, <1>1, PTL

-----------------------------------------------------------------------------
(* How an agenda is nested, and what may be put in front of it.            *)

\* The stage a task is for, or embedded in.
Spot(p, task) == IF task.op = "end" THEN Owner(p, task.pipe) ELSE task.at
\* The pipe around the ith task ends by o.
EndsBy(p, tasks, i, o) == \E l \in i + 1..o : IsEnd(tasks[l], Around(p, tasks[i]))

\* A pipe ends once.
OneEach(tasks) ==
    \A i, j \in 1..Len(tasks) :
        i < j /\ tasks[i].op = "end" /\ tasks[j].op = "end" => tasks[i].pipe # tasks[j].pipe
\* The tasks of a pipe are in order, the stages furthest on first.
Sorted(p, tasks) ==
    \A i, j \in 1..Len(tasks) - 1 :
        i < j /\ Around(p, tasks[i]) = Around(p, tasks[j]) =>
            /\ Spot(p, tasks[j])[2] <= Spot(p, tasks[i])[2]
            /\ tasks[j].op = "end" => Spot(p, tasks[j])[2] < Spot(p, tasks[i])[2]
\* What is in front of an end ends in front of it.
Bracketed(p, tasks) ==
    \A i, j, o \in 1..Len(tasks) :
        i < j /\ j < o /\ IsEnd(tasks[o], Around(p, tasks[i])) => EndsBy(p, tasks, j, o)
\* A stage still starts pipes if none behind it failed, nor it itself but for a Via.
Starts(p, at, k) == at[2] < k \/ (at[2] = k /\ Stage(p, at).kind = "via")
\* No task is left for stages behind one that failed.
Stopping(p, tasks) ==
    \A i, g \in 1..Len(tasks) :
        i < g /\ IsEnd(tasks[g], Around(p, tasks[i])) =>
            \A k \in tasks[g].failed :
                /\ Spot(p, tasks[i])[2] <= k
                /\ tasks[i].op = "end" => Starts(p, Spot(p, tasks[i]), k)
\* Only the arms of Switches end behind their items' pipes, and not failing.
Passing(p, tasks) ==
    \A i, g \in 1..Len(tasks) :
        i < g /\ tasks[g].op = "end" /\ ~EndsBy(p, tasks, i, g) =>
            OwnedBy(p, tasks[g].pipe, {"switch"}) /\ tasks[g].cause = None
\* A failure has a stage.
Blamed(p, tasks) ==
    \A g \in 1..Len(tasks) : tasks[g].op = "end" =>
        /\ tasks[g].failed \subseteq 1..Len(p[tasks[g].pipe])
        /\ tasks[g].cause # None => tasks[g].failed # {}
\* An agenda as the depth-first order leaves it.
Neat(p, tasks) ==
    /\ OneEach(tasks) /\ Sorted(p, tasks) /\ Bracketed(p, tasks)
    /\ Stopping(p, tasks) /\ Passing(p, tasks) /\ Blamed(p, tasks)

\* A task may be put in front of the agenda at a place.
Fits(p, tasks, at) ==
    /\ EndIn(tasks, at[1])
    /\ \A j \in 1..Len(tasks) - 1 : Around(p, tasks[j]) = at[1] =>
           /\ Spot(p, tasks[j])[2] <= at[2]
           /\ tasks[j].op = "end" => Spot(p, tasks[j])[2] < at[2]
    /\ \A j, o \in 1..Len(tasks) : j < o /\ IsEnd(tasks[o], at[1]) => EndsBy(p, tasks, j, o)
    /\ \A o \in 1..Len(tasks) : IsEnd(tasks[o], at[1]) => \A k \in tasks[o].failed : at[2] <= k
    /\ \A g \in 1..Len(tasks) :
           tasks[g].op = "end" /\ ~(\E l \in 1..g : IsEnd(tasks[l], at[1])) =>
               OwnedBy(p, tasks[g].pipe, {"switch"}) /\ tasks[g].cause = None
\* The stage, and those behind it, have not failed.
Unfailed(tasks, at) ==
    \A o \in 1..Len(tasks) : IsEnd(tasks[o], at[1]) => \A k \in tasks[o].failed : at[2] < k
\* The stage may start a pipe.
Open(p, tasks, at) ==
    \A o \in 1..Len(tasks) : IsEnd(tasks[o], at[1]) => \A k \in tasks[o].failed : Starts(p, at, k)

\* new is old behind d more tasks, up to what Alike leaves open.
Slid(p, new, old, d) ==
    /\ d \in Nat /\ new \in Seq(Tasks(p)) /\ old \in Seq(Tasks(p)) /\ Len(new) = Len(old) + d
    /\ \A j \in 1..Len(old) : Alike(new[d + j], old[j])

\* Tasks are where they were,
LEMMA SlidSame ==
    ASSUME NEW p, NEW new, NEW old, NEW d, Slid(p, new, old, d), NEW j \in 1..Len(old)
    PROVE  /\ d + j \in 1..Len(new) /\ new[d + j].op = old[j].op
           /\ Around(p, new[d + j]) = Around(p, old[j]) /\ Spot(p, new[d + j]) = Spot(p, old[j])
           /\ \A pipe : IsEnd(new[d + j], pipe) <=> IsEnd(old[j], pipe)
           /\ old[j].op = "end" => new[d + j].pipe = old[j].pipe
<1>1. Alike(new[d + j], old[j]) /\ d + j \in 1..Len(new)
  BY DEF Slid
<1> QED BY <1>1 DEF Alike, Around, Spot, IsEnd

\* and so are the ends of pipes.
LEMMA SlidEnds ==
    ASSUME NEW p, NEW new, NEW old, NEW d, Slid(p, new, old, d),
           NEW i \in 1..Len(old), NEW o \in 1..Len(old)
    PROVE  EndsBy(p, new, d + i, d + o) <=> EndsBy(p, old, i, o)
<1>0. d \in Nat /\ Len(old) \in Nat
  BY DEF Slid
<1>1. Around(p, new[d + i]) = Around(p, old[i])
  BY SlidSame
<1>2. ASSUME EndsBy(p, new, d + i, d + o) PROVE EndsBy(p, old, i, o)
  <2>1. PICK l \in (d + i) + 1..d + o : IsEnd(new[l], Around(p, new[d + i]))
    BY <1>2 DEF EndsBy
  <2>2. l - d \in i + 1..o /\ l - d \in 1..Len(old) /\ d + (l - d) = l
    BY <1>0, <2>1
  <2>3. IsEnd(old[l - d], Around(p, old[i]))
    BY <1>1, <2>1, <2>2, SlidSame DEF IsEnd
  <2> QED BY <2>2, <2>3 DEF EndsBy
<1>3. ASSUME EndsBy(p, old, i, o) PROVE EndsBy(p, new, d + i, d + o)
  <2>1. PICK l \in i + 1..o : IsEnd(old[l], Around(p, old[i]))
    BY <1>3 DEF EndsBy
  <2>2. l \in 1..Len(old) /\ d + l \in (d + i) + 1..d + o
    BY <1>0, <2>1
  <2>3. IsEnd(new[d + l], Around(p, new[d + i]))
    BY <1>1, <2>1, <2>2, SlidSame DEF IsEnd
  <2> QED BY <2>2, <2>3 DEF EndsBy
<1> QED BY <1>2, <1>3

\* An agenda and the rest of it.
LEMMA RestSlid ==
    ASSUME NEW p, NEW tasks \in Seq(Tasks(p)), tasks # <<>>
    PROVE  /\ Slid(p, tasks, Tail(tasks), 1)
           /\ \A j \in 1..Len(Tail(tasks)) : tasks[1 + j] = Tail(tasks)[j]
<1>1. /\ Tail(tasks) \in Seq(Tasks(p)) /\ Len(tasks) = Len(Tail(tasks)) + 1
      /\ \A j \in 1..Len(Tail(tasks)) : Tail(tasks)[j] = tasks[1 + j]
  OBVIOUS
<1> QED BY <1>1 DEF Slid, Alike

\* How an agenda is nested does not depend on what is in front of it, or on what
\* has failed.
LEMMA SlidShape ==
    ASSUME NEW p, NEW new, NEW old, NEW d, Slid(p, new, old, d),
           OneEach(new), Sorted(p, new), Bracketed(p, new)
    PROVE  OneEach(old) /\ Sorted(p, old) /\ Bracketed(p, old)
<1>0. d \in Nat /\ Len(old) \in Nat /\ Len(new) = Len(old) + d
  BY DEF Slid
<1>1. OneEach(old)
  <2> SUFFICES ASSUME NEW i \in 1..Len(old), NEW j \in 1..Len(old), i < j,
                      old[i].op = "end", old[j].op = "end"
               PROVE  old[i].pipe # old[j].pipe
    BY DEF OneEach
  <2>1. d + i < d + j
    BY <1>0
  <2>2. new[d + i].pipe # new[d + j].pipe
    BY <2>1, SlidSame DEF OneEach
  <2> QED BY <2>2, SlidSame
<1>2. Sorted(p, old)
  <2> SUFFICES ASSUME NEW i \in 1..Len(old) - 1, NEW j \in 1..Len(old) - 1, i < j,
                      Around(p, old[i]) = Around(p, old[j])
               PROVE  /\ Spot(p, old[j])[2] <= Spot(p, old[i])[2]
                      /\ old[j].op = "end" => Spot(p, old[j])[2] < Spot(p, old[i])[2]
    BY DEF Sorted
  <2>1. /\ i \in 1..Len(old) /\ j \in 1..Len(old) /\ d + i < d + j
        /\ d + i \in 1..Len(new) - 1 /\ d + j \in 1..Len(new) - 1
    BY <1>0
  <2>2. /\ Spot(p, new[d + i]) = Spot(p, old[i]) /\ Spot(p, new[d + j]) = Spot(p, old[j])
        /\ Around(p, new[d + i]) = Around(p, new[d + j]) /\ new[d + j].op = old[j].op
    BY <2>1, SlidSame
  <2> QED BY <2>1, <2>2 DEF Sorted
<1>3. Bracketed(p, old)
  <2> SUFFICES ASSUME NEW i \in 1..Len(old), NEW j \in 1..Len(old), NEW o \in 1..Len(old),
                      i < j, j < o, IsEnd(old[o], Around(p, old[i]))
               PROVE  EndsBy(p, old, j, o)
    BY DEF Bracketed
  <2>1. d + i < d + j /\ d + j < d + o
    BY <1>0
  <2>2. /\ IsEnd(new[d + o], Around(p, new[d + i]))
        /\ d + i \in 1..Len(new) /\ d + j \in 1..Len(new) /\ d + o \in 1..Len(new)
    BY SlidSame DEF IsEnd
  <2>3. EndsBy(p, new, d + j, d + o)
    BY <2>1, <2>2 DEF Bracketed
  <2> QED BY <2>3, SlidEnds
<1> QED BY <1>1, <1>2, <1>3

\* The same tasks behind others are as neat.
LEMMA SlidNeat ==
    ASSUME NEW p, NEW new, NEW old, NEW d, Slid(p, new, old, d), Neat(p, new),
           \A j \in 1..Len(old) : old[j].op = "end" =>
               old[j].cause = new[d + j].cause /\ old[j].failed = new[d + j].failed
    PROVE  Neat(p, old)
<1>0. d \in Nat /\ Len(old) \in Nat /\ Len(new) = Len(old) + d
  BY DEF Slid
<1>1. OneEach(old) /\ Sorted(p, old) /\ Bracketed(p, old)
  BY SlidShape DEF Neat
<1>4. Stopping(p, old)
  <2> SUFFICES ASSUME NEW i \in 1..Len(old), NEW g \in 1..Len(old), i < g,
                      IsEnd(old[g], Around(p, old[i])), NEW k \in old[g].failed
               PROVE  /\ Spot(p, old[i])[2] <= k
                      /\ old[i].op = "end" => Starts(p, Spot(p, old[i]), k)
    BY DEF Stopping
  <2>1. d + i < d + g
    BY <1>0
  <2>2. /\ IsEnd(new[d + g], Around(p, new[d + i])) /\ new[d + i].op = old[i].op
        /\ Spot(p, new[d + i]) = Spot(p, old[i])
        /\ d + i \in 1..Len(new) /\ d + g \in 1..Len(new)
    <3>1. /\ Around(p, new[d + i]) = Around(p, old[i]) /\ new[d + i].op = old[i].op
          /\ Spot(p, new[d + i]) = Spot(p, old[i]) /\ d + i \in 1..Len(new)
      BY SlidSame
    <3>2. /\ d + g \in 1..Len(new)
          /\ \A pipe : IsEnd(new[d + g], pipe) <=> IsEnd(old[g], pipe)
      BY SlidSame
    <3> QED BY <3>1, <3>2
  <2>3. k \in new[d + g].failed
    BY DEF IsEnd
  <2> QED BY <2>1, <2>2, <2>3 DEF Neat, Stopping
<1>5. Passing(p, old)
  <2> SUFFICES ASSUME NEW i \in 1..Len(old), NEW g \in 1..Len(old), i < g,
                      old[g].op = "end", ~EndsBy(p, old, i, g)
               PROVE  OwnedBy(p, old[g].pipe, {"switch"}) /\ old[g].cause = None
    BY DEF Passing
  <2>1. d + i < d + g
    BY <1>0
  <2>2. /\ new[d + g].op = "end" /\ new[d + g].pipe = old[g].pipe
        /\ d + i \in 1..Len(new) /\ d + g \in 1..Len(new)
    BY SlidSame
  <2>3. ~EndsBy(p, new, d + i, d + g)
    BY SlidEnds
  <2>4. OwnedBy(p, new[d + g].pipe, {"switch"}) /\ new[d + g].cause = None
    BY <2>1, <2>2, <2>3 DEF Neat, Passing
  <2> QED BY <2>2, <2>4
<1>6. Blamed(p, old)
  <2> SUFFICES ASSUME NEW g \in 1..Len(old), old[g].op = "end"
               PROVE  /\ old[g].failed \subseteq 1..Len(p[old[g].pipe])
                      /\ old[g].cause # None => old[g].failed # {}
    BY DEF Blamed
  <2>1. new[d + g].op = "end" /\ new[d + g].pipe = old[g].pipe /\ d + g \in 1..Len(new)
    BY SlidSame
  <2> QED BY <2>1 DEF Neat, Blamed
<1> QED BY <1>1, <1>4, <1>5, <1>6 DEF Neat

-----------------------------------------------------------------------------
(* The rest of an agenda.                                                  *)

\* The place of a task.
LEMMA SpotIs ==
    ASSUME NEW p, WellFormed(p), NEW tasks \in Seq(Tasks(p)), Nested(p, tasks),
           NEW i \in 1..Len(tasks) - 1
    PROVE  /\ Spot(p, tasks[i]) \in Places(p) /\ Spot(p, tasks[i])[2] \in Nat
           /\ Spot(p, tasks[i])[1] = Around(p, tasks[i])
           /\ tasks[i].op = "end" => tasks[i].pipe \in DOMAIN p \ {"root"}
<1>1. /\ tasks[i] \in Tasks(p) /\ i \in 1..Len(tasks) /\ i < Len(tasks)
      /\ Len(tasks) \in Nat /\ i \in Nat
  OBVIOUS
<1>2. ~IsEnd(tasks[i], "root")
  BY <1>1, EndOfIs DEF Nested, EndIn
<1>3. CASE tasks[i].op = "end"
  <2>1. tasks[i].pipe \in DOMAIN p \ {"root"}
    BY <1>1, <1>2, <1>3, EndIsEnd DEF Ends, IsEnd
  <2> QED BY <1>3, <2>1, OwnerIs, PlaceIs DEF Spot, Around
<1>4. CASE tasks[i].op # "end"
  <2>1. tasks[i].at \in Places(p)
    BY <1>1, <1>4, LocationIs DEF Tasks, Ends
  <2> QED BY <1>4, <2>1, PlaceIs DEF Spot, Around
<1> QED BY <1>3, <1>4

\* The rest of an agenda takes a task where its head was.
LEMMA HeadFits ==
    ASSUME NEW p, WellFormed(p), NEW tasks \in Seq(Tasks(p)), Nested(p, tasks), ~EndsRoot(tasks),
           Neat(p, tasks)
    PROVE  /\ Neat(p, Tail(tasks)) /\ Fits(p, Tail(tasks), At(p, tasks))
           /\ Head(tasks).op = "end" => Open(p, Tail(tasks), At(p, tasks))
<1> DEFINE old == Tail(tasks)
           at == At(p, tasks)
<1>1. /\ Slid(p, tasks, old, 1) /\ \A j \in 1..Len(old) : tasks[1 + j] = old[j]
      /\ Len(old) \in Nat /\ Len(old) = Len(tasks) - 1 /\ 1 \in 1..Len(tasks)
      /\ 1 \in 1..Len(tasks) - 1 /\ EndIn(old, at[1])
  BY HeadIs, RestSlid
<1>2. Spot(p, tasks[1]) = at /\ Around(p, tasks[1]) = at[1] /\ Head(tasks) = tasks[1]
  BY HeadIs DEF Spot, Around, At
<1> HIDE DEF old, at
<1>3. Neat(p, old)
  BY <1>1, SlidNeat
<1>4. ASSUME NEW j \in 1..Len(old) - 1, Around(p, old[j]) = at[1]
      PROVE  /\ Spot(p, old[j])[2] <= at[2]
             /\ old[j].op = "end" => Spot(p, old[j])[2] < at[2]
  <2>1. j \in 1..Len(old) /\ 1 + j \in 1..Len(tasks) - 1 /\ 1 < 1 + j /\ tasks[1 + j] = old[j]
    BY <1>1
  <2> QED BY <1>1, <1>2, <1>4, <2>1 DEF Neat, Sorted
<1>5. ASSUME NEW j \in 1..Len(old), NEW o \in 1..Len(old), j < o, IsEnd(old[o], at[1])
      PROVE  EndsBy(p, old, j, o)
  <2>1. /\ 1 + j \in 1..Len(tasks) /\ 1 + o \in 1..Len(tasks) /\ 1 < 1 + j /\ 1 + j < 1 + o
        /\ tasks[1 + o] = old[o]
    BY <1>1, <1>5
  <2>2. EndsBy(p, tasks, 1 + j, 1 + o)
    BY <1>1, <1>2, <1>5, <2>1 DEF Neat, Bracketed
  <2> QED BY <1>1, <2>2, SlidEnds
<1>6. ASSUME NEW o \in 1..Len(old), IsEnd(old[o], at[1]), NEW k \in old[o].failed
      PROVE  at[2] <= k /\ (Head(tasks).op = "end" => Starts(p, at, k))
  <2>1. 1 + o \in 1..Len(tasks) /\ 1 < 1 + o /\ tasks[1 + o] = old[o]
    BY <1>1
  <2> QED BY <1>1, <1>2, <1>6, <2>1 DEF Neat, Stopping
<1>7. ASSUME NEW g \in 1..Len(old), old[g].op = "end", ~(\E l \in 1..g : IsEnd(old[l], at[1]))
      PROVE  OwnedBy(p, old[g].pipe, {"switch"}) /\ old[g].cause = None
  <2>1. 1 + g \in 1..Len(tasks) /\ 1 < 1 + g /\ tasks[1 + g] = old[g]
    BY <1>1
  <2>2. ASSUME NEW l \in 1 + 1..1 + g, IsEnd(tasks[l], at[1]) PROVE FALSE
    <3>1. l - 1 \in 1..g /\ l - 1 \in 1..Len(old) /\ 1 + (l - 1) = l
      BY <1>1
    <3>2. IsEnd(old[l - 1], at[1])
      BY <1>1, <2>2, <3>1
    <3> QED BY <1>7, <3>1, <3>2
  <2>3. ~EndsBy(p, tasks, 1, 1 + g)
    BY <1>2, <2>2 DEF EndsBy
  <2> QED BY <1>1, <1>7, <2>1, <2>3 DEF Neat, Passing
<1>8. Fits(p, old, at)
  BY <1>1, <1>4, <1>5, <1>6, <1>7 DEF Fits
<1>9. Head(tasks).op = "end" => Open(p, old, at)
  BY <1>6 DEF Open
<1> QED BY <1>3, <1>8, <1>9 DEF old, at

\* The failed stages of a pipe are places in it.
LEMMA FailedIs ==
    ASSUME NEW p, NEW tasks \in Seq(Tasks(p)), NEW o \in 1..Len(tasks), NEW pipe,
           IsEnd(tasks[o], pipe), NEW k \in tasks[o].failed
    PROVE  k \in Nat
<1>1. tasks[o] \in Ends(p)
  BY EndIsEnd DEF IsEnd
<1> QED BY <1>1 DEF Ends

\* What has not failed may start a pipe, and so may a Via that has; any other stage
\* that may has not.
LEMMA OpenIs ==
    ASSUME NEW p, NEW tasks \in Seq(Tasks(p)), NEW at \in Places(p), Fits(p, tasks, at)
    PROVE  /\ Unfailed(tasks, at) \/ Stage(p, at).kind = "via" => Open(p, tasks, at)
           /\ Open(p, tasks, at) /\ Stage(p, at).kind # "via" => Unfailed(tasks, at)
<1>1. ASSUME NEW o \in 1..Len(tasks), IsEnd(tasks[o], at[1]), NEW k \in tasks[o].failed
      PROVE  k \in Nat /\ at[2] \in Nat /\ at[2] <= k
  <2>1. k \in Nat
    BY <1>1, FailedIs
  <2>2. at[2] \in Nat
    BY DEF Places
  <2> QED BY <1>1, <2>1, <2>2 DEF Fits
<1>2. Unfailed(tasks, at) => Open(p, tasks, at)
  BY DEF Unfailed, Open, Starts
<1>3. Stage(p, at).kind = "via" => Open(p, tasks, at)
  BY <1>1 DEF Open, Starts
<1>4. Open(p, tasks, at) /\ Stage(p, at).kind # "via" => Unfailed(tasks, at)
  BY DEF Unfailed, Open, Starts
<1> QED BY <1>2, <1>3, <1>4

\* A stage that has not failed, and behind which none has.
LEMMA FailedNot ==
    ASSUME NEW p, WellFormed(p), NEW tasks \in Seq(Tasks(p)), OneEach(tasks),
           NEW at \in Places(p), Fits(p, tasks, at), ~HasFailed(tasks, at)
    PROVE  Unfailed(tasks, at)
<1> SUFFICES ASSUME NEW o \in 1..Len(tasks), IsEnd(tasks[o], at[1]), NEW k \in tasks[o].failed
             PROVE  at[2] < k
  BY DEF Unfailed
<1> DEFINE own == EndOf(tasks, at[1])
<1>1. own \in 1..Len(tasks) /\ IsEnd(tasks[own], at[1])
  BY EndOfIs DEF Fits
<1>2. at[2] \notin tasks[own].failed
  BY DEF HasFailed
<1> HIDE DEF own
<1>3. own = o
  BY <1>1 DEF OneEach, IsEnd
<1>4. at[2] <= k /\ at[2] # k
  BY <1>2, <1>3 DEF Fits
<1>5. k \in Nat
  BY FailedIs
<1>6. at[2] \in Nat
  BY PlaceIs
<1> QED BY <1>4, <1>5, <1>6

\* What has not failed may go on behind the stage.
LEMMA OpenFits ==
    ASSUME NEW p, WellFormed(p), NEW old \in Seq(Tasks(p)), Nested(p, old), NEW at \in Places(p),
           Fits(p, old, at), Unfailed(old, at)
    PROVE  Fits(p, old, <<at[1], at[2] + 1>>)
<1> DEFINE behind == <<at[1], at[2] + 1>>
<1>1. behind[1] = at[1] /\ behind[2] = at[2] + 1 /\ at[2] \in Nat
  BY PlaceIs
<1> HIDE DEF behind
<1>2. \A j \in 1..Len(old) - 1 : Around(p, old[j]) = at[1] =>
           /\ Spot(p, old[j])[2] <= behind[2]
           /\ old[j].op = "end" => Spot(p, old[j])[2] < behind[2]
  BY <1>1, SpotIs DEF Fits
<1>3. ASSUME NEW o \in 1..Len(old), IsEnd(old[o], at[1]), NEW k \in old[o].failed
      PROVE  behind[2] <= k
  <2>1. old[o] \in Ends(p)
    BY <1>3, EndIsEnd DEF IsEnd
  <2>2. k \in Nat
    BY <2>1, <1>3 DEF Ends
  <2> QED BY <1>1, <1>3, <2>2 DEF Unfailed
<1>4. Fits(p, old, behind)
  BY <1>1, <1>2, <1>3 DEF Fits
<1> QED BY <1>4 DEF behind

\* new is old behind n more tasks.
Ahead(p, new, old, n) ==
    /\ n \in Nat /\ new \in Seq(Tasks(p)) /\ old \in Seq(Tasks(p)) /\ Len(new) = n + Len(old)
    /\ \A j \in 1..Len(old) : new[n + j] = old[j]

\* They leave what is behind them as it was.
LEMMA AheadSlid ==
    ASSUME NEW p, NEW new, NEW old, NEW n, Ahead(p, new, old, n)
    PROVE  Slid(p, new, old, n)
BY DEF Ahead, Slid, Alike

\* Tasks put in front of an agenda.
LEMMA PutAhead ==
    ASSUME NEW p, NEW front \in Seq(Tasks(p)), NEW old \in Seq(Tasks(p))
    PROVE  /\ Ahead(p, front \o old, old, Len(front))
           /\ \A i \in 1..Len(front) : (front \o old)[i] = front[i]
BY Concatenated DEF Ahead

-----------------------------------------------------------------------------
(* Items in front of an agenda.                                            *)

\* Items and completions put in front of an agenda.
LEMMA PushedNeat ==
    ASSUME NEW p, NEW new, NEW old, NEW n, Ahead(p, new, old, n), Neat(p, old),
           NEW at \in Places(p), Fits(p, old, at), at[2] \in Nat,
           \A i \in 1..n : new[i].op # "end" /\ new[i].at = at
    PROVE  /\ Neat(p, new) /\ Fits(p, new, at)
           /\ Unfailed(old, at) => Unfailed(new, at)
<1>1. /\ Slid(p, new, old, n) /\ \A j \in 1..Len(old) : new[n + j] = old[j]
      /\ Len(new) = n + Len(old) /\ n \in Nat /\ Len(old) \in Nat
  <2>1. Slid(p, new, old, n)
    BY AheadSlid
  <2>2. Len(old) \in Nat
    BY DEF Ahead
  <2> QED BY <2>1, <2>2 DEF Ahead
<1>2. ASSUME NEW i \in 1..n
      PROVE  /\ new[i].op # "end" /\ Spot(p, new[i]) = at /\ Around(p, new[i]) = at[1]
             /\ \A pipe : ~IsEnd(new[i], pipe)
  BY <1>1 DEF Spot, Around, IsEnd
<1>3. ASSUME NEW j \in 1..Len(new), j > n
      PROVE  j - n \in 1..Len(old) /\ n + (j - n) = j /\ new[j] = old[j - n]
  <2>1. j - n \in 1..Len(old) /\ n + (j - n) = j
    BY <1>1, <1>3
  <2>2. new[n + (j - n)] = old[j - n]
    BY <1>1, <2>1
  <2> QED BY <2>1, <2>2
<1>4. ASSUME NEW i \in 1..Len(new), NEW o \in 1..Len(new), i > n, o > n
      PROVE  EndsBy(p, new, i, o) <=> EndsBy(p, old, i - n, o - n)
  <2>1. i - n \in 1..Len(old) /\ o - n \in 1..Len(old) /\ n + (i - n) = i /\ n + (o - n) = o
    BY <1>3, <1>4
  <2>2. EndsBy(p, new, n + (i - n), n + (o - n)) <=> EndsBy(p, old, i - n, o - n)
    BY <1>1, <2>1, SlidEnds
  <2> QED BY <2>1, <2>2
<1>5. OneEach(new)
  <2> SUFFICES ASSUME NEW i \in 1..Len(new), NEW j \in 1..Len(new), i < j,
                      new[i].op = "end", new[j].op = "end"
               PROVE  new[i].pipe # new[j].pipe
    BY DEF OneEach
  <2>1. i > n /\ j > n
    BY <1>1, <1>2
  <2>2. i - n \in 1..Len(old) /\ j - n \in 1..Len(old) /\ i - n < j - n
        /\ new[i] = old[i - n] /\ new[j] = old[j - n]
    BY <1>1, <1>3, <2>1
  <2> QED BY <2>2 DEF Neat, OneEach
<1>6. ASSUME NEW j \in 1..Len(new) - 1, Around(p, new[j]) = at[1]
      PROVE  /\ Spot(p, new[j])[2] <= at[2]
             /\ new[j].op = "end" => Spot(p, new[j])[2] < at[2]
  <2>1. CASE j <= n
    BY <1>1, <1>2, <2>1
  <2>2. CASE j > n
    <3>1. j - n \in 1..Len(old) - 1 /\ new[j] = old[j - n]
      BY <1>1, <1>3, <2>2
    <3> QED BY <1>6, <3>1 DEF Fits
  <2> QED BY <1>1, <2>1, <2>2
<1>7. Sorted(p, new)
  <2> SUFFICES ASSUME NEW i \in 1..Len(new) - 1, NEW j \in 1..Len(new) - 1, i < j,
                      Around(p, new[i]) = Around(p, new[j])
               PROVE  /\ Spot(p, new[j])[2] <= Spot(p, new[i])[2]
                      /\ new[j].op = "end" => Spot(p, new[j])[2] < Spot(p, new[i])[2]
    BY DEF Sorted
  <2>1. CASE i <= n
    BY <1>1, <1>2, <1>6, <2>1
  <2>2. CASE i > n
    <3>0. i \in 1..Len(new) /\ j \in 1..Len(new) /\ j > n
      BY <1>1, <2>2
    <3>1. i - n \in 1..Len(old) - 1 /\ j - n \in 1..Len(old) - 1 /\ i - n < j - n
      BY <1>1, <2>2
    <3>2. new[i] = old[i - n] /\ new[j] = old[j - n]
      BY <1>3, <2>2, <3>0
    <3> QED BY <3>1, <3>2 DEF Neat, Sorted
  <2> QED BY <1>1, <2>1, <2>2
<1>8. ASSUME NEW j \in 1..Len(new), NEW o \in 1..Len(new), j < o, IsEnd(new[o], at[1])
      PROVE  EndsBy(p, new, j, o)
  <2>1. o > n
    BY <1>1, <1>2, <1>8 DEF IsEnd
  <2>2. CASE j <= n
    <3>1. o \in j + 1..o /\ Around(p, new[j]) = at[1]
      BY <1>1, <1>2, <1>8, <2>2
    <3> QED BY <1>8, <3>1 DEF EndsBy
  <2>3. CASE j > n
    <3>1. /\ j - n \in 1..Len(old) /\ o - n \in 1..Len(old) /\ j - n < o - n
          /\ IsEnd(old[o - n], at[1])
      BY <1>1, <1>3, <1>8, <2>1, <2>3
    <3>2. EndsBy(p, old, j - n, o - n)
      BY <3>1 DEF Fits
    <3> QED BY <1>4, <2>1, <2>3, <3>2
  <2> QED BY <1>1, <2>2, <2>3
<1>9. Bracketed(p, new)
  <2> SUFFICES ASSUME NEW i \in 1..Len(new), NEW j \in 1..Len(new), NEW o \in 1..Len(new),
                      i < j, j < o, IsEnd(new[o], Around(p, new[i]))
               PROVE  EndsBy(p, new, j, o)
    BY DEF Bracketed
  <2>1. CASE i <= n
    BY <1>1, <1>2, <1>8, <2>1
  <2>2. CASE i > n
    <3>1. /\ i - n \in 1..Len(old) /\ j - n \in 1..Len(old) /\ o - n \in 1..Len(old)
          /\ i - n < j - n /\ j - n < o - n /\ new[i] = old[i - n] /\ new[o] = old[o - n]
      BY <1>1, <1>3, <2>2
    <3>2. EndsBy(p, old, j - n, o - n)
      BY <3>1 DEF Neat, Bracketed
    <3>3. j > n /\ o > n
      BY <1>1, <2>2
    <3> QED BY <1>4, <3>2, <3>3
  <2> QED BY <1>1, <2>1, <2>2
<1>10. ASSUME NEW o \in 1..Len(new), IsEnd(new[o], at[1]), NEW k \in new[o].failed
       PROVE  at[2] <= k /\ (Unfailed(old, at) => at[2] < k)
  <2>1. o > n
    BY <1>1, <1>2, <1>10 DEF IsEnd
  <2>2. o - n \in 1..Len(old) /\ new[o] = old[o - n]
    BY <1>3, <2>1
  <2> QED BY <1>10, <2>2 DEF Fits, Unfailed
<1>11. Stopping(p, new)
  <2> SUFFICES ASSUME NEW i \in 1..Len(new), NEW g \in 1..Len(new), i < g,
                      IsEnd(new[g], Around(p, new[i])), NEW k \in new[g].failed
               PROVE  /\ Spot(p, new[i])[2] <= k
                      /\ new[i].op = "end" => Starts(p, Spot(p, new[i]), k)
    BY DEF Stopping
  <2>1. CASE i <= n
    BY <1>1, <1>2, <1>10, <2>1
  <2>2. CASE i > n
    <3>1. /\ i - n \in 1..Len(old) /\ g - n \in 1..Len(old) /\ i - n < g - n
          /\ new[i] = old[i - n] /\ new[g] = old[g - n]
      BY <1>1, <1>3, <2>2
    <3> QED BY <3>1 DEF Neat, Stopping
  <2> QED BY <1>1, <2>1, <2>2
<1>12. ASSUME NEW g \in 1..Len(new), new[g].op = "end",
              ~(\E l \in 1..g : IsEnd(new[l], at[1]))
       PROVE  OwnedBy(p, new[g].pipe, {"switch"}) /\ new[g].cause = None
  <2>1. g > n
    BY <1>1, <1>2, <1>12
  <2>2. g - n \in 1..Len(old) /\ new[g] = old[g - n]
    BY <1>3, <2>1
  <2>3. ASSUME NEW l \in 1..g - n, IsEnd(old[l], at[1]) PROVE FALSE
    <3>1. n + l \in 1..g /\ l \in 1..Len(old)
      BY <1>1, <2>1
    <3> QED BY <1>1, <1>12, <2>3, <3>1
  <2> QED BY <1>12, <2>2, <2>3 DEF Fits
<1>13. Passing(p, new)
  <2> SUFFICES ASSUME NEW i \in 1..Len(new), NEW g \in 1..Len(new), i < g,
                      new[g].op = "end", ~EndsBy(p, new, i, g)
               PROVE  OwnedBy(p, new[g].pipe, {"switch"}) /\ new[g].cause = None
    BY DEF Passing
  <2>1. CASE i <= n
    <3>1. ASSUME NEW l \in 1..g, IsEnd(new[l], at[1]) PROVE FALSE
      <4>1. l > n /\ l \in 1..Len(new)
        BY <1>1, <1>2, <3>1 DEF IsEnd
      <4>2. l \in i + 1..g /\ Around(p, new[i]) = at[1]
        BY <1>1, <1>2, <2>1, <4>1
      <4> QED BY <3>1, <4>2 DEF EndsBy
    <3> QED BY <1>12, <3>1
  <2>2. CASE i > n
    <3>1. /\ i - n \in 1..Len(old) /\ g - n \in 1..Len(old) /\ i - n < g - n
          /\ new[g] = old[g - n]
      BY <1>1, <1>3, <2>2
    <3>2. ~EndsBy(p, old, i - n, g - n)
      BY <1>1, <1>4, <2>2
    <3> QED BY <3>1, <3>2 DEF Neat, Passing
  <2> QED BY <1>1, <2>1, <2>2
<1>14. Blamed(p, new)
  <2> SUFFICES ASSUME NEW g \in 1..Len(new), new[g].op = "end"
               PROVE  /\ new[g].failed \subseteq 1..Len(p[new[g].pipe])
                      /\ new[g].cause # None => new[g].failed # {}
    BY DEF Blamed
  <2>1. g > n
    BY <1>1, <1>2
  <2>2. g - n \in 1..Len(old) /\ new[g] = old[g - n]
    BY <1>3, <2>1
  <2> QED BY <2>2 DEF Neat, Blamed
<1>15. Neat(p, new)
  BY <1>5, <1>7, <1>9, <1>11, <1>13, <1>14 DEF Neat
<1>16. EndIn(new, at[1])
  <2>1. PICK j \in 1..Len(old) : IsEnd(old[j], at[1])
    BY DEF Fits, EndIn
  <2>2. n + j \in 1..Len(new) /\ IsEnd(new[n + j], at[1])
    BY <1>1, <2>1
  <2> QED BY <2>2 DEF EndIn
<1>17. Fits(p, new, at)
  BY <1>6, <1>8, <1>10, <1>12, <1>16 DEF Fits
<1>18. Unfailed(old, at) => Unfailed(new, at)
  BY <1>10 DEF Unfailed
<1> QED BY <1>15, <1>17, <1>18

-----------------------------------------------------------------------------
(* A pipe in front of an agenda.                                           *)

\* No pipe is on the agenda twice.
LEMMA NotYetThere ==
    ASSUME NEW p, WellFormed(p), NEW old \in Seq(Tasks(p)), Nested(p, old),
           NEW pipe \in DOMAIN p \ {"root"}, Fits(p, old, Owner(p, pipe))
    PROVE  /\ \A j \in 1..Len(old) : ~IsEnd(old[j], pipe)
           /\ \A j \in 1..Len(old) - 1 : Around(p, old[j]) # pipe
           /\ Owner(p, pipe)[1] # pipe
<1> DEFINE at == Owner(p, pipe)
<1>1. at \in Places(p) /\ at[2] \in Nat
  BY OwnerIs, PlaceIs
<1>2. Len(old) \in Nat /\ IsEnd(old[Len(old)], "root")
  <2>1. EndOf(old, "root") = Len(old) /\ old # <<>> /\ Len(old) \in 1..Len(old)
    BY DEF Nested
  <2> QED BY <2>1, EndOfIs
<1>3. ASSUME NEW j \in 1..Len(old), IsEnd(old[j], pipe) PROVE FALSE
  <2>1. j \in 1..Len(old) - 1
    BY <1>2, <1>3 DEF IsEnd
  <2>2. Around(p, old[j]) = at[1] /\ Spot(p, old[j]) = at /\ old[j].op = "end"
    BY <1>3 DEF IsEnd, Around, Spot
  <2>3. at[2] < at[2]
    BY <2>1, <2>2 DEF Fits
  <2> QED BY <1>1, <2>3
<1>4. ASSUME NEW j \in 1..Len(old) - 1, Around(p, old[j]) = pipe PROVE FALSE
  <2>1. PICK l \in j + 1..Len(old) : IsEnd(old[l], Around(p, old[j]))
    BY DEF Nested, IsEnd
  <2> QED BY <1>2, <1>3, <1>4, <2>1
<1>5. at[1] # pipe
  BY <1>3 DEF Fits, EndIn
<1> QED BY <1>3, <1>4, <1>5

\* A stage starts a pipe it embeds.
LEMMA EmbeddedNeat ==
    ASSUME NEW p, WellFormed(p), NEW old \in Seq(Tasks(p)), Nested(p, old), Neat(p, old),
           NEW new, Ahead(p, new, old, 1), NEW pipe \in DOMAIN p \ {"root"},
           IsEnd(new[1], pipe), new[1].cause = None, new[1].failed = {},
           Fits(p, old, Owner(p, pipe)), Open(p, old, Owner(p, pipe))
    PROVE  Neat(p, new) /\ Fits(p, new, <<pipe, 1>>) /\ Unfailed(new, <<pipe, 1>>)
<1> DEFINE at == Owner(p, pipe)
           into == <<pipe, 1>>
<1>1. /\ Slid(p, new, old, 1) /\ \A j \in 1..Len(old) : new[1 + j] = old[j]
      /\ Len(new) = 1 + Len(old) /\ Len(old) \in Nat
  BY AheadSlid DEF Ahead
<1>2. /\ \A j \in 1..Len(old) : ~IsEnd(old[j], pipe)
      /\ \A j \in 1..Len(old) - 1 : Around(p, old[j]) # pipe
      /\ at[1] # pipe
  BY NotYetThere
<1>3. /\ new[1].op = "end" /\ new[1].pipe = pipe
      /\ Spot(p, new[1]) = at /\ Around(p, new[1]) = at[1]
  BY DEF IsEnd, Spot, Around
<1>4. into[1] = pipe /\ into[2] = 1
  OBVIOUS
<1> HIDE DEF at, into
<1>5. ASSUME NEW j \in 1..Len(new), j # 1
      PROVE  j - 1 \in 1..Len(old) /\ 1 + (j - 1) = j /\ new[j] = old[j - 1]
  <2>1. j - 1 \in 1..Len(old) /\ 1 + (j - 1) = j
    BY <1>1, <1>5
  <2>2. new[1 + (j - 1)] = old[j - 1]
    BY <1>1, <2>1
  <2> QED BY <2>1, <2>2
<1>6. ASSUME NEW i \in 1..Len(new), NEW o \in 1..Len(new), i # 1, o # 1
      PROVE  EndsBy(p, new, i, o) <=> EndsBy(p, old, i - 1, o - 1)
  <2>1. i - 1 \in 1..Len(old) /\ o - 1 \in 1..Len(old) /\ 1 + (i - 1) = i /\ 1 + (o - 1) = o
    BY <1>5, <1>6
  <2>2. EndsBy(p, new, 1 + (i - 1), 1 + (o - 1)) <=> EndsBy(p, old, i - 1, o - 1)
    BY <1>1, <2>1, SlidEnds
  <2> QED BY <2>1, <2>2
<1>7. ASSUME NEW j \in 1..Len(new), IsEnd(new[j], pipe) PROVE j = 1
  BY <1>2, <1>5, <1>7
<1>8. OneEach(new)
  <2> SUFFICES ASSUME NEW i \in 1..Len(new), NEW j \in 1..Len(new), i < j,
                      new[i].op = "end", new[j].op = "end"
               PROVE  new[i].pipe # new[j].pipe
    BY DEF OneEach
  <2>1. CASE i = 1
    BY <1>3, <1>7, <2>1 DEF IsEnd
  <2>2. CASE i # 1
    <3>1. i # 1 /\ j # 1 /\ i - 1 < j - 1
      BY <1>1, <2>2
    <3>2. /\ i - 1 \in 1..Len(old) /\ j - 1 \in 1..Len(old)
          /\ new[i] = old[i - 1] /\ new[j] = old[j - 1]
      BY <1>5, <3>1
    <3> QED BY <3>1, <3>2 DEF Neat, OneEach
  <2> QED BY <2>1, <2>2
<1>9. Sorted(p, new)
  <2> SUFFICES ASSUME NEW i \in 1..Len(new) - 1, NEW j \in 1..Len(new) - 1, i < j,
                      Around(p, new[i]) = Around(p, new[j])
               PROVE  /\ Spot(p, new[j])[2] <= Spot(p, new[i])[2]
                      /\ new[j].op = "end" => Spot(p, new[j])[2] < Spot(p, new[i])[2]
    BY DEF Sorted
  <2>0. i \in 1..Len(new) /\ j \in 1..Len(new) /\ j # 1
    BY <1>1
  <2>1. j - 1 \in 1..Len(old) - 1 /\ new[j] = old[j - 1]
    BY <1>1, <1>5, <2>0
  <2>2. CASE i = 1
    BY <1>3, <2>1, <2>2 DEF Fits, at
  <2>3. CASE i # 1
    <3>1. i - 1 \in 1..Len(old) - 1 /\ i - 1 < j - 1 /\ new[i] = old[i - 1]
      BY <1>1, <1>5, <2>0, <2>3
    <3> QED BY <2>1, <3>1 DEF Neat, Sorted
  <2> QED BY <2>2, <2>3
<1>10. Bracketed(p, new)
  <2> SUFFICES ASSUME NEW i \in 1..Len(new), NEW j \in 1..Len(new), NEW o \in 1..Len(new),
                      i < j, j < o, IsEnd(new[o], Around(p, new[i]))
               PROVE  EndsBy(p, new, j, o)
    BY DEF Bracketed
  <2>1. /\ j - 1 \in 1..Len(old) /\ o - 1 \in 1..Len(old) /\ j - 1 < o - 1 /\ j # 1 /\ o # 1
        /\ new[o] = old[o - 1]
    BY <1>1, <1>5
  <2>2. EndsBy(p, old, j - 1, o - 1)
    <3>1. CASE i = 1
      BY <1>3, <2>1, <3>1 DEF Fits, at
    <3>2. CASE i # 1
      <4>1. i - 1 \in 1..Len(old) /\ i - 1 < j - 1 /\ new[i] = old[i - 1]
        BY <1>1, <1>5, <3>2
      <4> QED BY <2>1, <4>1 DEF Neat, Bracketed
    <3> QED BY <3>1, <3>2
  <2> QED BY <1>6, <2>1, <2>2
<1>11. Stopping(p, new)
  <2> SUFFICES ASSUME NEW i \in 1..Len(new), NEW g \in 1..Len(new), i < g,
                      IsEnd(new[g], Around(p, new[i])), NEW k \in new[g].failed
               PROVE  /\ Spot(p, new[i])[2] <= k
                      /\ new[i].op = "end" => Starts(p, Spot(p, new[i]), k)
    BY DEF Stopping
  <2>1. g - 1 \in 1..Len(old) /\ new[g] = old[g - 1]
    BY <1>1, <1>5
  <2>2. CASE i = 1
    BY <1>3, <2>1, <2>2 DEF Fits, Open, at
  <2>3. CASE i # 1
    <3>1. i - 1 \in 1..Len(old) /\ i - 1 < g - 1 /\ new[i] = old[i - 1]
      BY <1>1, <1>5, <2>3
    <3> QED BY <2>1, <3>1 DEF Neat, Stopping
  <2> QED BY <2>2, <2>3
<1>12. Passing(p, new)
  <2> SUFFICES ASSUME NEW i \in 1..Len(new), NEW g \in 1..Len(new), i < g,
                      new[g].op = "end", ~EndsBy(p, new, i, g)
               PROVE  OwnedBy(p, new[g].pipe, {"switch"}) /\ new[g].cause = None
    BY DEF Passing
  <2>1. g - 1 \in 1..Len(old) /\ new[g] = old[g - 1] /\ g # 1
    BY <1>1, <1>5
  <2>2. CASE i = 1
    <3>1. ASSUME NEW l \in 1..g - 1, IsEnd(old[l], at[1]) PROVE FALSE
      <4>1. 1 + l \in 1 + 1..g /\ l \in 1..Len(old)
        BY <2>1
      <4>2. IsEnd(new[1 + l], Around(p, new[1]))
        BY <1>1, <1>3, <3>1, <4>1
      <4> QED BY <2>2, <4>1, <4>2 DEF EndsBy
    <3> QED BY <2>1, <3>1 DEF Fits, at
  <2>3. CASE i # 1
    <3>1. i - 1 \in 1..Len(old) /\ i - 1 < g - 1
      BY <1>1, <1>5, <2>3
    <3>2. ~EndsBy(p, old, i - 1, g - 1)
      BY <1>6, <2>1, <2>3
    <3> QED BY <2>1, <3>1, <3>2 DEF Neat, Passing
  <2> QED BY <2>2, <2>3
<1>13. Blamed(p, new)
  <2> SUFFICES ASSUME NEW g \in 1..Len(new), new[g].op = "end"
               PROVE  /\ new[g].failed \subseteq 1..Len(p[new[g].pipe])
                      /\ new[g].cause # None => new[g].failed # {}
    BY DEF Blamed
  <2>1. CASE g # 1
    BY <1>5, <2>1 DEF Neat, Blamed
  <2> QED BY <2>1
<1>14. Neat(p, new)
  BY <1>8, <1>9, <1>10, <1>11, <1>12, <1>13 DEF Neat
<1>15. Fits(p, new, into)
  <2>1. 1 \in 1..Len(new) /\ EndIn(new, into[1])
    BY <1>1, <1>4 DEF EndIn
  <2>2. ASSUME NEW j \in 1..Len(new) - 1, Around(p, new[j]) = into[1] PROVE FALSE
    <3>1. j # 1
      BY <1>2, <1>3, <1>4, <2>2
    <3>2. j - 1 \in 1..Len(old) - 1 /\ new[j] = old[j - 1]
      BY <1>1, <1>5, <3>1
    <3> QED BY <1>2, <1>4, <2>2, <3>2
  <2>3. \A o \in 1..Len(new) : IsEnd(new[o], into[1]) => o = 1 /\ new[o].failed = {}
    BY <1>4, <1>7
  <2>4. \A g \in 1..Len(new) : \E l \in 1..g : IsEnd(new[l], into[1])
    BY <1>4
  <2>5. \A j, o \in 1..Len(new) : j < o /\ IsEnd(new[o], into[1]) => EndsBy(p, new, j, o)
    BY <2>3
  <2> QED BY <2>1, <2>2, <2>3, <2>4, <2>5 DEF Fits
<1>16. Unfailed(new, into)
  BY <1>4, <1>7 DEF Unfailed
<1> QED BY <1>14, <1>15, <1>16 DEF into

-----------------------------------------------------------------------------
(* A stage that fails.                                                     *)

\* What a failure does to the ends of an agenda: one fails, one may take the flag.
FailsTo(p, new, old, at, own, scope, cause, aborts) ==
    /\ own \in 1..Len(old) /\ IsEnd(old[own], at[1])
    /\ new \in Seq(Tasks(p)) /\ Len(new) = Len(old)
    /\ \A j \in 1..Len(old) : Alike(new[j], old[j])
    /\ \A j \in 1..Len(old) : old[j].op = "end" =>
           /\ new[j].failed = IF j = own THEN old[j].failed \cup {at[2]} ELSE old[j].failed
           /\ new[j].cause = IF j = own /\ old[j].cause = None THEN cause ELSE old[j].cause
           /\ new[j].aborted = (old[j].aborted \/ (j = scope /\ aborts))

\* Fail does that.
LEMMA FailIs ==
    ASSUME NEW p, NEW old \in Seq(Tasks(p)), NEW at \in Places(p), NEW cause \in Causes,
           NEW aborts \in BOOLEAN, EndIn(old, at[1])
    PROVE  FailsTo(p, Fail(p, old, at, cause, aborts), old, at,
                   EndOf(old, at[1]), Scope(p, old), cause, aborts)
<1> DEFINE own == EndOf(old, at[1])
           scope == Scope(p, old)
           new == Fail(p, old, at, cause, aborts)
           failed == [old EXCEPT ![own] = Failing(@, at[2], cause)]
<1>1. own \in 1..Len(old) /\ IsEnd(old[own], at[1])
  BY EndOfIs
<1>2. new = [failed EXCEPT ![scope] = Aborting(@, aborts)]
  BY DEF Fail
<1>3. Onto(p, new, old, {})
  BY FailOnto
<1>4. /\ new \in Seq(Tasks(p)) /\ \A j \in 1..Len(old) : Alike(new[j], old[j])
      /\ Len(new) = Len(old)
  <2>1. Len(failed) = Len(old) /\ Len(new) = Len(failed)
    BY <1>2
  <2> HIDE DEF new, failed
  <2>2. new \in Seq(Tasks(p)) /\ \A j \in 1..Len(old) : Alike(new[Len(new) - Len(old) + j], old[j])
    BY <1>3 DEF Onto
  <2>3. \A j \in 1..Len(old) : Len(new) - Len(old) + j = j
    BY <2>1
  <2> QED BY <2>1, <2>2, <2>3
<1>5. \A j \in 1..Len(old) : new[j] = IF j = scope THEN Aborting(failed[j], aborts) ELSE failed[j]
  BY <1>2
<1>6. \A j \in 1..Len(old) : failed[j] = IF j = own THEN Failing(old[j], at[2], cause) ELSE old[j]
  OBVIOUS
<1>7. \A j \in 1..Len(old) : old[j].op = "end" => old[j] \in Ends(p)
  BY EndIsEnd
<1>8. ASSUME NEW end \in Ends(p)
      PROVE  /\ Failing(end, at[2], cause).failed = end.failed \cup {at[2]}
             /\ Failing(end, at[2], cause).cause = IF end.cause = None THEN cause ELSE end.cause
             /\ Failing(end, at[2], cause).aborted = end.aborted
             /\ Failing(end, at[2], cause) \in Ends(p)
             /\ Aborting(end, aborts).failed = end.failed /\ Aborting(end, aborts).cause = end.cause
             /\ Aborting(end, aborts).aborted = (end.aborted \/ aborts)
  <2>1. at[2] \in Nat
    BY DEF Places
  <2> QED BY <2>1 DEF Failing, Aborting, Ends
<1> HIDE DEF own, scope, new, failed
<1>9. ASSUME NEW j \in 1..Len(old), old[j].op = "end"
      PROVE  /\ new[j].failed = IF j = own THEN old[j].failed \cup {at[2]} ELSE old[j].failed
             /\ new[j].cause = IF j = own /\ old[j].cause = None THEN cause ELSE old[j].cause
             /\ new[j].aborted = (old[j].aborted \/ (j = scope /\ aborts))
  <2>1. /\ failed[j] \in Ends(p) /\ failed[j].aborted = old[j].aborted
        /\ failed[j].failed = IF j = own THEN old[j].failed \cup {at[2]} ELSE old[j].failed
        /\ failed[j].cause = IF j = own /\ old[j].cause = None THEN cause ELSE old[j].cause
    <3>1. old[j] \in Ends(p)
      BY <1>7, <1>9
    <3>2. CASE j = own
      <4>1. failed[j] = Failing(old[j], at[2], cause)
        BY <1>6, <3>2
      <4> QED BY <1>8, <3>1, <3>2, <4>1
    <3>3. CASE j # own
      BY <1>6, <3>1, <3>3
    <3> QED BY <3>2, <3>3
  <2>2. /\ new[j].failed = failed[j].failed /\ new[j].cause = failed[j].cause
        /\ new[j].aborted = (failed[j].aborted \/ (j = scope /\ aborts))
    <3>1. CASE j = scope
      <4>1. new[j] = Aborting(failed[j], aborts)
        BY <1>5, <3>1
      <4> QED BY <1>8, <2>1, <3>1, <4>1
    <3>2. CASE j # scope
      <4>1. failed[j].aborted \in BOOLEAN
        BY <2>1 DEF Ends
      <4> QED BY <1>5, <3>2, <4>1
    <3> QED BY <3>1, <3>2
  <2> QED BY <2>1, <2>2
<1>10. FailsTo(p, new, old, at, own, scope, cause, aborts)
  BY <1>1, <1>4, <1>9 DEF FailsTo
<1> QED BY <1>10 DEF own, scope, new

\* A stage that fails where a task may be put leaves a neat agenda.
LEMMA FailNeat ==
    ASSUME NEW p, WellFormed(p), NEW old \in Seq(Tasks(p)), Neat(p, old), NEW at \in Locations(p),
           Fits(p, old, at), NEW cause \in Causes, NEW aborts \in BOOLEAN
    PROVE  Neat(p, Fail(p, old, at, cause, aborts))
<1> DEFINE own == EndOf(old, at[1])
           new == Fail(p, old, at, cause, aborts)
<1>0. /\ at \in Places(p) /\ at[2] \in 1..Len(p[at[1]]) /\ EndIn(old, at[1])
  BY LocationIs DEF Fits
<1>01. FailsTo(p, new, old, at, own, Scope(p, old), cause, aborts)
  BY <1>0, FailIs
<1> HIDE DEF own, new
<1>1. /\ own \in 1..Len(old) /\ IsEnd(old[own], at[1])
      /\ new \in Seq(Tasks(p)) /\ Len(new) = Len(old) /\ Len(old) \in Nat
      /\ \A j \in 1..Len(old) : Alike(new[j], old[j])
  BY <1>01 DEF FailsTo
<1>2. ASSUME NEW j \in 1..Len(old), old[j].op = "end"
      PROVE  /\ new[j].failed = IF j = own THEN old[j].failed \cup {at[2]} ELSE old[j].failed
             /\ j # own => new[j].cause = old[j].cause
  BY <1>01, <1>2 DEF FailsTo
<1>3. ASSUME NEW j \in 1..Len(old)
      PROVE  /\ new[j].op = old[j].op
             /\ Around(p, new[j]) = Around(p, old[j]) /\ Spot(p, new[j]) = Spot(p, old[j])
             /\ \A pipe : IsEnd(new[j], pipe) <=> IsEnd(old[j], pipe)
             /\ old[j].op = "end" => new[j].pipe = old[j].pipe
  <2>1. Alike(new[j], old[j])
    BY <1>1
  <2> QED BY <2>1 DEF Alike, Around, Spot, IsEnd
<1>4. Slid(p, old, new, 0)
  <2>1. \A j \in 1..Len(new) : Alike(old[0 + j], new[j])
    BY <1>1 DEF Alike
  <2> QED BY <1>1, <2>1 DEF Slid
<1>5. OneEach(new) /\ Sorted(p, new) /\ Bracketed(p, new)
  BY <1>4, SlidShape DEF Neat
<1>6. ASSUME NEW i \in 1..Len(old), NEW o \in 1..Len(old)
      PROVE  EndsBy(p, new, i, o) <=> EndsBy(p, old, i, o)
  <2>1. \A l \in i + 1..o : l \in 1..Len(old)
    BY <1>1
  <2> QED BY <1>3, <2>1 DEF EndsBy
<1>7. Stopping(p, new)
  <2> SUFFICES ASSUME NEW i \in 1..Len(new), NEW g \in 1..Len(new), i < g,
                      IsEnd(new[g], Around(p, new[i])), NEW k \in new[g].failed
               PROVE  /\ Spot(p, new[i])[2] <= k
                      /\ new[i].op = "end" => Starts(p, Spot(p, new[i]), k)
    BY DEF Stopping
  <2>1. IsEnd(old[g], Around(p, old[i])) /\ i \in 1..Len(old) /\ g \in 1..Len(old)
    BY <1>1, <1>3
  <2>2. CASE k \in old[g].failed
    BY <1>3, <2>1, <2>2 DEF Neat, Stopping
  <2>3. CASE k \notin old[g].failed
    <3>1. g = own /\ k = at[2]
      BY <1>2, <2>1, <2>3 DEF IsEnd
    <3>2. i \in 1..Len(old) - 1 /\ Around(p, old[i]) = at[1]
      BY <1>1, <2>1, <3>1 DEF IsEnd
    <3>3. Spot(p, new[i]) = Spot(p, old[i]) /\ new[i].op = old[i].op
      BY <1>3, <2>1
    <3>4. /\ Spot(p, old[i])[2] <= at[2]
          /\ old[i].op = "end" => Spot(p, old[i])[2] < at[2]
      BY <3>2 DEF Fits
    <3> QED BY <3>1, <3>3, <3>4 DEF Starts
  <2> QED BY <2>2, <2>3
<1>8. Passing(p, new)
  <2> SUFFICES ASSUME NEW i \in 1..Len(new), NEW g \in 1..Len(new), i < g,
                      new[g].op = "end", ~EndsBy(p, new, i, g)
               PROVE  OwnedBy(p, new[g].pipe, {"switch"}) /\ new[g].cause = None
    BY DEF Passing
  <2>1. /\ i \in 1..Len(old) /\ g \in 1..Len(old) /\ old[g].op = "end" /\ ~EndsBy(p, old, i, g)
        /\ new[g].pipe = old[g].pipe
    BY <1>1, <1>3, <1>6
  <2>2. g # own
    BY <1>1, <2>1 DEF Fits
  <2> QED BY <1>2, <2>1, <2>2 DEF Neat, Passing
<1>9. Blamed(p, new)
  <2> SUFFICES ASSUME NEW g \in 1..Len(new), new[g].op = "end"
               PROVE  /\ new[g].failed \subseteq 1..Len(p[new[g].pipe])
                      /\ new[g].cause # None => new[g].failed # {}
    BY DEF Blamed
  <2>1. g \in 1..Len(old) /\ old[g].op = "end" /\ new[g].pipe = old[g].pipe
    BY <1>1, <1>3
  <2>2. /\ old[g].failed \subseteq 1..Len(p[old[g].pipe])
        /\ old[g].cause # None => old[g].failed # {}
    BY <2>1 DEF Neat, Blamed
  <2>3. CASE g = own
    BY <1>0, <1>1, <1>2, <2>1, <2>2, <2>3 DEF IsEnd
  <2>4. CASE g # own
    BY <1>2, <2>1, <2>2, <2>4
  <2> QED BY <2>3, <2>4
<1>10. Neat(p, new)
  BY <1>5, <1>7, <1>8, <1>9 DEF Neat
<1> QED BY <1>10 DEF new

-----------------------------------------------------------------------------
(* Causes and abort flags.                                                 *)

\* What a step or a stage may fail for.
Real == {"step", "max_iterations", "refused"}
\* The end of a pipe with a flag of its own.
Flagged(p, task) == task.op = "end" /\ OwnsFlag(p, task.pipe)
\* No abort flag from i on is nearer than j.
Within(p, tasks, i, j) == i <= j /\ \A l \in i..j - 1 : ~Flagged(p, tasks[l])
\* The end of a pipe that failed, not for an abort.
FailedAt(tasks, g) == tasks[g].op = "end" /\ tasks[g].cause.kind \in Real
\* A flag was raised by a failure under it.
Meant(p, tasks, s) == \E g \in 1..Len(tasks) : FailedAt(tasks, g) /\ Within(p, tasks, g, s)
\* A pipe further on failed, under the same flag.
Excused(p, tasks, i) == \E g \in i + 1..Len(tasks) : FailedAt(tasks, g) /\ Within(p, tasks, i, g)

\* So was every flag.
AbortsMeant(p, tasks) ==
    \A s \in 1..Len(tasks) : Flagged(p, tasks[s]) /\ tasks[s].aborted => Meant(p, tasks, s)
\* What was aborted was behind such a failure.
AbortedBehind(p, tasks) ==
    \A i \in 1..Len(tasks) :
        tasks[i].op = "end" /\ tasks[i].cause.kind = "aborted" => Excused(p, tasks, i)
\* A failure raises the flag, unless a Loop gave up.
FailuresAbort(p, tasks) ==
    \A g, s \in 1..Len(tasks) :
        /\ tasks[g].op = "end" /\ tasks[g].cause.kind \notin {"none", "max_iterations"}
        /\ Flagged(p, tasks[s]) /\ Within(p, tasks, g, s)
        => tasks[s].aborted
\* Causes and flags agree.
Candid(p, tasks) == AbortsMeant(p, tasks) /\ AbortedBehind(p, tasks) /\ FailuresAbort(p, tasks)

\* Flags are where they were.
LEMMA SlidWithin ==
    ASSUME NEW p, NEW new, NEW old, NEW d, Slid(p, new, old, d),
           NEW i \in 1..Len(old), NEW j \in 1..Len(old)
    PROVE  /\ Flagged(p, new[d + i]) <=> Flagged(p, old[i])
           /\ Within(p, new, d + i, d + j) <=> Within(p, old, i, j)
<1>0. d \in Nat /\ Len(old) \in Nat
  BY DEF Slid
<1>1. ASSUME NEW l \in 1..Len(old) PROVE Flagged(p, new[d + l]) <=> Flagged(p, old[l])
  BY SlidSame DEF Flagged
<1>2. ASSUME Within(p, new, d + i, d + j) PROVE Within(p, old, i, j)
  <2>1. ASSUME NEW l \in i..j - 1 PROVE ~Flagged(p, old[l])
    <3>1. l \in 1..Len(old) /\ d + l \in d + i..(d + j) - 1
      BY <1>0
    <3> QED BY <1>1, <1>2, <3>1 DEF Within
  <2> QED BY <1>0, <1>2, <2>1 DEF Within
<1>3. ASSUME Within(p, old, i, j) PROVE Within(p, new, d + i, d + j)
  <2>1. ASSUME NEW l \in d + i..(d + j) - 1 PROVE ~Flagged(p, new[l])
    <3>1. l - d \in 1..Len(old) /\ l - d \in i..j - 1 /\ d + (l - d) = l
      BY <1>0
    <3>2. ~Flagged(p, new[d + (l - d)])
      BY <1>1, <1>3, <3>1 DEF Within
    <3> QED BY <3>1, <3>2
  <2> QED BY <1>0, <1>3, <2>1 DEF Within
<1> QED BY <1>1, <1>2, <1>3

\* Ends without a failure, put in front of an agenda, change nothing.
LEMMA GrownCandid ==
    ASSUME NEW p, NEW new, NEW old, NEW d, Slid(p, new, old, d), Candid(p, old),
           \A j \in 1..Len(old) : old[j].op = "end" =>
               new[d + j].cause = old[j].cause /\ new[d + j].aborted = old[j].aborted,
           \A i \in 1..d : new[i].op = "end" => new[i].cause.kind = "none" /\ ~new[i].aborted
    PROVE  Candid(p, new)
<1>0. d \in Nat /\ Len(old) \in Nat /\ Len(new) = Len(old) + d
  BY DEF Slid
<1>1. ASSUME NEW j \in 1..Len(new), j > d PROVE j - d \in 1..Len(old) /\ d + (j - d) = j
  BY <1>0, <1>1
<1>2. ASSUME NEW j \in 1..Len(old)
      PROVE  /\ d + j \in 1..Len(new) /\ new[d + j].op = old[j].op
             /\ FailedAt(old, j) => FailedAt(new, d + j)
  BY SlidSame DEF FailedAt
<1>3. AbortsMeant(p, new)
  <2> SUFFICES ASSUME NEW s \in 1..Len(new), Flagged(p, new[s]), new[s].aborted
               PROVE  Meant(p, new, s)
    BY DEF AbortsMeant
  <2>1. s > d
    BY <1>0 DEF Flagged
  <2>2. s - d \in 1..Len(old) /\ d + (s - d) = s
    BY <1>1, <2>1
  <2>3. Flagged(p, old[s - d])
    BY <2>2, SlidWithin
  <2>4. old[s - d].aborted
    BY <2>2, <2>3 DEF Flagged
  <2>5. PICK g \in 1..Len(old) : FailedAt(old, g) /\ Within(p, old, g, s - d)
    BY <2>2, <2>3, <2>4 DEF Candid, AbortsMeant, Meant
  <2>6. Within(p, new, d + g, d + (s - d))
    BY <2>2, <2>5, SlidWithin
  <2> QED BY <1>2, <2>2, <2>5, <2>6 DEF Meant
<1>4. AbortedBehind(p, new)
  <2> SUFFICES ASSUME NEW i \in 1..Len(new), new[i].op = "end", new[i].cause.kind = "aborted"
               PROVE  Excused(p, new, i)
    BY DEF AbortedBehind
  <2>1. i > d
    BY <1>0
  <2>2. i - d \in 1..Len(old) /\ d + (i - d) = i
    BY <1>1, <2>1
  <2>3. old[i - d].op = "end" /\ old[i - d].cause.kind = "aborted"
    BY <1>2, <2>2
  <2>4. PICK g \in (i - d) + 1..Len(old) : FailedAt(old, g) /\ Within(p, old, i - d, g)
    BY <2>2, <2>3 DEF Candid, AbortedBehind, Excused
  <2>5. g \in 1..Len(old) /\ d + g \in i + 1..Len(new)
    BY <1>0, <2>2
  <2>6. Within(p, new, d + (i - d), d + g) /\ FailedAt(new, d + g)
    BY <1>2, <2>2, <2>4, <2>5, SlidWithin
  <2> QED BY <2>2, <2>5, <2>6 DEF Excused
<1>5. FailuresAbort(p, new)
  <2> SUFFICES ASSUME NEW g \in 1..Len(new), NEW s \in 1..Len(new), new[g].op = "end",
                      new[g].cause.kind \notin {"none", "max_iterations"},
                      Flagged(p, new[s]), Within(p, new, g, s)
               PROVE  new[s].aborted
    BY DEF FailuresAbort
  <2>1. g > d /\ s > d
    BY <1>0 DEF Within
  <2>2. /\ g - d \in 1..Len(old) /\ d + (g - d) = g
        /\ s - d \in 1..Len(old) /\ d + (s - d) = s
    BY <1>1, <2>1
  <2>3. /\ old[g - d].op = "end" /\ old[g - d].cause = new[g].cause
        /\ Flagged(p, old[s - d])
    BY <1>2, <2>2, SlidWithin
  <2>4. Within(p, old, g - d, s - d)
    BY <2>2, SlidWithin
  <2>5. old[s - d].aborted
    BY <2>2, <2>3, <2>4 DEF Candid, FailuresAbort
  <2> QED BY <2>2, <2>3, <2>5 DEF Flagged
<1> QED BY <1>3, <1>4, <1>5 DEF Candid

\* The head may go: what is behind it is as it was.
LEMMA RestBehind ==
    ASSUME NEW p, NEW tasks \in Seq(Tasks(p)), tasks # <<>>, AbortedBehind(p, tasks),
           FailuresAbort(p, tasks)
    PROVE  AbortedBehind(p, Tail(tasks)) /\ FailuresAbort(p, Tail(tasks))
<1> DEFINE old == Tail(tasks)
<1>0. /\ Slid(p, tasks, old, 1) /\ \A j \in 1..Len(old) : tasks[1 + j] = old[j]
      /\ Len(old) \in Nat /\ Len(tasks) = Len(old) + 1 /\ Head(tasks) = tasks[1]
      /\ 1 \in 1..Len(tasks)
  BY RestSlid DEF Slid
<1> HIDE DEF old
<1>1. ASSUME NEW j \in 1..Len(tasks), j # 1
      PROVE  j - 1 \in 1..Len(old) /\ 1 + (j - 1) = j /\ tasks[j] = old[j - 1]
  <2>1. j - 1 \in 1..Len(old) /\ 1 + (j - 1) = j
    BY <1>0, <1>1
  <2>2. tasks[1 + (j - 1)] = old[j - 1]
    BY <1>0, <2>1
  <2> QED BY <2>1, <2>2
<1>2. ASSUME NEW j \in 1..Len(old) PROVE 1 + j \in 1..Len(tasks) /\ tasks[1 + j] = old[j]
  BY <1>0
<1>3. AbortedBehind(p, old)
  <2> SUFFICES ASSUME NEW i \in 1..Len(old), old[i].op = "end", old[i].cause.kind = "aborted"
               PROVE  Excused(p, old, i)
    BY DEF AbortedBehind
  <2>1. PICK g \in (1 + i) + 1..Len(tasks) : FailedAt(tasks, g) /\ Within(p, tasks, 1 + i, g)
    BY <1>2 DEF AbortedBehind, Excused
  <2>2. g \in 1..Len(tasks) /\ g # 1 /\ g - 1 \in i + 1..Len(old)
    BY <1>0
  <2>3. g - 1 \in 1..Len(old) /\ 1 + (g - 1) = g /\ tasks[g] = old[g - 1]
    BY <1>1, <2>2
  <2>4. Within(p, tasks, 1 + i, 1 + (g - 1))
    BY <2>1, <2>3
  <2>5. Within(p, old, i, g - 1)
    BY <1>0, <2>3, <2>4, SlidWithin
  <2> QED BY <2>1, <2>2, <2>3, <2>5 DEF Excused, FailedAt
<1>4. FailuresAbort(p, old)
  <2> SUFFICES ASSUME NEW g \in 1..Len(old), NEW s \in 1..Len(old), old[g].op = "end",
                      old[g].cause.kind \notin {"none", "max_iterations"},
                      Flagged(p, old[s]), Within(p, old, g, s)
               PROVE  old[s].aborted
    BY DEF FailuresAbort
  <2>1. Within(p, tasks, 1 + g, 1 + s)
    BY <1>0, SlidWithin
  <2> QED BY <1>2, <2>1 DEF FailuresAbort
<1> QED BY <1>3, <1>4 DEF old

\* And what was aborted was meant, unless the head failed and shares the flag of the pipe around it.
LEMMA RestCandid ==
    ASSUME NEW p, NEW tasks \in Seq(Tasks(p)), tasks # <<>>, Candid(p, tasks),
           Head(tasks).op = "end" => Head(tasks).cause.kind = "none" \/ Flagged(p, Head(tasks))
    PROVE  Candid(p, Tail(tasks))
<1> DEFINE old == Tail(tasks)
<1>0. /\ Slid(p, tasks, old, 1) /\ \A j \in 1..Len(old) : tasks[1 + j] = old[j]
      /\ Len(old) \in Nat /\ Len(tasks) = Len(old) + 1 /\ Head(tasks) = tasks[1]
      /\ 1 \in 1..Len(tasks)
  BY RestSlid DEF Slid
<1> HIDE DEF old
<1>1. ASSUME NEW j \in 1..Len(tasks), j # 1
      PROVE  j - 1 \in 1..Len(old) /\ 1 + (j - 1) = j /\ tasks[j] = old[j - 1]
  <2>1. j - 1 \in 1..Len(old) /\ 1 + (j - 1) = j
    BY <1>0, <1>1
  <2>2. tasks[1 + (j - 1)] = old[j - 1]
    BY <1>0, <2>1
  <2> QED BY <2>1, <2>2
<1>2. ASSUME NEW j \in 1..Len(old) PROVE 1 + j \in 1..Len(tasks) /\ tasks[1 + j] = old[j]
  BY <1>0
<1>3. AbortsMeant(p, old)
  <2> SUFFICES ASSUME NEW s \in 1..Len(old), Flagged(p, old[s]), old[s].aborted
               PROVE  Meant(p, old, s)
    BY DEF AbortsMeant
  <2>1. PICK g \in 1..Len(tasks) : FailedAt(tasks, g) /\ Within(p, tasks, g, 1 + s)
    BY <1>2 DEF Candid, AbortsMeant, Meant
  <2>2. g # 1
    <3>1. SUFFICES ASSUME g = 1 PROVE FALSE
      OBVIOUS
    <3>2. 1 \in g..(1 + s) - 1
      BY <3>1
    <3> QED BY <1>0, <2>1, <3>1, <3>2 DEF FailedAt, Real, Within
  <2>3. g - 1 \in 1..Len(old) /\ 1 + (g - 1) = g /\ tasks[g] = old[g - 1]
    BY <1>1, <2>2
  <2>4. Within(p, tasks, 1 + (g - 1), 1 + s)
    BY <2>1, <2>3
  <2> DEFINE k == g - 1
  <2>5. k \in 1..Len(old) /\ Within(p, tasks, 1 + k, 1 + s)
    BY <2>3, <2>4
  <2> HIDE DEF k
  <2>6. Within(p, old, k, s)
    BY <1>0, <2>5, SlidWithin
  <2>7. k \in 1..Len(old) /\ FailedAt(old, k)
    BY <2>1, <2>3 DEF FailedAt, k
  <2> QED BY <2>6, <2>7 DEF Meant
<1>4. AbortedBehind(p, old) /\ FailuresAbort(p, old)
  BY RestBehind DEF Candid, old
<1>5. Candid(p, old)
  BY <1>3, <1>4 DEF Candid
<1> QED BY <1>5 DEF old

\* A stage fails: where it fails for an abort, some stage behind it failed; where an
\* abort is meant, its failure may be what is meant.
LEMMA FailCandid ==
    ASSUME NEW p, NEW new, NEW old \in Seq(Tasks(p)), NEW at, NEW own, NEW scope, NEW cause,
           NEW aborts \in BOOLEAN,
           FailsTo(p, new, old, at, own, scope, cause, aborts), AbortedBehind(p, old),
           FailuresAbort(p, old), scope \in 1..Len(old), Flagged(p, old[scope]),
           \A l \in 1..scope - 1 : ~Flagged(p, old[l]), own <= scope,
           old[own].cause # None => old[own].cause.kind \in Real \cup {"aborted"},
           \A s \in 1..Len(old) : Flagged(p, old[s]) /\ old[s].aborted =>
               Meant(p, old, s) \/ (s = scope /\ cause.kind \in Real),
           cause.kind \in Real \/ (cause.kind = "aborted" /\
               (old[own].cause = None => Excused(p, old, own))),
           cause.kind # "max_iterations" => aborts \/ old[scope].aborted,
           aborts => cause.kind \in Real
    PROVE  Candid(p, new)
<1>1. /\ own \in 1..Len(old) /\ new \in Seq(Tasks(p)) /\ Len(new) = Len(old) /\ Len(old) \in Nat
      /\ \A j \in 1..Len(old) : Alike(new[j], old[j])
  BY DEF FailsTo
<1>2. ASSUME NEW j \in 1..Len(old), old[j].op = "end"
      PROVE  /\ new[j].cause = IF j = own /\ old[j].cause = None THEN cause ELSE old[j].cause
             /\ new[j].aborted <=> old[j].aborted \/ (j = scope /\ aborts)
  BY <1>2 DEF FailsTo
<1>3. Slid(p, new, old, 0)
  BY <1>1 DEF Slid
<1>4. ASSUME NEW j \in 1..Len(old)
      PROVE  /\ new[j].op = old[j].op
             /\ Flagged(p, new[j]) <=> Flagged(p, old[j])
             /\ FailedAt(old, j) => FailedAt(new, j)
  <2>1. 0 + j = j
    OBVIOUS
  <2>2. new[j].op = old[j].op /\ (Flagged(p, new[j]) <=> Flagged(p, old[j]))
    BY <1>3, <2>1, SlidSame, SlidWithin
  <2>3. FailedAt(old, j) => old[j].cause # None
    BY DEF FailedAt, Real, None, Failure
  <2> QED BY <1>2, <2>2, <2>3 DEF FailedAt
<1>5. ASSUME NEW i \in 1..Len(old), NEW j \in 1..Len(old)
      PROVE  Within(p, new, i, j) <=> Within(p, old, i, j)
  <2>1. 0 + i = i /\ 0 + j = j
    OBVIOUS
  <2> QED BY <1>3, <2>1, SlidWithin
<1>6. ASSUME NEW s \in 1..Len(old), Meant(p, old, s) PROVE Meant(p, new, s)
  BY <1>1, <1>4, <1>5, <1>6 DEF Meant
<1>7. ASSUME NEW i \in 1..Len(old), Excused(p, old, i) PROVE Excused(p, new, i)
  <2>1. PICK g \in i + 1..Len(old) : FailedAt(old, g) /\ Within(p, old, i, g)
    BY <1>7 DEF Excused
  <2>2. g \in 1..Len(old)
    BY <1>1
  <2> QED BY <1>1, <1>4, <1>5, <2>1, <2>2 DEF Excused
<1>8. Within(p, old, own, scope)
  BY <1>1 DEF Within
<1>9. ASSUME cause.kind \in Real PROVE Meant(p, new, scope)
  <2>0. old[own].op = "end"
    BY DEF FailsTo, IsEnd
  <2>1. CASE old[own].cause = None \/ old[own].cause.kind \in Real
    <3>1. FailedAt(new, own)
      BY <1>1, <1>2, <1>4, <1>9, <2>0, <2>1 DEF FailedAt
    <3> QED BY <1>1, <1>5, <1>8, <3>1 DEF Meant
  <2>2. CASE old[own].cause.kind = "aborted"
    <3>1. PICK g \in own + 1..Len(old) : FailedAt(old, g) /\ Within(p, old, own, g)
      BY <1>1, <2>0, <2>2 DEF AbortedBehind, Excused
    <3>2. g <= scope /\ g \in 1..Len(old)
      BY <1>1, <3>1 DEF Within
    <3>3. Within(p, old, g, scope)
      BY <1>1, <3>2 DEF Within
    <3>4. Meant(p, old, scope)
      BY <3>1, <3>2, <3>3 DEF Meant
    <3> QED BY <1>6, <3>4
  <2> QED BY <2>1, <2>2
<1>10. AbortsMeant(p, new)
  <2> SUFFICES ASSUME NEW s \in 1..Len(old), Flagged(p, new[s]), new[s].aborted
               PROVE  Meant(p, new, s)
    BY <1>1 DEF AbortsMeant
  <2>1. Flagged(p, old[s]) /\ old[s].op = "end"
    BY <1>4 DEF Flagged
  <2>2. CASE old[s].aborted
    BY <1>6, <1>9, <2>1, <2>2
  <2>3. CASE ~old[s].aborted
    BY <1>2, <1>9, <2>1, <2>3
  <2> QED BY <2>2, <2>3
<1>11. AbortedBehind(p, new)
  <2> SUFFICES ASSUME NEW i \in 1..Len(old), new[i].op = "end", new[i].cause.kind = "aborted"
               PROVE  Excused(p, new, i)
    BY <1>1 DEF AbortedBehind
  <2>1. old[i].op = "end"
    BY <1>4
  <2>2. CASE old[i].cause.kind = "aborted"
    <3>1. Excused(p, old, i)
      BY <2>1, <2>2 DEF AbortedBehind
    <3> QED BY <1>7, <3>1
  <2>3. CASE old[i].cause.kind # "aborted"
    <3>1. i = own /\ old[i].cause = None /\ cause.kind = "aborted"
      BY <1>2, <2>1, <2>3
    <3> QED BY <1>7, <3>1 DEF Real
  <2> QED BY <2>2, <2>3
<1>12. FailuresAbort(p, new)
  <2> SUFFICES ASSUME NEW g \in 1..Len(old), NEW s \in 1..Len(old), new[g].op = "end",
                      new[g].cause.kind \notin {"none", "max_iterations"},
                      Flagged(p, new[s]), Within(p, new, g, s)
               PROVE  new[s].aborted
    BY <1>1 DEF FailuresAbort
  <2>1. old[g].op = "end" /\ Flagged(p, old[s]) /\ Within(p, old, g, s) /\ old[s].op = "end"
    BY <1>4, <1>5 DEF Flagged
  <2>2. CASE old[g].cause = new[g].cause
    <3>1. old[s].aborted
      BY <2>1, <2>2 DEF FailuresAbort
    <3> QED BY <1>2, <2>1, <3>1
  <2>3. CASE old[g].cause # new[g].cause
    <3>1. g = own /\ new[g].cause = cause
      BY <1>2, <2>1, <2>3
    <3>2. s = scope
      <4>1. s >= scope
        BY <1>1, <2>1
      <4>2. s <= scope
        BY <1>1, <2>1, <3>1 DEF Within
      <4> QED BY <1>1, <4>1, <4>2
    <3> QED BY <1>2, <2>1, <3>1, <3>2
  <2> QED BY <2>2, <2>3
<1> QED BY <1>10, <1>11, <1>12 DEF Candid

-----------------------------------------------------------------------------
(* Honest agendas.                                                         *)

\* The causes an end may have.
Possible == {None, MaxIterations, Refused, Aborted} \cup {Failure("step", id) : id \in Nat}
\* The causes of an agenda's failures.
CausesIn(tasks, causes) ==
    \A i \in 1..Len(tasks) : tasks[i].op = "end" => tasks[i].cause \in causes
\* An agenda of which all of that is true.
Honest(p, tasks, causes) == Neat(p, tasks) /\ Candid(p, tasks) /\ CausesIn(tasks, causes)

\* A cause says what it is.
LEMMA PossibleIs ==
    \A cause \in Possible :
        /\ cause \in Causes
        /\ cause = None <=> cause.kind = "none"
        /\ cause # None => cause.kind \in Real \cup {"aborted"}
        /\ cause.kind = "aborted" <=> cause = Aborted
BY DEF Possible, Causes, None, MaxIterations, Refused, Aborted, Failure, Real

\* Ends without a failure, put in front of an agenda.
LEMMA GrownHonest ==
    ASSUME NEW p, NEW new, NEW old, NEW d, Slid(p, new, old, d), NEW causes \in SUBSET Possible,
           Honest(p, old, causes), Neat(p, new), None \in causes,
           \A j \in 1..Len(old) : old[j].op = "end" =>
               new[d + j].cause = old[j].cause /\ new[d + j].aborted = old[j].aborted,
           \A i \in 1..d : new[i].op = "end" => new[i].cause = None /\ ~new[i].aborted
    PROVE  Honest(p, new, causes)
<1>0. d \in Nat /\ Len(old) \in Nat /\ Len(new) = Len(old) + d
  BY DEF Slid
<1>1. Candid(p, new)
  <2>1. \A i \in 1..d : new[i].op = "end" => new[i].cause.kind = "none" /\ ~new[i].aborted
    BY DEF None, Failure
  <2> QED BY <2>1, GrownCandid DEF Honest
<1>2. ASSUME NEW i \in 1..Len(new), new[i].op = "end" PROVE new[i].cause \in causes
  <2>1. CASE i <= d
    BY <1>0, <1>2, <2>1
  <2>2. CASE i > d
    <3> DEFINE j == i - d
    <3>1. j \in 1..Len(old) /\ d + j = i
      BY <1>0, <2>2
    <3> HIDE DEF j
    <3>2. old[j].op = "end"
      BY <1>2, <3>1, SlidSame
    <3> QED BY <3>1, <3>2 DEF Honest, CausesIn
  <2> QED BY <1>0, <2>1, <2>2
<1> QED BY <1>1, <1>2 DEF Honest, CausesIn

\* Items and completions, put in front of an agenda.
LEMMA PushedHonest ==
    ASSUME NEW p, NEW new, NEW old, NEW n, Ahead(p, new, old, n), NEW causes \in SUBSET Possible,
           Honest(p, old, causes), None \in causes,
           NEW at \in Places(p), Fits(p, old, at), at[2] \in Nat,
           \A i \in 1..n : new[i].op # "end" /\ new[i].at = at
    PROVE  /\ Honest(p, new, causes) /\ Fits(p, new, at)
           /\ Unfailed(old, at) => Unfailed(new, at)
<1>1. /\ Neat(p, new) /\ Fits(p, new, at)
      /\ Unfailed(old, at) => Unfailed(new, at)
  BY PushedNeat DEF Honest
<1>2. Slid(p, new, old, n) /\ \A j \in 1..Len(old) : new[n + j] = old[j]
  BY AheadSlid DEF Ahead
<1> QED BY <1>1, <1>2, GrownHonest

\* Items leave a stage that has not failed.
LEMMA EmitHonest ==
    ASSUME NEW p, WellFormed(p), NEW old \in Seq(Tasks(p)), Nested(p, old), NEW at \in Places(p),
           NEW items \in Seq(Items), NEW causes \in SUBSET Possible, None \in causes,
           Honest(p, old, causes), Fits(p, old, <<at[1], at[2] + 1>>)
    PROVE  Honest(p, Emit(old, at, items), causes)
<1> DEFINE behind == <<at[1], at[2] + 1>>
           front == [i \in 1..Len(items) |-> ItemInto(behind, items[i])]
<1>1. behind \in Places(p) /\ behind[2] \in Nat
  BY DEF Places
<1>2. \A i \in 1..Len(items) : items[i] \in Items /\ Len(items) \in Nat
  OBVIOUS
<1>3. \A i \in 1..Len(items) : ItemInto(behind, items[i]) \in Tasks(p)
  BY <1>1, <1>2 DEF ItemInto, Tasks
<1>4. front \in Seq(Tasks(p)) /\ Len(front) = Len(items)
  <2>1. front \in [1..Len(items) -> Tasks(p)]
    BY <1>3
  <2> HIDE DEF front
  <2>2. Len(items) \in Nat
    OBVIOUS
  <2> QED BY <2>1, <2>2
<1>5. \A i \in 1..Len(front) : front[i].op # "end" /\ front[i].at = behind
  BY <1>4 DEF ItemInto
<1>6. Emit(old, at, items) = front \o old
  BY DEF Emit
<1> HIDE DEF front
<1>7. /\ Ahead(p, front \o old, old, Len(front))
      /\ \A i \in 1..Len(front) : (front \o old)[i] = front[i]
  BY <1>4, PutAhead
<1> DEFINE new == front \o old
<1>8. /\ Ahead(p, new, old, Len(front))
      /\ \A i \in 1..Len(front) : new[i].op # "end" /\ new[i].at = behind
  BY <1>5, <1>7
<1> HIDE DEF new, behind
<1>9. Fits(p, old, behind)
  BY DEF behind
<1>10. Honest(p, new, causes)
  BY <1>1, <1>8, <1>9, PushedHonest
<1> QED BY <1>6, <1>10 DEF new

\* A pipe starts in a stage that may start one.
LEMMA StartHonest ==
    ASSUME NEW p, WellFormed(p), NEW old \in Seq(Tasks(p)), Nested(p, old),
           NEW pipe \in DOMAIN p \ {"root"}, NEW item \in Items, NEW round \in Nat,
           NEW side \in Nat, NEW causes \in SUBSET Possible, None \in causes,
           Honest(p, old, causes),
           Fits(p, old, Owner(p, pipe)), Open(p, old, Owner(p, pipe))
    PROVE  Honest(p, Start(p, pipe, item, round, side) \o old, causes)
<1> DEFINE into == <<pipe, 1>>
           end == EndOfPipe(p, pipe, item, round, side)
           two == <<ItemInto(into, item), DoneInto(into)>>
           mid == <<end>> \o old
           new == two \o mid
<1>1. /\ end \in Tasks(p) /\ IsEnd(end, pipe) /\ end.cause = None /\ end.failed = {}
      /\ ~end.aborted
  <2>1. end \in Ends(p)
    BY EndOfPipeIs
  <2> QED BY <2>1 DEF Tasks, EndOfPipe, IsEnd
<1>2. into \in Places(p) /\ into \in Locations(p) /\ into[2] = 1 /\ into[2] \in Nat
  <2>1. /\ p[pipe] # <<>>
        /\ p[pipe] \in Seq([kind : Kinds, subs : Seq(DOMAIN p \ {"root"}), max : Nat])
    BY DEF WellFormed
  <2>2. 1 \in 1..Len(p[pipe])
    BY <2>1
  <2> QED BY <2>2 DEF Locations, Places
<1>3. ItemInto(into, item) \in Tasks(p) /\ DoneInto(into) \in Tasks(p)
  BY <1>2 DEF ItemInto, DoneInto, Tasks
<1>4. /\ two \in Seq(Tasks(p)) /\ Len(two) = 2
      /\ \A i \in 1..Len(two) : two[i].op # "end" /\ two[i].at = into
  <2>1. /\ two \in Seq(Tasks(p)) /\ Len(two) = 2
        /\ two[1] = ItemInto(into, item) /\ two[2] = DoneInto(into)
    BY <1>3
  <2>2. \A i \in 1..2 : i = 1 \/ i = 2
    OBVIOUS
  <2> QED BY <2>1, <2>2 DEF ItemInto, DoneInto
<1>5. Start(p, pipe, item, round, side) \o old = new
  <2> DEFINE a == ItemInto(into, item)
             b == DoneInto(into)
  <2>1. Start(p, pipe, item, round, side) = <<a, b, end>>
    BY DEF Start
  <2>2. a \in Tasks(p) /\ b \in Tasks(p) /\ end \in Tasks(p)
    BY <1>1, <1>3
  <2>3. two = <<a, b>>
    OBVIOUS
  <2> HIDE DEF a, b, end, two
  <2>4. <<a, b, end>> \o old = <<a, b>> \o (<<end>> \o old)
    BY <2>2
  <2> QED BY <2>1, <2>3, <2>4
<1> HIDE DEF two, end
<1>6. Ahead(p, mid, old, 1) /\ mid[1] = end
  <2> DEFINE front == <<end>>
  <2>1. front \in Seq(Tasks(p)) /\ Len(front) = 1 /\ front[1] = end
    BY <1>1
  <2> HIDE DEF front
  <2>2. /\ Ahead(p, front \o old, old, Len(front))
        /\ \A i \in 1..Len(front) : (front \o old)[i] = front[i]
    BY <2>1, PutAhead
  <2>3. 1 \in 1..Len(front)
    BY <2>1
  <2> QED BY <2>1, <2>2, <2>3 DEF front
<1> HIDE DEF mid
<1>7. Neat(p, mid) /\ Fits(p, mid, into)
  BY <1>1, <1>6, EmbeddedNeat DEF Honest
<1>8. Honest(p, mid, causes)
  <2>1. Slid(p, mid, old, 1) /\ \A j \in 1..Len(old) : mid[1 + j] = old[j]
    BY <1>6, AheadSlid DEF Ahead
  <2>2. \A i \in 1..1 : mid[i].op = "end" => mid[i].cause = None /\ ~mid[i].aborted
    BY <1>1, <1>6
  <2> QED BY <1>7, <2>1, <2>2, GrownHonest
<1>9. Ahead(p, new, mid, Len(two)) /\ \A i \in 1..Len(two) : new[i] = two[i]
  <2>1. mid \in Seq(Tasks(p))
    BY <1>6 DEF Ahead
  <2> QED BY <1>4, <2>1, PutAhead
<1> HIDE DEF new, into
<1>10. Honest(p, new, causes)
  BY <1>2, <1>4, <1>7, <1>8, <1>9, PushedHonest
<1> QED BY <1>5, <1>10

-----------------------------------------------------------------------------
(* Stages that fail on honest agendas.                                     *)

\* The nearest abort flag.
LEMMA ScopeFirst ==
    ASSUME NEW p, NEW tasks \in Seq(Tasks(p)), Nested(p, tasks)
    PROVE  /\ Scope(p, tasks) \in 1..Len(tasks) /\ Flagged(p, tasks[Scope(p, tasks)])
           /\ \A l \in 1..Scope(p, tasks) - 1 : ~Flagged(p, tasks[l])
<1> DEFINE I == {i \in 1..Len(tasks) : tasks[i].op = "end" /\ OwnsFlag(p, tasks[i].pipe)}
<1>1. Scope(p, tasks) = IF I # {} THEN Min(I) ELSE 0
  BY DEF Scope, SelectInSeq
<1>2. I # {}
  <2>1. Len(tasks) \in 1..Len(tasks) /\ EndOf(tasks, "root") = Len(tasks)
    BY DEF Nested
  <2>2. IsEnd(tasks[Len(tasks)], "root")
    BY <2>1, EndOfIs
  <2> QED BY <2>1, <2>2 DEF IsEnd, OwnsFlag
<1>3. Min(I) \in I /\ \A y \in I : Min(I) <= y
  <2>1. I \in SUBSET Nat
    OBVIOUS
  <2> HIDE DEF I
  <2> QED BY <1>2, <2>1, MinIsLeast
<1>4. ASSUME NEW l \in 1..Min(I) - 1 PROVE ~Flagged(p, tasks[l])
  BY <1>3 DEF Flagged
<1> QED BY <1>1, <1>2, <1>3, <1>4 DEF Flagged

\* Where a task may be put, no end that failed and no abort flag is before that of
\* its pipe.
LEMMA OwnFirst ==
    ASSUME NEW p, NEW tasks \in Seq(Tasks(p)), Nested(p, tasks), NEW at, Fits(p, tasks, at)
    PROVE  /\ EndOf(tasks, at[1]) \in 1..Len(tasks) /\ IsEnd(tasks[EndOf(tasks, at[1])], at[1])
           /\ EndOf(tasks, at[1]) <= Scope(p, tasks)
           /\ \A l \in 1..EndOf(tasks, at[1]) - 1 : tasks[l].op = "end" =>
                  tasks[l].cause = None /\ ~Flagged(p, tasks[l])
<1> DEFINE own == EndOf(tasks, at[1])
           scope == Scope(p, tasks)
<1>1. /\ own \in 1..Len(tasks) /\ IsEnd(tasks[own], at[1])
      /\ \A i \in 1..Len(tasks) : IsEnd(tasks[i], at[1]) => own <= i
  BY EndOfIs DEF Fits
<1>2. scope \in 1..Len(tasks) /\ Flagged(p, tasks[scope])
  BY ScopeFirst
<1> HIDE DEF own, scope
<1>3. ASSUME NEW l \in 1..own - 1, tasks[l].op = "end"
      PROVE  tasks[l].cause = None /\ ~Flagged(p, tasks[l])
  <2>1. l \in 1..Len(tasks) /\ ~(\E i \in 1..l : IsEnd(tasks[i], at[1]))
    BY <1>1
  <2>2. OwnedBy(p, tasks[l].pipe, {"switch"}) /\ tasks[l].cause = None
    BY <1>3, <2>1 DEF Fits
  <2> QED BY <2>2 DEF OwnedBy, Flagged, OwnsFlag
<1>4. own <= scope
  <2>1. SUFFICES ASSUME scope < own PROVE FALSE
    BY <1>1, <1>2
  <2>2. scope \in 1..own - 1
    BY <1>1, <1>2, <2>1
  <2> QED BY <1>2, <1>3, <2>2 DEF Flagged
<1> QED BY <1>1, <1>3, <1>4 DEF own, scope

\* A stage fails.
LEMMA FailHonest ==
    ASSUME NEW p, WellFormed(p), NEW old \in Seq(Tasks(p)), Nested(p, old), NEW at \in Locations(p),
           Fits(p, old, at), NEW causes \in SUBSET Possible, NEW cause \in causes, cause # None,
           NEW aborts \in BOOLEAN, Neat(p, old), CausesIn(old, causes), AbortedBehind(p, old),
           FailuresAbort(p, old),
           \A s \in 1..Len(old) : Flagged(p, old[s]) /\ old[s].aborted =>
               Meant(p, old, s) \/ (s = Scope(p, old) /\ cause.kind \in Real),
           cause.kind = "aborted" => \/ old[EndOf(old, at[1])].cause # None
                                     \/ Excused(p, old, EndOf(old, at[1])),
           cause.kind # "max_iterations" => aborts \/ old[Scope(p, old)].aborted,
           aborts => cause.kind \in Real
    PROVE  Honest(p, Fail(p, old, at, cause, aborts), causes)
<1> DEFINE own == EndOf(old, at[1])
           scope == Scope(p, old)
           new == Fail(p, old, at, cause, aborts)
<1>1. at \in Places(p) /\ cause \in Causes /\ EndIn(old, at[1])
      /\ (cause.kind \in Real \/ cause.kind = "aborted")
  BY LocationIs, PossibleIs DEF Fits
<1>2. FailsTo(p, new, old, at, own, scope, cause, aborts)
  BY <1>1, FailIs
<1>3. Neat(p, new)
  BY <1>1, FailNeat
<1>4. /\ scope \in 1..Len(old) /\ Flagged(p, old[scope])
      /\ \A l \in 1..scope - 1 : ~Flagged(p, old[l])
      /\ own \in 1..Len(old) /\ old[own].op = "end" /\ own <= scope
  BY ScopeFirst, OwnFirst DEF IsEnd
<1>5. old[own].cause # None => old[own].cause.kind \in Real \cup {"aborted"}
  <2>1. old[own].cause \in Possible
    BY <1>4 DEF CausesIn
  <2> QED BY <2>1, PossibleIs
<1>6. \/ cause.kind \in Real
      \/ cause.kind = "aborted" /\ (old[own].cause = None => Excused(p, old, own))
  BY <1>1
<1>7. /\ \A s \in 1..Len(old) : Flagged(p, old[s]) /\ old[s].aborted =>
             Meant(p, old, s) \/ (s = scope /\ cause.kind \in Real)
      /\ cause.kind # "max_iterations" => aborts \/ old[scope].aborted
  OBVIOUS
<1> HIDE DEF own, scope, new
<1>8. Candid(p, new)
  BY <1>2, <1>4, <1>5, <1>6, <1>7, FailCandid
<1>9. CausesIn(new, causes)
  <2> SUFFICES ASSUME NEW j \in 1..Len(new), new[j].op = "end" PROVE new[j].cause \in causes
    BY DEF CausesIn
  <2>1. j \in 1..Len(old) /\ Alike(new[j], old[j])
    BY <1>2 DEF FailsTo
  <2>2. old[j].op = "end"
    BY <2>1 DEF Alike
  <2>3. new[j].cause = IF j = own /\ old[j].cause = None THEN cause ELSE old[j].cause
    BY <1>2, <2>1, <2>2 DEF FailsTo
  <2> QED BY <2>1, <2>2, <2>3 DEF CausesIn
<1>10. Honest(p, new, causes)
  BY <1>3, <1>8, <1>9 DEF Honest
<1> QED BY <1>10 DEF new

\* A step fails, or is refused.
LEMMA StepFails ==
    ASSUME NEW p, WellFormed(p), NEW old \in Seq(Tasks(p)), Nested(p, old), NEW at \in Locations(p),
           Fits(p, old, at), NEW causes \in SUBSET Possible, Honest(p, old, causes)
    PROVE  /\ \A cause \in causes : cause.kind \in {"step", "refused"} =>
                  Honest(p, Fail(p, old, at, cause, TRUE), causes)
           /\ MaxIterations \in causes => Honest(p, Fail(p, old, at, MaxIterations, FALSE), causes)
           /\ Aborted \in causes /\ IsAborted(p, old) =>
                  Honest(p, Fail(p, old, at, Aborted, FALSE), causes)
<1>0. /\ Neat(p, old) /\ CausesIn(old, causes) /\ AbortedBehind(p, old) /\ FailuresAbort(p, old)
      /\ \A s \in 1..Len(old) : Flagged(p, old[s]) /\ old[s].aborted => Meant(p, old, s)
  BY DEF Honest, Candid, AbortsMeant
<1>1. ASSUME NEW cause \in causes, cause.kind \in {"step", "refused"}
      PROVE  Honest(p, Fail(p, old, at, cause, TRUE), causes)
  <2>1. cause # None /\ cause.kind \in Real /\ cause.kind # "aborted"
    BY <1>1 DEF None, Failure, Real
  <2> QED BY <1>0, <2>1, FailHonest
<1>2. ASSUME MaxIterations \in causes
      PROVE  Honest(p, Fail(p, old, at, MaxIterations, FALSE), causes)
  <2>1. MaxIterations # None /\ MaxIterations.kind = "max_iterations"
    BY DEF None, MaxIterations, Failure
  <2> QED BY <1>0, <1>2, <2>1, FailHonest
<1>3. ASSUME Aborted \in causes, IsAborted(p, old)
      PROVE  Honest(p, Fail(p, old, at, Aborted, FALSE), causes)
  <2> DEFINE own == EndOf(old, at[1])
             scope == Scope(p, old)
  <2>1. Aborted # None /\ Aborted.kind = "aborted"
    BY DEF None, Aborted, Failure
  <2>2. old[scope].aborted
    BY <1>3 DEF IsAborted
  <2>3. /\ scope \in 1..Len(old) /\ Flagged(p, old[scope]) /\ own \in 1..Len(old) /\ own <= scope
        /\ \A l \in 1..own - 1 : old[l].op = "end" => old[l].cause = None
        /\ \A l \in 1..scope - 1 : ~Flagged(p, old[l])
    BY ScopeFirst, OwnFirst
  <2>4. PICK g \in 1..Len(old) : FailedAt(old, g) /\ Within(p, old, g, scope)
    BY <1>0, <2>2, <2>3 DEF Meant
  <2>5. g >= own
    <3>1. SUFFICES ASSUME g < own PROVE FALSE
      BY <2>3
    <3>2. g \in 1..own - 1
      BY <2>3, <3>1
    <3>3. old[g].cause = None /\ old[g].cause.kind \in Real
      BY <2>3, <2>4, <3>2 DEF FailedAt
    <3> QED BY <3>3 DEF None, Failure, Real
  <2>6. old[own].cause # None \/ Excused(p, old, own)
    <3>1. CASE g = own
      BY <2>4, <3>1 DEF FailedAt, None, Failure, Real
    <3>2. CASE g > own
      <4>1. g \in own + 1..Len(old) /\ g <= scope
        BY <2>3, <2>4, <3>2 DEF Within
      <4>2. Within(p, old, own, g)
        BY <2>3, <4>1 DEF Within
      <4> QED BY <2>4, <4>1, <4>2 DEF Excused
    <3> QED BY <2>3, <2>5, <3>1, <3>2
  <2> HIDE DEF own, scope
  <2>7. old[EndOf(old, at[1])].cause # None \/ Excused(p, old, EndOf(old, at[1]))
    BY <2>6 DEF own
  <2>8. old[Scope(p, old)].aborted
    BY <2>2 DEF scope
  <2> QED BY <1>0, <1>3, <2>1, <2>7, <2>8, FailHonest
<1> QED BY <1>1, <1>2, <1>3

-----------------------------------------------------------------------------
(* Turns from honest agendas.                                              *)

\* Some Loop gives up (Loop's maxIterations).
Bounded(p) == \E at \in Locations(p) : Stage(p, at).kind = "loop" /\ Stage(p, at).max > 0
\* The causes that any execution of the pipeline may come to.
Reasons(p, causes) ==
    /\ causes \in SUBSET Possible /\ None \in causes /\ Aborted \in causes
    /\ \A id \in Nat : Failure("step", id) \in causes
    /\ Bounded(p) => MaxIterations \in causes
\* An agenda in the middle of an execution, with a turn to take.
Working(p, tasks, causes) ==
    /\ WellFormed(p) /\ tasks \in Seq(Tasks(p)) /\ Nested(p, tasks) /\ ~EndsRoot(tasks)
    /\ Reasons(p, causes) /\ Honest(p, tasks, causes)

\* What is known of the rest of an agenda.
LEMMA RestIs ==
    ASSUME NEW p, NEW tasks, NEW causes, Working(p, tasks, causes)
    PROVE  /\ WellFormed(p) /\ causes \in SUBSET Possible /\ None \in causes
           /\ Tail(tasks) \in Seq(Tasks(p)) /\ Nested(p, Tail(tasks))
           /\ At(p, tasks) \in Places(p)
           /\ Neat(p, Tail(tasks)) /\ Fits(p, Tail(tasks), At(p, tasks))
           /\ CausesIn(Tail(tasks), causes)
           /\ AbortedBehind(p, Tail(tasks)) /\ FailuresAbort(p, Tail(tasks))
           /\ Head(tasks).op = "end" =>
                  Open(p, Tail(tasks), At(p, tasks)) /\ At(p, tasks) \in Locations(p)
<1> DEFINE old == Tail(tasks)
<1>1. /\ WellFormed(p) /\ tasks \in Seq(Tasks(p)) /\ Nested(p, tasks) /\ ~EndsRoot(tasks)
      /\ Neat(p, tasks) /\ CausesIn(tasks, causes) /\ tasks # <<>>
      /\ AbortedBehind(p, tasks) /\ FailuresAbort(p, tasks)
      /\ causes \in SUBSET Possible /\ None \in causes
  BY DEF Working, Reasons, Honest, Candid, Nested
<1>2. /\ old \in Seq(Tasks(p)) /\ Len(old) = Len(tasks) - 1 /\ Len(tasks) \in Nat
      /\ \A i \in 1..Len(old) : old[i] = tasks[i + 1]
  BY <1>1, HeadIs
<1> HIDE DEF old
<1>3. Nested(p, old)
  <2>1. Onto(p, old, old, {})
    BY <1>2, OntoItself
  <2> QED BY <1>1, <2>1, NestedOnto DEF old
<1>4. CausesIn(old, causes)
  <2> SUFFICES ASSUME NEW i \in 1..Len(old), old[i].op = "end" PROVE old[i].cause \in causes
    BY DEF CausesIn
  <2>1. i + 1 \in 1..Len(tasks) /\ old[i] = tasks[i + 1]
    BY <1>2
  <2> QED BY <1>1, <2>1 DEF CausesIn
<1>5. AbortedBehind(p, old) /\ FailuresAbort(p, old)
  BY <1>1, RestBehind DEF old
<1>6. At(p, tasks) \in Places(p) /\ (Head(tasks).op = "end" => At(p, tasks) \in Locations(p))
  BY <1>1, HeadFields, OwnerIs DEF At
<1>7. /\ Neat(p, old) /\ Fits(p, old, At(p, tasks))
      /\ Head(tasks).op = "end" => Open(p, old, At(p, tasks))
  BY <1>1, HeadFits DEF old
<1> QED BY <1>1, <1>2, <1>3, <1>4, <1>5, <1>6, <1>7 DEF old

\* The head is no end, or one that may go.
MayGo(p, tasks) ==
    Head(tasks).op = "end" => Head(tasks).cause = None \/ Flagged(p, Head(tasks))

\* A head that may go leaves an honest agenda.
LEMMA RestHonest ==
    ASSUME NEW p, NEW tasks, NEW causes, Working(p, tasks, causes), MayGo(p, tasks)
    PROVE  Honest(p, Tail(tasks), causes)
<1>1. tasks \in Seq(Tasks(p)) /\ tasks # <<>> /\ Candid(p, tasks)
  BY DEF Working, Nested, Honest
<1>2. Head(tasks).op = "end" => Head(tasks).cause.kind = "none" \/ Flagged(p, Head(tasks))
  BY DEF MayGo, None, Failure
<1>3. Candid(p, Tail(tasks))
  BY <1>1, <1>2, RestCandid
<1> QED BY <1>3, RestIs DEF Honest

\* A stage that has not failed.
LEMMA NotFailed ==
    ASSUME NEW p, NEW tasks, NEW causes, Working(p, tasks, causes), AtItem(tasks) \/ AtDone(tasks),
           ~HasFailed(tasks, Head(tasks).at)
    PROVE  Unfailed(Tail(tasks), Head(tasks).at)
<1> DEFINE old == Tail(tasks)
           at == Head(tasks).at
           own == EndOf(tasks, at[1])
<1>0. /\ At(p, tasks) = at /\ Head(tasks).op # "end"
  BY DEF At, AtItem, AtDone
<1>1. /\ WellFormed(p) /\ tasks \in Seq(Tasks(p)) /\ OneEach(tasks)
      /\ Fits(p, old, at) /\ at \in Places(p)
  BY <1>0, RestIs DEF Working, Honest, Neat
<1>2. /\ old \in Seq(Tasks(p)) /\ Len(old) = Len(tasks) - 1 /\ Len(tasks) \in Nat
      /\ \A i \in 1..Len(old) : old[i] = tasks[i + 1]
  BY HeadIs DEF Working
<1> SUFFICES ASSUME NEW o \in 1..Len(old), IsEnd(old[o], at[1]), NEW k \in old[o].failed
             PROVE  at[2] < k
  BY DEF Unfailed
<1>3. o + 1 \in 1..Len(tasks) /\ tasks[o + 1] = old[o]
  BY <1>2
<1>4. EndIn(tasks, at[1])
  BY <1>3 DEF EndIn
<1>5. own \in 1..Len(tasks) /\ IsEnd(tasks[own], at[1])
  BY <1>1, <1>4, EndOfIs
<1>6. at[2] \notin tasks[own].failed
  BY DEF HasFailed
<1> HIDE DEF own, old, at
<1>7. own = o + 1
  BY <1>1, <1>3, <1>5 DEF OneEach, IsEnd
<1>8. at[2] <= k /\ at[2] # k
  BY <1>1, <1>3, <1>6, <1>7 DEF Fits
<1>9. k \in Nat /\ at[2] \in Nat
  <2>1. old[o] \in Ends(p)
    BY <1>2, EndIsEnd DEF IsEnd
  <2> QED BY <1>1, <2>1, PlaceIs DEF Ends
<1> QED BY <1>8, <1>9

\* A stage that takes an item may start a pipe; but for a Via, it lets items go
\* behind it.
LEMMA TakesHonest ==
    ASSUME NEW p, NEW tasks, NEW causes, Working(p, tasks, causes), NEW kinds,
           Takes(p, tasks, kinds)
    PROVE  LET at == Head(tasks).at
           IN  /\ Honest(p, Tail(tasks), causes)
               /\ at \in Locations(p) /\ at \in Places(p) /\ Fits(p, Tail(tasks), at)
               /\ Open(p, Tail(tasks), at)
               /\ "via" \notin kinds => Fits(p, Tail(tasks), <<at[1], at[2] + 1>>)
               /\ Stage(p, at).kind \in kinds /\ Head(tasks).item \in Items
<1> DEFINE old == Tail(tasks)
           at == Head(tasks).at
<1>1. /\ AtItem(tasks) /\ At(p, tasks) = at /\ MayGo(p, tasks)
      /\ ~HasFailed(tasks, at) \/ Stage(p, at).kind = "via"
  BY DEF Takes, Refuses, At, AtItem, MayGo
<1>2. /\ WellFormed(p) /\ old \in Seq(Tasks(p)) /\ Nested(p, old) /\ at \in Places(p)
      /\ Fits(p, old, at)
  BY <1>1, RestIs
<1>3. Honest(p, old, causes) /\ (Unfailed(old, at) \/ Stage(p, at).kind = "via")
  BY <1>1, RestHonest, NotFailed
<1>4. at \in Locations(p) /\ Stage(p, at).kind \in kinds /\ Head(tasks).item \in Items
  BY TakesIs DEF Working
<1> HIDE DEF old, at
<1>5. Open(p, old, at) /\ (Stage(p, at).kind # "via" => Unfailed(old, at))
  BY <1>2, <1>3, OpenIs
<1>6. "via" \notin kinds => Fits(p, old, <<at[1], at[2] + 1>>)
  BY <1>2, <1>4, <1>5, OpenFits
<1> QED BY <1>2, <1>3, <1>4, <1>5, <1>6 DEF old, at

\* An end that does not fail lets items go behind the stage it is embedded in, if
\* that has not failed; but for a Via, it has not.
LEMMA EndsHonest ==
    ASSUME NEW p, NEW tasks, NEW causes, Working(p, tasks, causes), Head(tasks).op = "end",
           MayGo(p, tasks)
    PROVE  LET at == Owner(p, Head(tasks).pipe)
           IN  /\ Honest(p, Tail(tasks), causes)
               /\ at \in Locations(p) /\ at \in Places(p) /\ Fits(p, Tail(tasks), at)
               /\ Open(p, Tail(tasks), at)
               /\ Head(tasks).outs \in Seq(Items) /\ Head(tasks).item \in Items
               /\ ~HasFailed(Tail(tasks), at) \/ Stage(p, at).kind # "via" =>
                      \A items \in Seq(Items) : Honest(p, Emitted(p, tasks, items), causes)
<1> DEFINE old == Tail(tasks)
           at == Owner(p, Head(tasks).pipe)
<1>1. At(p, tasks) = at
  BY DEF At
<1>2. /\ WellFormed(p) /\ old \in Seq(Tasks(p)) /\ Nested(p, old) /\ at \in Places(p)
      /\ Fits(p, old, at) /\ Open(p, old, at) /\ at \in Locations(p) /\ OneEach(old)
      /\ causes \in SUBSET Possible /\ None \in causes
  BY <1>1, RestIs DEF Neat
<1>3. Honest(p, old, causes)
  BY RestHonest
<1>4. Head(tasks).item \in Items /\ Head(tasks).outs \in Seq(Items)
  BY HeadFields DEF Working
<1> HIDE DEF old, at
<1>5. ASSUME ~HasFailed(old, at) \/ Stage(p, at).kind # "via"
      PROVE  Fits(p, old, <<at[1], at[2] + 1>>)
  <2>1. Unfailed(old, at)
    BY <1>2, <1>5, FailedNot, OpenIs
  <2> QED BY <1>2, <2>1, OpenFits
<1>6. ASSUME NEW items \in Seq(Items), ~HasFailed(old, at) \/ Stage(p, at).kind # "via"
      PROVE  Honest(p, Emit(old, at, items), causes)
  BY <1>2, <1>3, <1>5, <1>6, EmitHonest
<1> QED BY <1>2, <1>3, <1>4, <1>5, <1>6 DEF old, at, Emitted

-----------------------------------------------------------------------------
(* Failures that go outwards.                                              *)

\* An end that failed fails the stage it is embedded in, for the same cause.
LEMMA OuterFails ==
    ASSUME NEW p, NEW tasks, NEW causes, Working(p, tasks, causes), Head(tasks).op = "end",
           ~MayGo(p, tasks)
    PROVE  Honest(p, Fail(p, Tail(tasks), Owner(p, Head(tasks).pipe), Head(tasks).cause, FALSE),
                  causes)
<1> DEFINE old == Tail(tasks)
           at == Owner(p, Head(tasks).pipe)
           cause == Head(tasks).cause
           own == EndOf(old, at[1])
           scope == Scope(p, old)
<1>1. /\ tasks \in Seq(Tasks(p)) /\ Candid(p, tasks) /\ CausesIn(tasks, causes)
      /\ At(p, tasks) = at /\ cause # None /\ ~Flagged(p, Head(tasks))
  BY DEF Working, Honest, At, MayGo
<1>2. /\ WellFormed(p) /\ old \in Seq(Tasks(p)) /\ Nested(p, old) /\ at \in Locations(p)
      /\ Fits(p, old, at) /\ Neat(p, old) /\ CausesIn(old, causes)
      /\ AbortedBehind(p, old) /\ FailuresAbort(p, old) /\ causes \in SUBSET Possible
  BY <1>1, RestIs
<1>3. /\ Slid(p, tasks, old, 1) /\ \A j \in 1..Len(old) : tasks[1 + j] = old[j]
      /\ Len(old) \in Nat /\ Len(tasks) = Len(old) + 1 /\ 1 \in 1..Len(tasks)
      /\ Head(tasks) = tasks[1]
  BY HeadIs, RestSlid DEF Working, Slid, Nested
<1>4. /\ cause \in causes /\ cause \in Possible
      /\ tasks[1].op = "end" /\ tasks[1].cause = cause /\ ~Flagged(p, tasks[1])
  BY <1>1, <1>2, <1>3 DEF CausesIn
<1>5. cause.kind \in Real \cup {"aborted"} /\ cause.kind # "none"
  BY <1>1, <1>4, PossibleIs
<1> HIDE DEF old, at, cause
<1>6. /\ scope \in 1..Len(old) /\ Flagged(p, old[scope])
      /\ \A l \in 1..scope - 1 : ~Flagged(p, old[l])
      /\ own \in 1..Len(old) /\ IsEnd(old[own], at[1]) /\ own <= scope
      /\ \A l \in 1..own - 1 : old[l].op = "end" => old[l].cause = None
  BY <1>2, ScopeFirst, OwnFirst
<1> HIDE DEF own, scope
<1>7. ASSUME NEW g \in 1..Len(tasks), g # 1
      PROVE  g - 1 \in 1..Len(old) /\ 1 + (g - 1) = g /\ tasks[g] = old[g - 1]
  <2>1. g - 1 \in 1..Len(old) /\ 1 + (g - 1) = g
    BY <1>3, <1>7
  <2> QED BY <1>3, <2>1
<1>8. ASSUME NEW s \in 1..Len(old)
      PROVE  Within(p, tasks, 1, 1 + s) <=> \A l \in 1..s - 1 : ~Flagged(p, old[l])
  <2>1. ASSUME Within(p, tasks, 1, 1 + s), NEW l \in 1..s - 1 PROVE ~Flagged(p, old[l])
    <3>1. l \in 1..Len(old) /\ 1 + l \in 1..(1 + s) - 1
      BY <1>3
    <3> QED BY <1>3, <2>1, <3>1 DEF Within
  <2>2. ASSUME \A l \in 1..s - 1 : ~Flagged(p, old[l]) PROVE Within(p, tasks, 1, 1 + s)
    <3>1. ASSUME NEW l \in 1..(1 + s) - 1 PROVE ~Flagged(p, tasks[l])
      <4>1. CASE l = 1
        BY <1>4, <4>1
      <4>2. CASE l # 1
        <5>1. l \in 1..Len(tasks) /\ l - 1 \in 1..s - 1
          BY <1>3, <4>2
        <5> QED BY <1>7, <2>2, <4>2, <5>1
      <4> QED BY <4>1, <4>2
    <3> QED BY <3>1 DEF Within
  <2> QED BY <2>1, <2>2
<1>9. ASSUME NEW s \in 1..Len(old), Flagged(p, old[s]), old[s].aborted
      PROVE  Meant(p, old, s) \/ (s = scope /\ cause.kind \in Real)
  <2>1. 1 + s \in 1..Len(tasks) /\ tasks[1 + s] = old[s]
    BY <1>3
  <2>2. PICK g \in 1..Len(tasks) : FailedAt(tasks, g) /\ Within(p, tasks, g, 1 + s)
    BY <1>1, <1>9, <2>1 DEF Candid, AbortsMeant, Meant
  <2>3. CASE g = 1
    <3>1. \A l \in 1..s - 1 : ~Flagged(p, old[l])
      BY <1>8, <2>2, <2>3
    <3>2. s = scope
      BY <1>3, <1>6, <1>9, <3>1
    <3> QED BY <1>4, <2>2, <2>3, <3>2 DEF FailedAt
  <2>4. CASE g # 1
    <3> DEFINE k == g - 1
    <3>1. k \in 1..Len(old) /\ 1 + k = g /\ tasks[g] = old[k]
      BY <1>7, <2>4
    <3> HIDE DEF k
    <3>2. Within(p, old, k, s) /\ FailedAt(old, k)
      BY <1>3, <2>2, <3>1, SlidWithin DEF FailedAt
    <3> QED BY <3>1, <3>2 DEF Meant
  <2> QED BY <2>3, <2>4
<1>10. ASSUME cause.kind = "aborted" PROVE old[own].cause # None \/ Excused(p, old, own)
  <2>1. PICK g \in 1 + 1..Len(tasks) : FailedAt(tasks, g) /\ Within(p, tasks, 1, g)
    BY <1>1, <1>3, <1>4, <1>10 DEF Candid, AbortedBehind, Excused
  <2> DEFINE k == g - 1
  <2>2. k \in 1..Len(old) /\ 1 + k = g /\ tasks[g] = old[k]
    BY <1>3, <1>7
  <2> HIDE DEF k
  <2>3. FailedAt(old, k) /\ \A l \in 1..k - 1 : ~Flagged(p, old[l])
    BY <1>8, <2>1, <2>2 DEF FailedAt
  <2>4. old[k].op = "end" /\ old[k].cause # None
    BY <2>3 DEF FailedAt, None, Failure, Real
  <2>5. k >= own
    BY <1>3, <1>6, <2>2, <2>4
  <2>6. CASE k = own
    BY <2>4, <2>6
  <2>7. CASE k # own
    <3>1. k \in own + 1..Len(old) /\ Within(p, old, own, k)
      BY <1>6, <2>2, <2>3, <2>5, <2>7 DEF Within
    <3> QED BY <2>3, <3>1 DEF Excused
  <2> QED BY <2>6, <2>7
<1>11. cause.kind # "max_iterations" => old[scope].aborted
  <2> SUFFICES ASSUME cause.kind # "max_iterations" PROVE old[scope].aborted
    OBVIOUS
  <2>1. 1 + scope \in 1..Len(tasks) /\ tasks[1 + scope] = old[scope]
    BY <1>3, <1>6
  <2>2. Within(p, tasks, 1, 1 + scope)
    BY <1>6, <1>8
  <2>3. FailuresAbort(p, tasks)
    BY <1>1 DEF Candid
  <2> QED BY <1>3, <1>4, <1>5, <1>6, <2>1, <2>2, <2>3 DEF FailuresAbort
<1>12. \A s \in 1..Len(old) : Flagged(p, old[s]) /\ old[s].aborted =>
           Meant(p, old, s) \/ (s = Scope(p, old) /\ cause.kind \in Real)
  BY <1>9 DEF scope
<1>13. cause.kind = "aborted" => \/ old[EndOf(old, at[1])].cause # None
                                \/ Excused(p, old, EndOf(old, at[1]))
  BY <1>10 DEF own
<1>14. cause.kind # "max_iterations" => old[Scope(p, old)].aborted
  BY <1>11 DEF scope
<1>15. Honest(p, Fail(p, old, at, cause, FALSE), causes)
  BY <1>1, <1>2, <1>4, <1>12, <1>13, <1>14, FailHonest
<1> QED BY <1>15 DEF old, at, cause

\* An end that changes in what it collects only.
LEMMA KinHonest ==
    ASSUME NEW p, NEW old \in Seq(Tasks(p)), NEW own \in 1..Len(old), NEW end \in Ends(p),
           old[own].op = "end", end.pipe = old[own].pipe, end.side = old[own].side,
           end.cause = old[own].cause, end.failed = old[own].failed, end.aborted = old[own].aborted,
           NEW causes \in SUBSET Possible, None \in causes, Honest(p, old, causes)
    PROVE  Honest(p, [old EXCEPT ![own] = end], causes)
<1> DEFINE new == [old EXCEPT ![own] = end]
<1>0. Len(old) \in Nat
  OBVIOUS
<1>1. /\ new \in Seq(Tasks(p)) /\ Len(new) = Len(old) /\ Len(old) \in Nat
      /\ \A j \in 1..Len(old) : Alike(new[j], old[j])
  <2>1. own \in 1..Len(old) => /\ end \in Ends(p) /\ old[own].op = "end"
                               /\ end.pipe = old[own].pipe /\ end.side = old[own].side
    OBVIOUS
  <2>2. /\ new \in Seq(Tasks(p)) /\ Len(new) = Len(old)
        /\ \A j \in 1..Len(old) : Alike(new[j], old[j])
    BY <2>1, Touched
  <2> QED BY <1>0, <2>2
<1>2. \A j \in 1..Len(old) : new[j] = IF j = own THEN end ELSE old[j]
  OBVIOUS
<1> HIDE DEF new
<1>3. ASSUME NEW j \in 1..Len(old)
      PROVE  /\ new[j].op = "end" <=> old[j].op = "end"
             /\ old[j].op = "end" => /\ new[j].cause = old[j].cause /\ new[j].failed = old[j].failed
                                     /\ new[j].aborted = old[j].aborted
  <2>1. end.op = "end"
    BY DEF Ends
  <2> QED BY <1>2, <2>1
<1>4. 0 + 0 = 0 /\ \A j \in 1..Len(old) : 0 + j = j
  BY <1>1
<1>5. Slid(p, new, old, 0) /\ Slid(p, old, new, 0)
  <2>1. \A j \in 1..Len(old) : Alike(old[j], new[j])
    BY <1>1 DEF Alike
  <2> QED BY <1>1, <1>4, <2>1 DEF Slid
<1>6. Neat(p, new)
  <2>1. \A j \in 1..Len(new) : new[j].op = "end" =>
            new[j].cause = old[0 + j].cause /\ new[j].failed = old[0 + j].failed
    BY <1>1, <1>3, <1>4
  <2>2. Neat(p, old)
    BY DEF Honest
  <2> QED BY <1>5, <2>1, <2>2, SlidNeat
<1>7. /\ \A j \in 1..Len(old) : old[j].op = "end" =>
             new[0 + j].cause = old[j].cause /\ new[0 + j].aborted = old[j].aborted
      /\ \A i \in 1..0 : new[i].op = "end" => new[i].cause = None /\ ~new[i].aborted
  BY <1>3, <1>4
<1>8. Honest(p, new, causes)
  BY <1>5, <1>6, <1>7, GrownHonest
<1> QED BY <1>8 DEF new

-----------------------------------------------------------------------------
(* Items that leave an arm.                                                *)

\* What leaves the arm of a Switch may be put behind the Switch: the arm has not
\* failed, and its items go all the way before the next.
LEMMA LeavingFits ==
    ASSUME NEW p, NEW tasks, NEW causes, Working(p, tasks, causes), Leaves(p, tasks),
           NEW arm, arm = Head(tasks).at[1], OwnedBy(p, arm, {"switch"}),
           NEW at, at = Owner(p, arm)
    PROVE  Fits(p, Tail(tasks), <<at[1], at[2] + 1>>)
<1> DEFINE old == Tail(tasks)
           behind == <<at[1], at[2] + 1>>
<1>1. /\ WellFormed(p) /\ tasks \in Seq(Tasks(p)) /\ Nested(p, tasks) /\ ~EndsRoot(tasks)
      /\ OneEach(tasks) /\ Sorted(p, tasks) /\ Bracketed(p, tasks) /\ Stopping(p, tasks)
      /\ Passing(p, tasks) /\ Blamed(p, tasks)
  BY DEF Working, Honest, Neat
<1>2. /\ old \in Seq(Tasks(p)) /\ Len(old) = Len(tasks) - 1 /\ Len(tasks) \in Nat
      /\ Len(old) \in Nat /\ Head(tasks) = tasks[1] /\ 1 \in 1..Len(tasks)
      /\ \A i \in 1..Len(old) : old[i] = tasks[i + 1]
      /\ Slid(p, tasks, old, 1)
  BY <1>1, HeadIs, RestSlid DEF Nested
<1>3. /\ Head(tasks).op # "end" /\ Head(tasks).at \in Places(p) /\ Around(p, tasks[1]) = arm
      /\ Spot(p, tasks[1]) = Head(tasks).at /\ arm \in DOMAIN p \ {"root"}
      /\ Head(tasks).at[2] \in Nat /\ ~(Head(tasks).at[2] <= Len(p[arm]))
  <2>1. AtItem(tasks) /\ Head(tasks).at \in Places(p)
    BY <1>1, HeadFields DEF Leaves
  <2> QED BY <1>1, <1>2, <2>1, PlaceIs DEF AtItem, Around, Spot, Leaves, InPipe, OwnedBy
<1>4. /\ at \in Locations(p) /\ at \in Places(p) /\ at[2] \in Nat /\ at[1] \in DOMAIN p
      /\ EndIn(old, arm) /\ EndIn(old, at[1])
  <2>1. EndIn(old, arm)
    BY <1>1, <1>3, HeadIs DEF At
  <2> QED BY <1>1, <1>3, <2>1, HeadIs, OwnerIs, PlaceIs
<1>5. PICK b \in 1..Len(old) : IsEnd(old[b], arm)
  BY <1>4 DEF EndIn
<1> HIDE DEF old
<1> DEFINE a == b + 1
<1>6. a \in 2..Len(tasks) /\ a \in 1..Len(tasks) /\ 1 < a /\ IsEnd(tasks[a], arm)
  BY <1>2, <1>5
<1> HIDE DEF a
<1>7. /\ Around(p, tasks[a]) = at[1] /\ Spot(p, tasks[a]) = at /\ tasks[a].op = "end"
      /\ tasks[a].pipe = arm
  BY <1>6 DEF IsEnd, Around, Spot
<1>8. a \in 1..Len(tasks) - 1
  <2>1. IsEnd(tasks[Len(tasks)], "root")
    BY <1>1, <1>2, EndOfIs DEF Nested
  <2>2. a # Len(tasks)
    BY <1>3, <1>7, <2>1 DEF IsEnd
  <2> QED BY <1>2, <1>6, <2>2
<1>9. ASSUME NEW o \in 1..Len(tasks), IsEnd(tasks[o], at[1]) PROVE a < o
  <2>1. PICK j \in a+1..Len(tasks) : IsEnd(tasks[j], at[1])
    BY <1>1, <1>7, <1>8 DEF Nested, IsEnd
  <2>2. j \in 1..Len(tasks) /\ a < j
    BY <1>6
  <2>3. j = o
    BY <1>9, <1>1, <2>1, <2>2 DEF OneEach, IsEnd
  <2> QED BY <2>2, <2>3
<1>10. ASSUME NEW j \in 1..Len(tasks), 1 < j, j < a PROVE EndsBy(p, tasks, j, a)
  BY <1>1, <1>2, <1>3, <1>6, <1>10 DEF Bracketed
<1>11. ASSUME NEW j \in 1..Len(old)
       PROVE  j + 1 \in 1..Len(tasks) /\ 1 < j + 1 /\ tasks[j + 1] = old[j] /\ 1 + j = j + 1
  BY <1>2
<1>12. ASSUME NEW j \in 1..Len(old) - 1, Around(p, old[j]) = at[1]
       PROVE  /\ Spot(p, old[j])[2] <= at[2] + 1
              /\ old[j].op = "end" => Spot(p, old[j])[2] < at[2] + 1
  <2> DEFINE i == j + 1
  <2>1. i \in 1..Len(tasks) - 1 /\ i \in 1..Len(tasks) /\ 1 < i /\ tasks[i] = old[j]
    BY <1>2, <1>11
  <2> HIDE DEF i
  <2>2. Spot(p, tasks[i])[2] \in Nat /\ Spot(p, tasks[i])[2] <= at[2]
    <3>1. CASE i < a
      <4>1. PICK l \in i + 1..a : IsEnd(tasks[l], at[1])
        BY <1>10, <1>12, <2>1, <3>1 DEF EndsBy
      <4>2. l \in 1..Len(tasks) /\ l <= a
        BY <1>6, <2>1
      <4>3. a < l
        BY <1>9, <4>1, <4>2
      <4> QED BY <1>6, <4>2, <4>3
    <3>2. CASE i = a
      BY <1>4, <1>7, <3>2
    <3>3. CASE a < i
      BY <1>1, <1>7, <1>8, <1>12, <2>1, <3>3, SpotIs DEF Sorted
    <3> QED BY <1>6, <2>1, <3>1, <3>2, <3>3
  <2> QED BY <1>4, <2>1, <2>2
<1>13. ASSUME NEW j \in 1..Len(old), NEW o \in 1..Len(old), j < o, IsEnd(old[o], at[1])
       PROVE  EndsBy(p, old, j, o)
  <2> DEFINE i == 1 + j
             e == 1 + o
  <2>1. /\ i \in 1..Len(tasks) /\ 1 < i /\ e \in 1..Len(tasks) /\ i < e /\ tasks[e] = old[o]
    BY <1>2, <1>11, <1>13
  <2> HIDE DEF i, e
  <2>2. a < e
    BY <1>9, <1>13, <2>1
  <2>3. EndsBy(p, tasks, i, e)
    <3>1. CASE i < a
      <4>1. PICK l \in i + 1..a : IsEnd(tasks[l], Around(p, tasks[i]))
        BY <1>10, <2>1, <3>1 DEF EndsBy
      <4>2. l \in i + 1..e
        BY <1>6, <2>1, <2>2
      <4> QED BY <4>1, <4>2 DEF EndsBy
    <3>2. CASE i = a
      <4>1. e \in i + 1..e
        BY <1>6, <2>1, <2>2, <3>2
      <4> QED BY <1>7, <1>13, <2>1, <3>2, <4>1 DEF EndsBy
    <3>3. CASE a < i
      BY <1>1, <1>6, <1>7, <1>13, <2>1, <3>3 DEF Bracketed
    <3> QED BY <1>6, <2>1, <3>1, <3>2, <3>3
  <2>4. EndsBy(p, tasks, 1 + j, 1 + o)
    BY <2>3 DEF i, e
  <2> QED BY <1>2, <2>4, SlidEnds
<1>14. ASSUME NEW o \in 1..Len(old), IsEnd(old[o], at[1]), NEW k \in old[o].failed
       PROVE  at[2] + 1 <= k
  <2> DEFINE e == o + 1
  <2>1. e \in 1..Len(tasks) /\ tasks[e] = old[o]
    BY <1>11
  <2> HIDE DEF e
  <2>2. a < e
    BY <1>9, <1>14, <2>1
  <2>3. at[2] < k
    <3>1. Starts(p, at, k)
      BY <1>1, <1>6, <1>7, <1>14, <2>1, <2>2 DEF Stopping
    <3>2. Stage(p, at).kind = "switch"
      BY DEF OwnedBy
    <3> QED BY <3>1, <3>2 DEF Starts
  <2>4. k \in Nat
    <3>1. old[o] \in Ends(p)
      BY <1>2, <1>14, EndIsEnd DEF IsEnd
    <3> QED BY <1>14, <3>1 DEF Ends
  <2> QED BY <1>4, <2>3, <2>4
<1>15. ASSUME NEW g \in 1..Len(old), old[g].op = "end", ~(\E l \in 1..g : IsEnd(old[l], at[1]))
       PROVE  OwnedBy(p, old[g].pipe, {"switch"}) /\ old[g].cause = None
  <2> DEFINE e == g + 1
  <2>1. e \in 1..Len(tasks) /\ tasks[e] = old[g] /\ 1 < e /\ e = g + 1
    BY <1>11
  <2> HIDE DEF e
  <2>2. CASE e < a
    <3>1. ASSUME NEW l \in 1 + 1..e, IsEnd(tasks[l], arm) PROVE FALSE
      <4>1. l \in 1..Len(tasks) /\ l < a
        BY <1>6, <2>1, <2>2
      <4> QED BY <1>1, <1>6, <3>1, <4>1 DEF OneEach, IsEnd
    <3>2. ~EndsBy(p, tasks, 1, e)
      BY <1>3, <3>1 DEF EndsBy
    <3> QED BY <1>1, <1>2, <1>15, <2>1, <3>2 DEF Passing
  <2>3. CASE e = a
    <3>1. tasks[a].failed \subseteq 1..Len(p[arm])
      BY <1>1, <1>6, <1>7 DEF Blamed
    <3>2. ASSUME NEW k \in tasks[a].failed PROVE FALSE
      <4>1. Head(tasks).at[2] <= k
        BY <1>1, <1>2, <1>3, <1>6 DEF Stopping
      <4>2. k \in 1..Len(p[arm]) /\ Len(p[arm]) \in Nat
        <5>1. p[arm] \in Seq([kind : Kinds, subs : Seq(DOMAIN p \ {"root"}), max : Nat])
          BY <1>1, <1>3 DEF WellFormed
        <5>2. Len(p[arm]) \in Nat
          BY <5>1
        <5> QED BY <3>1, <5>2
      <4> QED BY <1>3, <4>1, <4>2
    <3>3. tasks[a].cause = None
      BY <1>1, <1>6, <1>7, <3>2 DEF Blamed
    <3> QED BY <1>7, <2>1, <2>3, <3>3
  <2>4. CASE a < e
    <3>1. ASSUME NEW l \in a + 1..e, IsEnd(tasks[l], at[1]) PROVE FALSE
      <4>1. l - 1 \in 1..g /\ l - 1 \in 1..Len(old) /\ (l - 1) + 1 = l
        BY <1>2, <1>6, <2>1
      <4>2. IsEnd(old[l - 1], at[1])
        BY <1>11, <3>1, <4>1
      <4> QED BY <1>15, <4>1, <4>2
    <3>2. ~EndsBy(p, tasks, a, e)
      BY <1>7, <3>1 DEF EndsBy
    <3> QED BY <1>1, <1>6, <1>15, <2>1, <2>4, <3>2 DEF Passing
  <2> QED BY <1>6, <2>1, <2>2, <2>3, <2>4
<1>16. behind[1] = at[1] /\ behind[2] = at[2] + 1
  OBVIOUS
<1> HIDE DEF behind
<1>17. Fits(p, old, behind)
  BY <1>4, <1>12, <1>13, <1>14, <1>15, <1>16 DEF Fits
<1> QED BY <1>17 DEF old, behind

-----------------------------------------------------------------------------
(* Turns without a step leave honest agendas.                              *)

\* A stage starts the pipe it embeds.
LEMMA EmbeddedHonest ==
    ASSUME NEW p, WellFormed(p), NEW old \in Seq(Tasks(p)), Nested(p, old), NEW at \in Locations(p),
           Stage(p, at).kind \in SubKinds, NEW item \in Items, NEW round \in Nat, NEW side \in Nat,
           NEW causes \in SUBSET Possible, None \in causes, Honest(p, old, causes),
           Fits(p, old, at), Open(p, old, at)
    PROVE  Honest(p, Embedded(p, old, at, item, round, side), causes)
<1> DEFINE pipe == Stage(p, at).subs[1]
<1>1. pipe \in DOMAIN p \ {"root"} /\ Owner(p, pipe) = at
  BY FirstSub, SubIs
<1>2. Embedded(p, old, at, item, round, side) = Start(p, pipe, item, round, side) \o old
  BY DEF Embedded
<1> HIDE DEF pipe
<1> QED BY <1>1, <1>2, StartHonest

\* What each turn without a step leaves is honest: an item or completion dropped,
LEMMA DropHonest ==
    ASSUME NEW p, NEW tasks, NEW causes, Working(p, tasks, causes), Stops(p, tasks)
    PROVE  Honest(p, Tail(tasks), causes)
<1>1. MayGo(p, tasks)
  BY DEF MayGo, Stops, AtItem, AtDone
<1> QED BY <1>1, RestHonest

\* an item that leaves its pipe,
LEMMA LeftHonest ==
    ASSUME NEW p, NEW tasks, NEW causes, Working(p, tasks, causes), Leaves(p, tasks)
    PROVE  Honest(p, Left(p, tasks), causes)
<1> DEFINE old == Tail(tasks)
           pipe == Head(tasks).at[1]
           item == Head(tasks).item
           own == EndOf(old, pipe)
           at == Owner(p, pipe)
<1>1. MayGo(p, tasks) /\ At(p, tasks)[1] = pipe /\ AtItem(tasks)
  BY DEF MayGo, Leaves, AtItem, At
<1>2. /\ WellFormed(p) /\ old \in Seq(Tasks(p)) /\ Nested(p, old) /\ Honest(p, old, causes)
      /\ causes \in SUBSET Possible /\ None \in causes
  BY <1>1, RestIs, RestHonest
<1>3. item \in Items /\ pipe \in DOMAIN p /\ EndIn(old, pipe) /\ <<item>> \in Seq(Items)
  <2>1. item \in Items /\ pipe \in DOMAIN p
    BY <1>1, <1>2, HeadFields, PlaceIs DEF Working
  <2>2. EndIn(old, pipe)
    BY <1>1, HeadIs DEF Working
  <2> QED BY <2>1, <2>2
<1>4. CASE OwnedBy(p, pipe, {"switch"})
  <2>1. Left(p, tasks) = Emit(old, at, <<item>>)
    BY <1>4 DEF Left
  <2>2. Fits(p, old, <<at[1], at[2] + 1>>)
    BY <1>4, LeavingFits
  <2>3. at \in Places(p)
    BY <1>2, <1>3, <1>4, OwnerIs DEF OwnedBy
  <2> HIDE DEF old, pipe, item, own, at
  <2> QED BY <1>2, <1>3, <2>1, <2>2, <2>3, EmitHonest
<1>5. CASE ~OwnedBy(p, pipe, {"switch"})
  <2> DEFINE end == Collecting(old[own], item)
  <2>1. Left(p, tasks) = [old EXCEPT ![own] = end]
    BY <1>5 DEF Left
  <2>2. own \in 1..Len(old) /\ old[own] \in Ends(p)
    BY <1>2, <1>3, EndOfIs
  <2> HIDE DEF old, pipe, item, own
  <2>3. old[own].outs \in Seq(Items)
    BY <2>2 DEF Ends
  <2>4. Append(old[own].outs, item) \in Seq(Items)
    BY <1>3, <2>3
  <2>5. /\ end \in Ends(p) /\ end.pipe = old[own].pipe /\ end.side = old[own].side
        /\ old[own].op = "end" /\ end.cause = old[own].cause /\ end.failed = old[own].failed
        /\ end.aborted = old[own].aborted
    BY <2>2, <2>4 DEF Ends, Collecting
  <2> HIDE DEF end
  <2>6. Honest(p, [old EXCEPT ![own] = end], causes)
    BY <1>2, <2>2, <2>5, KinHonest
  <2> QED BY <2>1, <2>6
<1> QED BY <1>4, <1>5

\* a completion that passes on,
LEMMA PassedHonest ==
    ASSUME NEW p, NEW tasks, NEW causes, Working(p, tasks, causes), AtDone(tasks),
           ~HasFailed(tasks, Head(tasks).at), NEW at, at = Head(tasks).at
    PROVE  /\ at \in Locations(p) /\ at = At(p, tasks) /\ MayGo(p, tasks)
           /\ PassedOn(p, tasks) \in Seq(Tasks(p)) /\ Nested(p, PassedOn(p, tasks))
           /\ Honest(p, PassedOn(p, tasks), causes)
           /\ Fits(p, PassedOn(p, tasks), <<at[1], at[2] + 1>>)
<1> DEFINE old == Tail(tasks)
           behind == <<at[1], at[2] + 1>>
           new == PassedOn(p, tasks)
<1>1. MayGo(p, tasks) /\ At(p, tasks) = at
  BY DEF MayGo, AtDone, At
<1>2. /\ WellFormed(p) /\ old \in Seq(Tasks(p)) /\ Nested(p, old) /\ Honest(p, old, causes)
      /\ at \in Places(p) /\ Fits(p, old, at) /\ Unfailed(old, at)
      /\ causes \in SUBSET Possible /\ None \in causes
  BY <1>1, RestIs, RestHonest, NotFailed
<1>3. /\ at \in Locations(p) /\ at[1] \in DOMAIN p
      /\ at[2] \in 1..Len(p[at[1]]) /\ Len(p[at[1]]) \in Nat
  BY HeadFields, LocationIs DEF Working
<1>4. new \in Seq(Tasks(p)) /\ Nested(p, new)
  <2>1. Onto(p, new, Tail(tasks), {})
    BY PassedOnOnto DEF Working
  <2> QED BY <2>1, NestedOnto DEF Working, Onto
<1>5. Fits(p, old, behind)
  BY <1>2, OpenFits
<1>6. CASE at[2] = Len(p[at[1]])
  <2>1. new = old
    BY <1>6 DEF PassedOn
  <2> QED BY <1>1, <1>2, <1>3, <1>4, <1>5, <2>1
<1>7. CASE at[2] # Len(p[at[1]])
  <2> DEFINE front == <<DoneInto(behind)>>
  <2>1. new = front \o old
    BY <1>7 DEF PassedOn
  <2>2. behind \in Locations(p) /\ behind \in Places(p) /\ behind[2] \in Nat
    <3>1. at[2] + 1 \in 1..Len(p[at[1]])
      BY <1>3, <1>7
    <3>2. behind \in Locations(p)
      BY <1>3, <3>1 DEF Locations
    <3> QED BY <1>2, <3>2, LocationIs, PlaceIs
  <2> HIDE DEF old, behind, new
  <2>3. /\ front \in Seq(Tasks(p)) /\ Len(front) = 1
        /\ \A i \in 1..1 : front[i].op # "end" /\ front[i].at = behind
    BY <2>2 DEF DoneInto, Tasks
  <2> HIDE DEF front
  <2>4. Ahead(p, new, old, 1) /\ \A i \in 1..1 : new[i] = front[i]
    <3>1. /\ Ahead(p, front \o old, old, Len(front))
          /\ \A i \in 1..Len(front) : (front \o old)[i] = front[i]
      BY <1>2, <2>3, PutAhead
    <3> QED BY <2>1, <2>3, <3>1
  <2>5. Honest(p, new, causes) /\ Fits(p, new, behind)
    BY <1>2, <1>5, <2>2, <2>3, <2>4, PushedHonest
  <2> QED BY <1>1, <1>3, <1>4, <2>5 DEF behind, new
<1> QED BY <1>6, <1>7

\* after a Reduce let go of its accumulator,
LEMMA CompletedHonest ==
    ASSUME NEW p, NEW tasks, NEW causes, Working(p, tasks, causes), AtDone(tasks),
           ~HasFailed(tasks, Head(tasks).at)
    PROVE  Honest(p, Completed(p, tasks), causes)
<1> DEFINE at == Head(tasks).at
           own == EndOf(tasks, at[1])
           passed == PassedOn(p, tasks)
<1>1. /\ at \in Locations(p) /\ at = At(p, tasks) /\ passed \in Seq(Tasks(p)) /\ Nested(p, passed)
      /\ Honest(p, passed, causes) /\ Fits(p, passed, <<at[1], at[2] + 1>>)
      /\ WellFormed(p) /\ tasks \in Seq(Tasks(p)) /\ causes \in SUBSET Possible /\ None \in causes
  BY PassedHonest DEF Working, Reasons
<1>2. CASE Stage(p, at).kind # "reduce"
  BY <1>1, <1>2 DEF Completed
<1>3. CASE Stage(p, at).kind = "reduce"
  <2>1. EndIn(Tail(tasks), at[1]) /\ at \in Places(p) /\ at[2] \in 1..Len(p[at[1]])
    BY <1>1, HeadIs, LocationIs DEF Working
  <2>2. EndIn(tasks, at[1])
    <3>1. PICK i \in 1..Len(Tail(tasks)) : IsEnd(Tail(tasks)[i], at[1])
      BY <2>1 DEF EndIn
    <3>2. i + 1 \in 1..Len(tasks) /\ Tail(tasks)[i] = tasks[i + 1]
      BY HeadIs DEF Working
    <3> QED BY <3>1, <3>2 DEF EndIn
  <2>3. tasks[own] \in Ends(p) /\ tasks[own].pipe = at[1]
    BY <1>1, <2>2, EndOfIs DEF IsEnd
  <2>4. tasks[own].acc \in Seq(Items) /\ Len(tasks[own].acc) = Len(p[at[1]])
    BY <2>3 DEF Ends
  <2> DEFINE item == tasks[own].acc[at[2]]
  <2>5. item \in Items
    BY <2>1, <2>4
  <2>6. Completed(p, tasks) = Emit(passed, at, <<item>>) /\ <<item>> \in Seq(Items)
    BY <1>3, <2>5 DEF Completed
  <2> HIDE DEF item, own, passed, at
  <2> QED BY <1>1, <2>1, <2>6, EmitHonest
<1> QED BY <1>2, <1>3

\* and a pipe that starts, or a Rescue that is aborted.
LEMMA EmbarkedHonest ==
    ASSUME NEW p, NEW tasks, NEW causes, Working(p, tasks, causes),
           Takes(p, tasks, {"loop", "via", "rescue"})
    PROVE  Honest(p, Embarked(p, tasks), causes)
<1> DEFINE at == Head(tasks).at
           old == Tail(tasks)
           item == Head(tasks).item
<1>1. /\ WellFormed(p) /\ old \in Seq(Tasks(p)) /\ Nested(p, old) /\ causes \in SUBSET Possible
      /\ None \in causes /\ Aborted \in causes
  BY RestIs DEF Working, Reasons
<1>2. /\ Honest(p, old, causes) /\ at \in Locations(p) /\ Fits(p, old, at) /\ Open(p, old, at)
      /\ Stage(p, at).kind \in {"loop", "via", "rescue"} /\ item \in Items
  BY TakesHonest
<1>3. Embarked(p, tasks) = IF Stage(p, at).kind = "rescue" /\ IsAborted(p, old)
                           THEN Fail(p, old, at, Aborted, FALSE)
                           ELSE Embedded(p, old, at, item, 1, 0)
  BY DEF Embarked
<1> HIDE DEF at, old, item
<1>4. IsAborted(p, old) => Honest(p, Fail(p, old, at, Aborted, FALSE), causes)
  BY <1>1, <1>2, StepFails
<1>5. Honest(p, Embedded(p, old, at, item, 1, 0), causes)
  <2>1. Stage(p, at).kind \in SubKinds
    BY <1>2 DEF SubKinds
  <2> QED BY <1>1, <1>2, <2>1, EmbeddedHonest
<1> QED BY <1>3, <1>4, <1>5

\* The ends of pipes that take no step.
LEMMA QuietEndsHonest ==
    ASSUME NEW p, NEW tasks, NEW causes, Working(p, tasks, causes), Head(tasks).op = "end"
    PROVE  /\ EndsIn(p, tasks, {"switch", "via"}) => Honest(p, EndedArmOrVia(p, tasks), causes)
           /\ EndsIn(p, tasks, {"loop"}) => Honest(p, EndedUnjudged(p, tasks), causes)
           /\ EndsIn(p, tasks, {"alongside"}) => Honest(p, EndedAwaited(p, tasks), causes)
           /\ EndsIn(p, tasks, {"rescue"}) /\ Head(tasks).cause = None =>
                  Honest(p, EndedUnrescued(p, tasks), causes)
<1> DEFINE end == Head(tasks)
           item == end.item
           at == Owner(p, end.pipe)
<1>1. ASSUME end.cause = None
      PROVE  /\ Honest(p, Tail(tasks), causes)
             /\ ~HasFailed(Tail(tasks), at) \/ Stage(p, at).kind # "via" =>
                    /\ Honest(p, Emitted(p, tasks, <<item>>), causes)
                    /\ Honest(p, Emitted(p, tasks, end.outs), causes)
  <2>1. MayGo(p, tasks)
    BY <1>1 DEF MayGo
  <2>2. item \in Items /\ end.outs \in Seq(Items)
    BY <2>1, EndsHonest
  <2>3. <<item>> \in Seq(Items)
    BY <2>2
  <2> QED BY <2>1, <2>2, <2>3, EndsHonest
<1>2. ASSUME end.cause # None, EndsIn(p, tasks, {"switch", "via", "loop", "alongside"})
      PROVE  Honest(p, Fail(p, Tail(tasks), Owner(p, end.pipe), end.cause, FALSE), causes)
  <2>1. ~MayGo(p, tasks)
    BY <1>2 DEF MayGo, EndsIn, OwnedBy, Flagged, OwnsFlag
  <2> QED BY <2>1, OuterFails
<1>3. EndsIn(p, tasks, {"switch", "via"}) => Honest(p, EndedArmOrVia(p, tasks), causes)
  BY <1>1, <1>2 DEF EndedArmOrVia, Ended, EndsIn, OwnedBy
<1>4. EndsIn(p, tasks, {"loop"}) => Honest(p, EndedUnjudged(p, tasks), causes)
  BY <1>1, <1>2 DEF EndedUnjudged, Ended, EndsIn, OwnedBy
<1>5. EndsIn(p, tasks, {"alongside"}) => Honest(p, EndedAwaited(p, tasks), causes)
  BY <1>1, <1>2 DEF EndedAwaited, Ended, EndsIn, OwnedBy
<1>6. EndsIn(p, tasks, {"rescue"}) /\ end.cause = None =>
          Honest(p, EndedUnrescued(p, tasks), causes)
  BY <1>1 DEF EndedUnrescued, EndsIn, OwnedBy
<1> QED BY <1>3, <1>4, <1>5, <1>6

-----------------------------------------------------------------------------
(* Turns with a step leave honest agendas.                                 *)

\* Whatever the step of the turn returns, the agenda behind it is honest.
Frank(p, tasks, turn, causes) ==
    /\ turn.asks.at = At(p, tasks) /\ turn.asks.at \in Locations(p) /\ MayGo(p, tasks)
    /\ \A result \in Results(p, turn.asks.at) \ {"error"} : Honest(p, turn.next[result], causes)

\* Refused, failed or answered.
LEMMA AfterHonest ==
    ASSUME NEW p, NEW tasks, NEW causes, Working(p, tasks, causes),
           NEW turn, Frank(p, tasks, turn, causes), NEW id \in Nat
    PROVE  /\ Honest(p, Tail(tasks), causes)
           /\ IsAborted(p, Tail(tasks)) => Honest(p, Stopped(p, tasks, turn), causes)
           /\ Refused \in causes => Honest(p, Denied(p, tasks, turn), causes)
           /\ \A result \in Results(p, turn.asks.at) :
                  Honest(p, After(p, tasks, id, turn, result), causes)
<1> DEFINE old == Tail(tasks)
           at == turn.asks.at
           failure == Failure("step", id)
<1>1. /\ WellFormed(p) /\ old \in Seq(Tasks(p)) /\ Nested(p, old) /\ causes \in SUBSET Possible
      /\ at \in Locations(p) /\ Fits(p, old, at) /\ Honest(p, old, causes)
  BY RestIs, RestHonest DEF Frank
<1>2. /\ Aborted \in causes /\ failure \in causes /\ failure.kind = "step"
      /\ Refused.kind = "refused"
  BY DEF Working, Reasons, Failure, Refused
<1>3. /\ \A result \in Results(p, at) \ {"error"} : Honest(p, turn.next[result], causes)
      /\ Stopped(p, tasks, turn) = Fail(p, old, at, Aborted, FALSE)
      /\ Denied(p, tasks, turn) = Fail(p, old, at, Refused, TRUE)
      /\ \A result : After(p, tasks, id, turn, result) =
             IF result = "error" THEN Fail(p, old, at, failure, TRUE) ELSE turn.next[result]
  BY DEF Frank, Stopped, Denied, After, SetsFlag
<1> HIDE DEF old, at, failure
<1>4. /\ IsAborted(p, old) => Honest(p, Fail(p, old, at, Aborted, FALSE), causes)
      /\ Refused \in causes => Honest(p, Fail(p, old, at, Refused, TRUE), causes)
      /\ Honest(p, Fail(p, old, at, failure, TRUE), causes)
  BY <1>1, <1>2, StepFails
<1>5. /\ Honest(p, old, causes)
      /\ IsAborted(p, old) => Honest(p, Stopped(p, tasks, turn), causes)
      /\ Refused \in causes => Honest(p, Denied(p, tasks, turn), causes)
      /\ \A result \in Results(p, at) : Honest(p, After(p, tasks, id, turn, result), causes)
  BY <1>1, <1>3, <1>4
<1> QED BY <1>5 DEF old, at

\* The turns that take a step: one for each item,
LEMMA PlainFrank ==
    ASSUME NEW p, NEW tasks, NEW causes, Working(p, tasks, causes), NEW id \in Nat,
           Takes(p, tasks, PlainKinds)
    PROVE  Frank(p, tasks, PlainTurn(p, tasks, id), causes)
<1> DEFINE at == Head(tasks).at
           old == Tail(tasks)
           turn == PlainTurn(p, tasks, id)
<1>1. /\ WellFormed(p) /\ old \in Seq(Tasks(p)) /\ Nested(p, old) /\ causes \in SUBSET Possible
      /\ None \in causes
  BY RestIs
<1>2. /\ Honest(p, old, causes) /\ at \in Locations(p) /\ at \in Places(p)
      /\ Fits(p, old, <<at[1], at[2] + 1>>)
      /\ Stage(p, at).kind \in PlainKinds /\ Head(tasks).item \in Items
  <2>1. "via" \notin PlainKinds
    BY DEF PlainKinds
  <2> QED BY <2>1, TakesHonest
<1>3. turn.asks.at = at /\ at = At(p, tasks) /\ MayGo(p, tasks)
  BY DEF PlainTurn, Turn, At, Takes, AtItem, MayGo
<1>4. ASSUME NEW result \in Results(p, at)
      PROVE  Honest(p, turn.next[result], causes)
  <2> DEFINE items == Emission(Stage(p, at).kind, Head(tasks).item, result, id)
  <2>1. result \in Answers(p)
    BY <1>1, <1>2, ResultsAreAnswers
  <2>2. turn.next[result] = Emit(old, at, items)
    BY <2>1 DEF PlainTurn, Turn
  <2>3. Item(id, 1) \in Items /\ Item(id, 2) \in Items
    BY DEF Item, Items
  <2>4. items \in Seq(Items)
    BY <1>2, <2>3 DEF Emission, PlainKinds
  <2> HIDE DEF items, at, turn, old
  <2> QED BY <1>1, <1>2, <2>2, <2>4, EmitHonest
<1> QED BY <1>2, <1>3, <1>4 DEF Frank

\* the one that closes a stream,
LEMMA CloseFrank ==
    ASSUME NEW p, NEW tasks, NEW causes, Working(p, tasks, causes), AtDone(tasks),
           ~HasFailed(tasks, Head(tasks).at)
    PROVE  Frank(p, tasks, CloseTurn(p, tasks), causes)
<1> DEFINE at == Head(tasks).at
           turn == CloseTurn(p, tasks)
<1>1. /\ at \in Locations(p) /\ at = At(p, tasks) /\ MayGo(p, tasks)
      /\ Honest(p, PassedOn(p, tasks), causes) /\ WellFormed(p)
  BY PassedHonest DEF Working
<1>2. turn.asks.at = at
  BY DEF CloseTurn, Turn
<1>3. \A result \in Results(p, at) : turn.next[result] = PassedOn(p, tasks)
  BY <1>1, ResultsAreAnswers DEF CloseTurn, Turn
<1> HIDE DEF at
<1> QED BY <1>1, <1>2, <1>3 DEF Frank

\* one that folds an item,
LEMMA ReduceFrank ==
    ASSUME NEW p, NEW tasks, NEW causes, Working(p, tasks, causes), NEW id \in Nat,
           Takes(p, tasks, {"reduce"})
    PROVE  Frank(p, tasks, ReduceTurn(p, tasks, id), causes)
<1> DEFINE old == Tail(tasks)
           at == Head(tasks).at
           own == EndOf(old, at[1])
           end == Accumulating(old[own], at[2], Item(id, 1))
           turn == ReduceTurn(p, tasks, id)
<1>1. /\ WellFormed(p) /\ old \in Seq(Tasks(p)) /\ causes \in SUBSET Possible /\ None \in causes
  BY RestIs
<1>2. /\ Honest(p, old, causes) /\ at \in Locations(p) /\ at[2] \in 1..Len(p[at[1]])
      /\ Fits(p, old, at)
  BY <1>1, TakesHonest, LocationIs
<1>3. turn.asks.at = at /\ at = At(p, tasks) /\ MayGo(p, tasks)
  BY DEF ReduceTurn, Turn, At, Takes, AtItem, MayGo
<1>4. \A result \in Results(p, at) : turn.next[result] = [old EXCEPT ![own] = end]
  BY <1>1, <1>2, ResultsAreAnswers DEF ReduceTurn, Turn
<1> HIDE DEF old, at, turn
<1>5. own \in 1..Len(old) /\ old[own] \in Ends(p) /\ old[own].pipe = at[1]
  BY <1>1, <1>2, EndOfIs DEF Fits, IsEnd
<1>6. /\ old[own].acc \in Seq(Items) /\ Item(id, 1) \in Items /\ old[own].op = "end"
      /\ at[2] \in 1..Len(old[own].acc)
  BY <1>2, <1>5 DEF Ends, Item, Items
<1> HIDE DEF own
<1>7. /\ [old[own].acc EXCEPT ![at[2]] = Item(id, 1)] \in Seq(Items)
      /\ Len([old[own].acc EXCEPT ![at[2]] = Item(id, 1)]) = Len(old[own].acc)
  <2> DEFINE acc == old[own].acc
             item == Item(id, 1)
             n == at[2]
  <2>1. acc \in Seq(Items) /\ item \in Items
    BY <1>6
  <2>2. n \in 1..Len(acc)
    BY <1>6
  <2> HIDE DEF acc, item, n
  <2>3. [acc EXCEPT ![n] = item] \in Seq(Items) /\ Len([acc EXCEPT ![n] = item]) = Len(acc)
    BY <2>1, <2>2
  <2> QED BY <2>3 DEF acc, item, n
<1>8. /\ end \in Ends(p) /\ end.pipe = old[own].pipe /\ end.side = old[own].side
      /\ end.cause = old[own].cause /\ end.failed = old[own].failed
      /\ end.aborted = old[own].aborted
  BY <1>5, <1>7 DEF Ends, Accumulating
<1> HIDE DEF end
<1>9. Honest(p, [old EXCEPT ![own] = end], causes)
  BY <1>1, <1>2, <1>5, <1>6, <1>8, KinHonest
<1> QED BY <1>2, <1>3, <1>4, <1>9 DEF Frank, turn

-----------------------------------------------------------------------------
(* Turns with a step, the others.                                          *)

\* one that picks an arm,
LEMMA SwitchFrank ==
    ASSUME NEW p, NEW tasks, NEW causes, Working(p, tasks, causes), NEW id \in Nat,
           Takes(p, tasks, {"switch"})
    PROVE  Frank(p, tasks, SwitchTurn(p, tasks, id), causes)
<1> DEFINE old == Tail(tasks)
           at == Head(tasks).at
           item == Head(tasks).item
           turn == SwitchTurn(p, tasks, id)
           failure == Failure("step", id)
<1>1. /\ WellFormed(p) /\ old \in Seq(Tasks(p)) /\ Nested(p, old) /\ causes \in SUBSET Possible
      /\ None \in causes /\ failure \in causes /\ failure.kind = "step"
  BY RestIs DEF Working, Reasons, Failure
<1>2. /\ Honest(p, old, causes) /\ at \in Locations(p) /\ Fits(p, old, at) /\ Open(p, old, at)
      /\ item \in Items
  BY TakesHonest
<1>3. turn.asks.at = at /\ at = At(p, tasks) /\ MayGo(p, tasks)
  BY DEF SwitchTurn, Turn, At, Takes, AtItem, MayGo
<1>4. ASSUME NEW key \in Results(p, at) PROVE Honest(p, turn.next[key], causes)
  <2>1. key \in Answers(p)
    BY <1>1, <1>2, ResultsAreAnswers
  <2>2. turn.next[key] = IF key \in Range(Stage(p, at).subs)
                         THEN Start(p, key, item, 1, 0) \o old
                         ELSE Fail(p, old, at, failure, TRUE)
    BY <2>1 DEF SwitchTurn, Turn
  <2> HIDE DEF old, at, item, turn, failure
  <2>3. Honest(p, Fail(p, old, at, failure, TRUE), causes)
    BY <1>1, <1>2, StepFails
  <2>4. ASSUME key \in Range(Stage(p, at).subs)
        PROVE  Honest(p, Start(p, key, item, 1, 0) \o old, causes)
    <3>1. key \in DOMAIN p \ {"root"} /\ Owner(p, key) = at
      BY <1>1, <1>2, <2>4, SubIs
    <3> QED BY <1>1, <1>2, <3>1, StartHonest
  <2> QED BY <2>2, <2>3, <2>4
<1> QED BY <1>2, <1>3, <1>4 DEF Frank

\* a side step,
LEMMA LaunchFrank ==
    ASSUME NEW p, NEW tasks, NEW causes, Working(p, tasks, causes), NEW id \in Nat,
           Launches(p, tasks)
    PROVE  /\ Frank(p, tasks, LaunchTurn(p, tasks, id), causes)
           /\ Honest(p, LaunchTurn(p, tasks, id).next["ok"], causes)
<1> DEFINE old == Tail(tasks)
           at == Head(tasks).at
           item == Head(tasks).item
           turn == LaunchTurn(p, tasks, id)
<1>0. Takes(p, tasks, {"alongside"})
  BY DEF Launches
<1>1. /\ WellFormed(p) /\ old \in Seq(Tasks(p)) /\ Nested(p, old) /\ causes \in SUBSET Possible
      /\ None \in causes
  BY RestIs
<1>2. /\ Honest(p, old, causes) /\ at \in Locations(p) /\ Fits(p, old, at) /\ Open(p, old, at)
      /\ item \in Items /\ Stage(p, at).kind \in SubKinds
  BY <1>0, TakesHonest DEF SubKinds
<1>3. turn.asks.at = at /\ at = At(p, tasks) /\ MayGo(p, tasks)
  BY <1>0 DEF LaunchTurn, Turn, At, Takes, AtItem, MayGo
<1>4. \A result \in Answers(p) : turn.next[result] = Embedded(p, old, at, item, 1, id)
  BY DEF LaunchTurn, Turn
<1>5. "ok" \in Answers(p) /\ Results(p, at) \subseteq Answers(p)
  BY <1>1, <1>2, ResultsAreAnswers DEF Answers
<1> HIDE DEF old, at, item, turn
<1>6. Honest(p, Embedded(p, old, at, item, 1, id), causes)
  BY <1>1, <1>2, EmbeddedHonest
<1> QED BY <1>2, <1>3, <1>4, <1>5, <1>6 DEF Frank, turn

\* and a Loop's predicate.
LEMMA VerdictFrank ==
    ASSUME NEW p, NEW tasks, NEW causes, Working(p, tasks, causes),
           EndsIn(p, tasks, {"loop"}), ~Unjudged(tasks)
    PROVE  Frank(p, tasks, VerdictTurn(p, tasks), causes)
<1> DEFINE old == Tail(tasks)
           task == Head(tasks)
           at == Owner(p, task.pipe)
           made == Last(task.outs)
           turn == VerdictTurn(p, tasks)
<1>1. /\ WellFormed(p) /\ old \in Seq(Tasks(p)) /\ Nested(p, old) /\ causes \in SUBSET Possible
      /\ None \in causes
  BY RestIs
<1>2. Head(tasks).op = "end" /\ MayGo(p, tasks) /\ Stage(p, at).kind = "loop" /\ task.outs # <<>>
  BY DEF EndsIn, OwnedBy, Unjudged, MayGo
<1>3. /\ Honest(p, old, causes) /\ at \in Locations(p) /\ Fits(p, old, at) /\ Open(p, old, at)
      /\ task.outs \in Seq(Items)
      /\ \A items \in Seq(Items) : Honest(p, Emitted(p, tasks, items), causes)
  BY <1>2, EndsHonest
<1>4. task.round \in Nat /\ task.round + 1 \in Nat
  BY <1>2, HeadFields DEF Working
<1>5. made \in Items
  <2> DEFINE outs == task.outs
  <2>1. outs \in Seq(Items) /\ outs # <<>>
    BY <1>2, <1>3
  <2> HIDE DEF outs
  <2>2. outs[Len(outs)] \in Items
    BY <2>1
  <2> QED BY <2>2 DEF outs, Last
<1>6. <<made>> \in Seq(Items)
  BY <1>5
<1>7. turn.asks.at = at /\ at = At(p, tasks)
  BY <1>2 DEF VerdictTurn, Turn, At
<1>8. ASSUME Stage(p, at).max > 0 PROVE Honest(p, Fail(p, old, at, MaxIterations, FALSE), causes)
  <2>1. MaxIterations \in causes
    BY <1>2, <1>3, <1>8 DEF Working, Reasons, Bounded
  <2> HIDE DEF old, at
  <2> QED BY <1>1, <1>3, <2>1, StepFails
<1>9. Honest(p, Embedded(p, old, at, made, task.round + 1, 0), causes)
  <2>1. Stage(p, at).kind \in SubKinds
    BY <1>2 DEF SubKinds
  <2> DEFINE round == task.round + 1
  <2>2. round \in Nat
    BY <1>4
  <2> HIDE DEF old, at, made, round
  <2>3. Honest(p, Embedded(p, old, at, made, round, 0), causes)
    BY <1>1, <1>3, <1>5, <2>1, <2>2, EmbeddedHonest
  <2> QED BY <2>3 DEF round
<1>10. ASSUME NEW verdict \in Results(p, at) PROVE Honest(p, turn.next[verdict], causes)
  <2>1. verdict \in Answers(p)
    BY <1>1, <1>3, ResultsAreAnswers
  <2>2. turn.next[verdict] =
            IF verdict = "done" THEN Emitted(p, tasks, <<made>>)
            ELSE IF Stage(p, at).max > 0 /\ task.round >= Stage(p, at).max
            THEN Fail(p, old, at, MaxIterations, FALSE)
            ELSE Embedded(p, old, at, made, task.round + 1, 0)
    BY <2>1 DEF VerdictTurn, Turn
  <2> HIDE DEF old, at, made, turn, task
  <2> QED BY <1>3, <1>6, <1>8, <1>9, <2>2
<1> HIDE DEF at
<1> QED BY <1>2, <1>3, <1>7, <1>10 DEF Frank

\* The handlers of Rescue, which owns a flag, and of Alongside, for a pipe that did
\* not fail.
LEMMA HandlersFrank ==
    ASSUME NEW p, NEW tasks, NEW causes, Working(p, tasks, causes), Head(tasks).op = "end",
           EndsIn(p, tasks, {"rescue", "alongside"}), MayGo(p, tasks),
           NEW id \in Nat, NEW cause, NEW seen
    PROVE  /\ Frank(p, tasks, RescueTurn(p, tasks, id, seen), causes)
           /\ Frank(p, tasks, SideTurn(p, tasks, cause, seen), causes)
<1> DEFINE at == Owner(p, Head(tasks).pipe)
           item == Head(tasks).item
<1>1. /\ at \in Locations(p) /\ item \in Items /\ WellFormed(p) /\ at = At(p, tasks)
      /\ \A items \in Seq(Items) : Honest(p, Emitted(p, tasks, items), causes)
  BY EndsHonest, RestIs DEF At, EndsIn, OwnedBy
<1>2. /\ <<item>> \in Seq(Items) /\ <<Item(id, 1)>> \in Seq(Items)
  <2>1. Item(id, 1) \in Items
    BY DEF Item, Items
  <2> HIDE DEF item
  <2> QED BY <1>1, <2>1
<1>3. /\ RescueTurn(p, tasks, id, seen).asks.at = at /\ SideTurn(p, tasks, cause, seen).asks.at = at
      /\ \A result \in Answers(p) :
             /\ RescueTurn(p, tasks, id, seen).next[result] = Emitted(p, tasks, <<Item(id, 1)>>)
             /\ SideTurn(p, tasks, cause, seen).next[result] = Emitted(p, tasks, <<item>>)
  BY DEF RescueTurn, SideTurn, Turn
<1>4. Results(p, at) \subseteq Answers(p)
  BY <1>1, ResultsAreAnswers
<1> HIDE DEF at, item
<1> QED BY <1>1, <1>2, <1>3, <1>4 DEF Frank

-----------------------------------------------------------------------------
(* What executions say of failures.                                        *)

\* The causes a failure may have in this execution.
Allowed ==
    {None, Aborted} \cup {Failure("step", id) : id \in Nat}
    \cup (IF Bounded(program) THEN {MaxIterations} ELSE {})
    \cup (IF halt = "no" THEN {} ELSE {Refused})
\* What a handler may be told.
Tellable == {"none", "step", "max_iterations"}
\* What the agenda says of failures is true, and so is what handlers are told.
Truthful ==
    /\ Running => Honest(program, agenda, Allowed)
    /\ GenuineCauses
    /\ \A id \in DOMAIN flying : flying[id].cause = None
\* A step is taken only where every failure behind it is a Loop's that gave up.
Clean ==
    \A i \in 2..Scope(program, Tail(agenda)) + 1 :
        agenda[i].op = "end" => agenda[i].cause \in {None, MaxIterations} \cap Allowed
\* So it is in this step.
Cleanly == Running /\ nextID' > nextID => Clean

\* Allowed is what an execution may come to.
LEMMA AllowedIs ==
    /\ Reasons(program, Allowed) /\ Allowed \in SUBSET Possible
    /\ halt # "no" => Refused \in Allowed
    /\ \A cause \in Allowed :
           /\ cause.kind \in {"none", "max_iterations"} => cause \in {None, MaxIterations}
           /\ halt = "no" => cause.kind # "refused"
           /\ ~Bounded(program) => cause # MaxIterations
<1>1. Allowed \in SUBSET Possible
  BY DEF Allowed, Possible
<1>2. Reasons(program, Allowed) /\ (halt # "no" => Refused \in Allowed)
  BY <1>1 DEF Reasons, Allowed
<1>3. ASSUME NEW cause \in Allowed
      PROVE  /\ cause.kind \in {"none", "max_iterations"} => cause \in {None, MaxIterations}
             /\ halt = "no" => cause.kind # "refused"
             /\ ~Bounded(program) => cause # MaxIterations
  BY DEF Allowed, None, Aborted, Refused, MaxIterations, Failure
<1> QED BY <1>1, <1>2, <1>3

\* The end that owns the nearest flag did not fail for it.
LEMMA FlaggedCause ==
    ASSUME NEW p, NEW tasks \in Seq(Tasks(p)), tasks # <<>>, NEW causes, Honest(p, tasks, causes),
           Flagged(p, Head(tasks))
    PROVE  Head(tasks).cause.kind # "aborted" /\ Head(tasks).cause \in causes
<1>1. 1 \in 1..Len(tasks) /\ Head(tasks) = tasks[1] /\ tasks[1].op = "end"
  BY DEF Flagged
<1>2. tasks[1].cause \in causes
  BY <1>1 DEF Honest, CausesIn
<1>3. ASSUME tasks[1].cause.kind = "aborted" PROVE FALSE
  <2>1. PICK g \in 1 + 1..Len(tasks) : Within(p, tasks, 1, g)
    BY <1>1, <1>3 DEF Honest, Candid, AbortedBehind, Excused
  <2>2. 1 \in 1..g - 1
    OBVIOUS
  <2> QED BY <1>1, <2>1, <2>2 DEF Within
<1> QED BY <1>1, <1>2, <1>3

\* Where the abort flag is down, what failed behind it did not mean to abort.
LEMMA FlagDown ==
    ASSUME NEW p, NEW tasks \in Seq(Tasks(p)), Nested(p, tasks), NEW causes,
           Honest(p, tasks, causes), ~IsAborted(p, tasks), NEW g \in 1..Scope(p, tasks),
           tasks[g].op = "end"
    PROVE  tasks[g].cause \in causes /\ tasks[g].cause.kind \in {"none", "max_iterations"}
<1>1. /\ Scope(p, tasks) \in 1..Len(tasks) /\ Flagged(p, tasks[Scope(p, tasks)])
      /\ \A l \in 1..Scope(p, tasks) - 1 : ~Flagged(p, tasks[l])
  BY ScopeFirst
<1>2. g \in 1..Len(tasks)
  BY <1>1
<1>3. tasks[g].cause \in causes
  BY <1>2 DEF Honest, CausesIn
<1>4. Within(p, tasks, g, Scope(p, tasks))
  BY <1>1 DEF Within
<1>5. FailuresAbort(p, tasks)
  BY DEF Honest, Candid
<1>6. tasks[g].cause.kind \in {"none", "max_iterations"}
  BY <1>1, <1>2, <1>4, <1>5 DEF FailuresAbort, IsAborted
<1> QED BY <1>3, <1>6

\* An execution between two turns.
LEMMA NowWorking ==
    ASSUME IInv, Truthful, Running, ~EndsRoot(agenda)
    PROVE  Working(program, agenda, Allowed) /\ nextID \in Nat
BY Executing, AllowedIs DEF Truthful, Working

\* A turn without a step.
LEMMA QuietTruthful ==
    ASSUME IInv, Truthful, Running, NEW tasks, Quiet(tasks), Honest(program, tasks, Allowed)
    PROVE  Truthful' /\ Cleanly
<1>1. /\ agenda' = tasks /\ nextID' = nextID /\ UNCHANGED <<records, flying, program, halt, phase>>
      /\ UNCHANGED outcome
  BY DEF Quiet, Untouched, database, deployed, results
<1>2. nextID \in Nat
  BY DEF IInv, TypeOK
<1>3. Allowed' = Allowed
  BY <1>1 DEF Allowed
<1>4. ~(nextID' > nextID)
  BY <1>1, <1>2
<1> QED BY <1>1, <1>3, <1>4 DEF Truthful, GenuineCauses, Cleanly

\* The abort flag is down for a step that is taken.
LEMMA TakenCleanly ==
    ASSUME IInv, Running, ~EndsRoot(agenda), Honest(program, Tail(agenda), Allowed),
           nextID' > nextID => ~Barred
    PROVE  Cleanly
<1> DEFINE old == Tail(agenda)
<1> SUFFICES ASSUME nextID' > nextID, NEW i \in 2..Scope(program, old) + 1, agenda[i].op = "end"
             PROVE  agenda[i].cause \in {None, MaxIterations} \cap Allowed
  BY DEF Cleanly, Clean
<1>1. /\ WellFormed(program) /\ agenda \in Seq(Tasks(program)) /\ Nested(program, agenda)
      /\ old \in Seq(Tasks(program)) /\ Len(old) = Len(agenda) - 1 /\ Len(agenda) \in Nat
      /\ \A j \in 1..Len(old) : old[j] = agenda[j + 1]
  BY Executing, HeadIs
<1>2. Nested(program, old)
  <2>1. Onto(program, old, old, {})
    BY <1>1, OntoItself
  <2> QED BY <1>1, <2>1, NestedOnto
<1>3. ~IsAborted(program, old)
  BY DEF Barred
<1> HIDE DEF old
<1>4. Scope(program, old) \in 1..Len(old)
  BY <1>1, <1>2, ScopeFirst
<1> DEFINE g == i - 1
<1>5. g \in 1..Scope(program, old) /\ g \in 1..Len(old) /\ old[g] = agenda[i]
  <2>1. g \in 1..Scope(program, old) /\ g \in 1..Len(old) /\ g + 1 = i
    BY <1>1, <1>4
  <2> QED BY <1>1, <2>1
<1> HIDE DEF g
<1>6. Honest(program, old, Allowed)
  BY DEF old
<1>7. old[g].cause \in Allowed /\ old[g].cause.kind \in {"none", "max_iterations"}
  BY <1>1, <1>2, <1>3, <1>5, <1>6, FlagDown
<1> QED BY <1>5, <1>7, AllowedIs

\* A turn that takes a step.
LEMMA StepTruthful ==
    ASSUME IInv, IInv', Truthful, Running, ~EndsRoot(agenda), NEW turn, RunStep(turn), Untouched,
           Frank(program, agenda, turn, Allowed), halt = "no" => turn.asks.cause.kind \in Tellable
    PROVE  Truthful' /\ Cleanly
<1> DEFINE at == turn.asks.at
<1>1. Working(program, agenda, Allowed) /\ nextID \in Nat
  BY NowWorking
<1>2. /\ Honest(program, Tail(agenda), Allowed)
      /\ Barred => Honest(program, Stopped(program, agenda, turn), Allowed)
      /\ Refused \in Allowed => Honest(program, Denied(program, agenda, turn), Allowed)
      /\ \A result \in Results(program, at) :
             Honest(program, After(program, agenda, nextID, turn, result), Allowed)
  BY <1>1, AfterHonest DEF Barred
<1>3. UNCHANGED <<flying, program, halt, phase, outcome>>
  BY DEF Untouched, deployed, results
<1>4. Allowed' = Allowed
  BY <1>3 DEF Allowed
<1>5. nextID' > nextID => ~Barred
  <2>1. Barred => nextID' = nextID
    BY DEF RunStep
  <2> QED BY <1>1, <2>1
<1>6. Cleanly
  BY <1>2, <1>5, TakenCleanly
<1>7. CASE Barred
  <2>1. agenda' = Stopped(program, agenda, turn) /\ UNCHANGED records
    BY <1>7 DEF RunStep, database
  <2> QED BY <1>2, <1>3, <1>4, <1>6, <1>7, <2>1 DEF Truthful, GenuineCauses, Running
<1>8. CASE ~Barred /\ halt # "no"
  <2>1. agenda' = Denied(program, agenda, turn) /\ UNCHANGED records
    BY <1>8 DEF RunStep, database
  <2>2. Honest(program, Denied(program, agenda, turn), Allowed)
    BY <1>2, <1>8, AllowedIs
  <2> QED BY <1>3, <1>4, <1>6, <2>1, <2>2 DEF Truthful, GenuineCauses, Running
<1>9. CASE ~Barred /\ halt = "no" /\ nextID \in DOMAIN records
  <2>1. /\ agenda' = After(program, agenda, nextID, turn, Recorded(nextID)) /\ UNCHANGED records
        /\ misread' = (misread \/ records[nextID].asked # turn.asks)
    BY <1>9 DEF RunStep
  <2>2. records[nextID].asked = turn.asks
    BY <2>1 DEF IInv, NoMisread
  <2>3. Recorded(nextID) \in Results(program, at)
    BY <1>9, <2>2, Executing DEF IInv, RecordsAnswer, Recorded
  <2> QED BY <1>2, <1>3, <1>4, <1>6, <2>1, <2>3 DEF Truthful, GenuineCauses, Running
<1>10. CASE ~Barred /\ halt = "no" /\ nextID \notin DOMAIN records
  <2>1. PICK result \in Results(program, at) :
            /\ records' = With(records, nextID, [asked |-> turn.asks, result |-> result])
            /\ agenda' = After(program, agenda, nextID, turn, result)
    BY <1>10 DEF RunStep
  <2>2. \A id \in DOMAIN records' : records'[id].asked.cause.kind \in Tellable
    BY <1>10, <2>1 DEF With, Truthful, GenuineCauses, Tellable
  <2> QED BY <1>2, <1>3, <1>4, <1>6, <2>1, <2>2 DEF Truthful, GenuineCauses, Running, Tellable
<1> QED BY <1>7, <1>8, <1>9, <1>10

-----------------------------------------------------------------------------
(* The workflow goroutine tells the truth.                                 *)

\* Each action keeps the truth.
LEMMA DropTruthful == ASSUME IInv, Truthful, Drop PROVE Truthful' /\ Cleanly
<1>1. Running /\ Stops(program, agenda) /\ Quiet(Tail(agenda)) /\ ~EndsRoot(agenda)
  BY DEF Drop, Stops, EndsRoot, AtItem, AtDone
<1> QED BY <1>1, NowWorking, DropHonest, QuietTruthful

LEMMA LeaveTruthful == ASSUME IInv, Truthful, Leave PROVE Truthful' /\ Cleanly
<1>1. Running /\ Leaves(program, agenda) /\ Quiet(Left(program, agenda)) /\ ~EndsRoot(agenda)
  BY DEF Leave, Leaves, EndsRoot, AtItem
<1> QED BY <1>1, NowWorking, LeftHonest, QuietTruthful

LEMMA CompleteTruthful == ASSUME IInv, Truthful, Complete PROVE Truthful' /\ Cleanly
<1>1. /\ Running /\ AtDone(agenda) /\ ~HasFailed(agenda, Head(agenda).at)
      /\ Quiet(Completed(program, agenda)) /\ ~EndsRoot(agenda)
  BY DEF Complete, Completes, EndsRoot, AtDone
<1> QED BY <1>1, NowWorking, CompletedHonest, QuietTruthful

LEMMA EmbedTruthful == ASSUME IInv, Truthful, Embed PROVE Truthful' /\ Cleanly
<1>1. /\ Running /\ Takes(program, agenda, {"loop", "via", "rescue"})
      /\ Quiet(Embarked(program, agenda)) /\ ~EndsRoot(agenda)
  BY DEF Embed, Takes, EndsRoot, AtItem
<1> QED BY <1>1, NowWorking, EmbarkedHonest, QuietTruthful

LEMMA CloseStreamTruthful ==
    ASSUME IInv, IInv', Truthful, CloseStream PROVE Truthful' /\ Cleanly
<1> DEFINE turn == CloseTurn(program, agenda)
<1>1. /\ Running /\ AtDone(agenda) /\ ~HasFailed(agenda, Head(agenda).at) /\ ~EndsRoot(agenda)
      /\ RunStep(turn) /\ Untouched
  BY DEF CloseStream, Completes, EndsRoot, AtDone
<1>2. turn.asks.cause.kind \in Tellable
  BY DEF CloseTurn, Turn, None, Failure, Tellable
<1>3. Frank(program, agenda, turn, Allowed)
  BY <1>1, NowWorking, CloseFrank
<1> HIDE DEF turn
<1> QED BY <1>1, <1>2, <1>3, StepTruthful

\* A stage that takes an item with a step.
LEMMA TakesTruthful ==
    ASSUME IInv, IInv', Truthful, Running, NEW kinds, Takes(program, agenda, kinds),
           NEW turn, RunStep(turn), Untouched, turn.asks.cause = None,
           Working(program, agenda, Allowed) => Frank(program, agenda, turn, Allowed)
    PROVE  Truthful' /\ Cleanly
<1>1. ~EndsRoot(agenda)
  BY DEF Takes, EndsRoot, AtItem
<1>2. Frank(program, agenda, turn, Allowed)
  BY <1>1, NowWorking
<1>3. turn.asks.cause.kind \in Tellable
  BY DEF None, Failure, Tellable
<1> QED BY <1>1, <1>2, <1>3, StepTruthful

LEMMA PlainStageTruthful ==
    ASSUME IInv, IInv', Truthful, PlainStage PROVE Truthful' /\ Cleanly
<1> DEFINE turn == PlainTurn(program, agenda, nextID)
<1>1. Running /\ Takes(program, agenda, PlainKinds) /\ RunStep(turn) /\ Untouched /\ nextID \in Nat
  BY Executing DEF PlainStage
<1>2. turn.asks.cause = None
  BY DEF PlainTurn, Turn
<1>3. Working(program, agenda, Allowed) => Frank(program, agenda, turn, Allowed)
  BY <1>1, PlainFrank
<1> HIDE DEF turn
<1> QED BY <1>1, <1>2, <1>3, TakesTruthful

LEMMA AccumulateTruthful ==
    ASSUME IInv, IInv', Truthful, Accumulate PROVE Truthful' /\ Cleanly
<1> DEFINE turn == ReduceTurn(program, agenda, nextID)
<1>1. Running /\ Takes(program, agenda, {"reduce"}) /\ RunStep(turn) /\ Untouched /\ nextID \in Nat
  BY Executing DEF Accumulate
<1>2. turn.asks.cause = None
  BY DEF ReduceTurn, Turn
<1>3. Working(program, agenda, Allowed) => Frank(program, agenda, turn, Allowed)
  BY <1>1, ReduceFrank
<1> HIDE DEF turn
<1> QED BY <1>1, <1>2, <1>3, TakesTruthful

LEMMA DispatchTruthful ==
    ASSUME IInv, IInv', Truthful, Dispatch PROVE Truthful' /\ Cleanly
<1> DEFINE turn == SwitchTurn(program, agenda, nextID)
<1>1. Running /\ Takes(program, agenda, {"switch"}) /\ RunStep(turn) /\ Untouched /\ nextID \in Nat
  BY Executing DEF Dispatch
<1>2. turn.asks.cause = None
  BY DEF SwitchTurn, Turn
<1>3. Working(program, agenda, Allowed) => Frank(program, agenda, turn, Allowed)
  BY <1>1, SwitchFrank
<1> HIDE DEF turn
<1> QED BY <1>1, <1>2, <1>3, TakesTruthful

LEMMA LaunchTruthful == ASSUME IInv, Truthful, Launch PROVE Truthful' /\ Cleanly
<1> DEFINE turn == LaunchTurn(program, agenda, nextID)
<1>1. /\ Running /\ Launches(program, agenda) /\ ~EndsRoot(agenda)
      /\ UNCHANGED <<program, phase, records, halt, outcome>>
  BY DEF Launch, Takes, EndsRoot, AtItem, Launches, deployed, results
<1>2. Working(program, agenda, Allowed) /\ nextID \in Nat
  BY <1>1, NowWorking
<1>3. Allowed' = Allowed
  BY <1>1 DEF Allowed
<1>4. turn.asks.cause = None
  BY DEF LaunchTurn, Turn
<1>5. Frank(program, agenda, turn, Allowed) /\ Honest(program, turn.next["ok"], Allowed)
  BY <1>1, <1>2, LaunchFrank
<1>6. \/ Barred /\ agenda' = Stopped(program, agenda, turn) /\ UNCHANGED <<nextID, flying>>
      \/ ~Barred /\ halt # "no" /\ agenda' = Denied(program, agenda, turn) /\ UNCHANGED flying
      \/ /\ ~Barred /\ agenda' = turn.next["ok"]
         /\ flying' = flying \/ flying' = With(flying, nextID, turn.asks)
  BY DEF Launch
<1> HIDE DEF turn
<1>7. /\ Honest(program, Tail(agenda), Allowed)
      /\ Barred => Honest(program, Stopped(program, agenda, turn), Allowed)
      /\ Refused \in Allowed => Honest(program, Denied(program, agenda, turn), Allowed)
  BY <1>2, <1>5, AfterHonest DEF Barred
<1>8. nextID' > nextID => ~Barred
  BY <1>2, <1>6
<1>9. Cleanly
  BY <1>1, <1>7, <1>8, TakenCleanly
<1>10. Honest(program, agenda', Allowed)
  BY <1>5, <1>6, <1>7, AllowedIs
<1>11. \A id \in DOMAIN flying' : flying'[id].cause = None
  BY <1>4, <1>6 DEF Truthful, With
<1> QED BY <1>1, <1>3, <1>9, <1>10, <1>11 DEF Truthful, GenuineCauses, Running

LEMMA EndArmOrViaTruthful == ASSUME IInv, Truthful, EndArmOrVia PROVE Truthful' /\ Cleanly
<1>1. /\ Running /\ EndsIn(program, agenda, {"switch", "via"}) /\ ~EndsRoot(agenda)
      /\ Quiet(EndedArmOrVia(program, agenda)) /\ Head(agenda).op = "end"
  BY DEF EndArmOrVia, EndsIn, OwnedBy, EndsRoot
<1> QED BY <1>1, NowWorking, QuietEndsHonest, QuietTruthful

LEMMA EndIterationTruthful ==
    ASSUME IInv, IInv', Truthful, EndIteration PROVE Truthful' /\ Cleanly
<1> DEFINE turn == VerdictTurn(program, agenda)
<1>1. /\ Running /\ EndsIn(program, agenda, {"loop"}) /\ ~EndsRoot(agenda)
      /\ Head(agenda).op = "end"
  BY DEF EndIteration, EndsIn, OwnedBy, EndsRoot
<1>2. CASE Unjudged(agenda)
  <2>1. Quiet(EndedUnjudged(program, agenda))
    BY <1>2 DEF EndIteration
  <2> QED BY <1>1, <2>1, NowWorking, QuietEndsHonest, QuietTruthful
<1>3. CASE ~Unjudged(agenda)
  <2>1. RunStep(turn) /\ Untouched
    BY <1>3 DEF EndIteration
  <2>2. turn.asks.cause.kind \in Tellable
    BY DEF VerdictTurn, Turn, None, Failure, Tellable
  <2>3. Frank(program, agenda, turn, Allowed)
    BY <1>1, <1>3, NowWorking, VerdictFrank
  <2> HIDE DEF turn
  <2> QED BY <1>1, <2>1, <2>2, <2>3, StepTruthful
<1> QED BY <1>2, <1>3

LEMMA EndRescuedTruthful ==
    ASSUME IInv, IInv', Truthful, EndRescued PROVE Truthful' /\ Cleanly
<1> DEFINE turn == RescueTurn(program, agenda, nextID, live)
<1>1. /\ Running /\ EndsIn(program, agenda, {"rescue"}) /\ ~EndsRoot(agenda)
      /\ Head(agenda).op = "end"
  BY DEF EndRescued, EndsIn, OwnedBy, EndsRoot
<1>2. Working(program, agenda, Allowed) /\ nextID \in Nat
  BY <1>1, NowWorking
<1>3. CASE Head(agenda).cause = None
  <2>1. Quiet(EndedUnrescued(program, agenda))
    BY <1>3 DEF EndRescued
  <2> QED BY <1>1, <1>2, <1>3, <2>1, QuietEndsHonest, QuietTruthful
<1>4. CASE Head(agenda).cause # None
  <2>1. RunStep(turn) /\ Untouched
    BY <1>4 DEF EndRescued
  <2>2. Flagged(program, Head(agenda))
    BY <1>1 DEF Flagged, OwnsFlag, EndsIn
  <2>3. Head(agenda).cause.kind # "aborted" /\ Head(agenda).cause \in Allowed
    BY <1>2, <2>2, FlaggedCause DEF Working, Nested
  <2>4. halt = "no" => turn.asks.cause.kind \in Tellable
    <3>1. Head(agenda).cause \in Possible
      BY <2>3, AllowedIs
    <3>2. halt = "no" => Head(agenda).cause.kind # "refused"
      BY <2>3, AllowedIs
    <3>3. turn.asks.cause.kind = Head(agenda).cause.kind
      BY DEF RescueTurn, Turn, RescueCause
    <3> QED BY <1>4, <2>3, <3>1, <3>2, <3>3, PossibleIs DEF Real, Tellable
  <2>5. Frank(program, agenda, turn, Allowed)
    <3>1. MayGo(program, agenda) /\ EndsIn(program, agenda, {"rescue", "alongside"})
      BY <1>1, <2>2 DEF MayGo, EndsIn, OwnedBy
    <3> QED BY <1>1, <1>2, <3>1, HandlersFrank
  <2> HIDE DEF turn
  <2> QED BY <1>1, <2>1, <2>4, <2>5, StepTruthful
<1> QED BY <1>3, <1>4

LEMMA EndAlongsideTruthful ==
    ASSUME IInv, IInv', Truthful, EndAlongside PROVE Truthful' /\ Cleanly
<1> DEFINE side == Head(agenda).side
           cause == SideCause(records, side)
           turn == SideTurn(program, agenda, cause, live)
<1>1. /\ Running /\ EndsIn(program, agenda, {"alongside"}) /\ ~EndsRoot(agenda)
      /\ Head(agenda).op = "end" /\ side \notin DOMAIN flying
  BY DEF EndAlongside, EndsIn, OwnedBy, EndsRoot, Awaited
<1>2. Working(program, agenda, Allowed) /\ nextID \in Nat
  BY <1>1, NowWorking
<1>3. CASE Head(agenda).cause # None \/ cause = None
  <2>1. Quiet(EndedAwaited(program, agenda))
    BY <1>3 DEF EndAlongside
  <2> QED BY <1>1, <1>2, <2>1, QuietEndsHonest, QuietTruthful
<1>4. CASE Head(agenda).cause = None /\ cause # None
  <2>1. RunStep(turn) /\ Untouched
    BY <1>4 DEF EndAlongside
  <2>2. halt = "no" => turn.asks.cause.kind \in Tellable
    <3>1. ASSUME halt = "no" PROVE side \in DOMAIN records
      <4>1. 1 \in 1..Len(agenda) /\ Head(agenda) = agenda[1]
        BY <1>1, <1>2, HeadIs DEF Working
      <4>2. IsSide(program, agenda[1])
        BY <1>1, <4>1 DEF IsSide, EndsIn
      <4> QED BY <1>1, <3>1, <4>1, <4>2 DEF IInv, SidesTaken
    <3>2. halt = "no" => cause.kind \in Tellable
      BY <3>1 DEF SideCause, Failure, None, Tellable
    <3> QED BY <3>2 DEF SideTurn, Turn, RescueCause
  <2>3. Frank(program, agenda, turn, Allowed)
    <3>1. MayGo(program, agenda) /\ EndsIn(program, agenda, {"rescue", "alongside"})
      BY <1>1, <1>4 DEF MayGo, EndsIn, OwnedBy
    <3> QED BY <1>1, <1>2, <3>1, HandlersFrank
  <2> HIDE DEF turn
  <2> QED BY <1>1, <2>1, <2>2, <2>3, StepTruthful
<1> QED BY <1>3, <1>4

-----------------------------------------------------------------------------
(* Everything else does.                                                   *)

\* An execution begins with an honest agenda.
LEMMA InitialHonest ==
    ASSUME NEW p, WellFormed(p), NEW causes \in SUBSET Possible, None \in causes
    PROVE  Honest(p, Initial(p), causes)
<1> DEFINE at == <<"root", 1>>
           into == ItemInto(at, Item(0, 1))
           done == DoneInto(at)
           end == EndOfPipe(p, "root", Item(0, 1), 1, 0)
           two == <<into, done>>
           one == <<end>>
<1>1. /\ at \in Locations(p) /\ at \in Places(p) /\ at[1] = "root" /\ at[2] = 1 /\ at[2] \in Nat
      /\ "root" \in DOMAIN p
  <2>1. "root" \in DOMAIN p /\ p["root"] # <<>>
        /\ p["root"] \in Seq([kind : Kinds, subs : Seq(DOMAIN p \ {"root"}), max : Nat])
    BY DEF WellFormed
  <2>2. 1 \in 1..Len(p["root"])
    BY <2>1
  <2> QED BY <2>1, <2>2 DEF Locations, Places
<1>2. /\ end \in Tasks(p) /\ end.op = "end" /\ end.pipe = "root" /\ end.cause = None
      /\ end.failed = {} /\ ~end.aborted
  <2>1. end \in Ends(p)
    BY <1>1, EndOfPipeIs DEF Item, Items
  <2> QED BY <2>1 DEF Tasks, EndOfPipe
<1>3. /\ into \in Tasks(p) /\ done \in Tasks(p) /\ into.op # "end" /\ done.op # "end"
      /\ into.at = at /\ done.at = at
  BY <1>1 DEF ItemInto, DoneInto, Item, Items, Tasks
<1>4. Initial(p) = <<into, done, end>>
  BY DEF Initial, Start
<1> HIDE DEF into, done, end, at
<1>5. <<into, done, end>> = two \o one
  BY <1>2, <1>3
<1>6. /\ two \in Seq(Tasks(p)) /\ Len(two) = 2
      /\ \A i \in 1..2 : two[i].op # "end" /\ two[i].at = at
  BY <1>3
<1>7. one \in Seq(Tasks(p)) /\ Len(one) = 1 /\ one[1] = end /\ \A i \in 1..1 : one[i] = end
  BY <1>2
<1> HIDE DEF two, one
<1>8. Neat(p, one)
  BY <1>2, <1>7 DEF Neat, OneEach, Sorted, Bracketed, Stopping, Passing, Blamed
<1>9. Candid(p, one)
  BY <1>2, <1>7 DEF Candid, AbortsMeant, AbortedBehind, FailuresAbort, None, Failure
<1>10. Honest(p, one, causes)
  BY <1>2, <1>7, <1>8, <1>9 DEF Honest, CausesIn
<1>11. Fits(p, one, at)
  <2>1. EndIn(one, at[1])
    BY <1>1, <1>2, <1>7 DEF EndIn, IsEnd
  <2> QED BY <1>1, <1>2, <1>7, <2>1 DEF Fits, IsEnd
<1> DEFINE new == two \o one
<1>12. Ahead(p, new, one, 2) /\ \A i \in 1..2 : new[i] = two[i]
  <2>1. /\ Ahead(p, two \o one, one, Len(two))
        /\ \A i \in 1..Len(two) : (two \o one)[i] = two[i]
    BY <1>6, <1>7, PutAhead
  <2> QED BY <1>6, <2>1
<1> HIDE DEF new
<1>13. Honest(p, new, causes)
  BY <1>1, <1>6, <1>10, <1>11, <1>12, PushedHonest
<1> QED BY <1>4, <1>5, <1>13 DEF new

LEMMA EndRunTruthful == ASSUME IInv, Truthful, EndRun PROVE Truthful' /\ Cleanly
<1>1. /\ Running /\ EndsRoot(agenda) /\ phase' = "ended" /\ outcome' = Outcome(agenda)
      /\ UNCHANGED <<nextID, records, flying>>
  BY DEF EndRun, database
<1>2. /\ agenda \in Seq(Tasks(program)) /\ Nested(program, agenda) /\ nextID \in Nat
      /\ Honest(program, agenda, Allowed)
  BY <1>1, Executing DEF Truthful
<1>3. Flagged(program, Head(agenda)) /\ agenda # <<>>
  BY <1>1, <1>2 DEF EndsRoot, Flagged, OwnsFlag, Nested
<1>4. outcome'.cause.kind # "aborted"
  <2>1. Head(agenda).cause.kind # "aborted"
    BY <1>2, <1>3, FlaggedCause
  <2> QED BY <1>1, <2>1 DEF Outcome
<1>5. ~(nextID' > nextID)
  BY <1>1, <1>2
<1> QED BY <1>1, <1>4, <1>5 DEF Truthful, GenuineCauses, Running, Cleanly

LEMMA SideReturnsTruthful == ASSUME IInv, Truthful, SideReturns PROVE Truthful' /\ Cleanly
<1>1. PICK id \in DOMAIN flying :
          /\ flying' = Restrict(flying, DOMAIN flying \ {id})
          /\ \/ \E result \in {"ok", "error"} :
                   records' = With(records, id, [asked |-> flying[id], result |-> result])
             \/ UNCHANGED records
  BY DEF SideReturns
<1>2. UNCHANGED <<program, phase, agenda, nextID, halt, outcome>>
  BY DEF SideReturns, deployed, results
<1>3. Allowed' = Allowed
  BY <1>2 DEF Allowed
<1>4. \A n \in DOMAIN flying' : flying'[n].cause = None
  BY <1>1 DEF Restrict, Truthful
<1>5. \A n \in DOMAIN records' : records'[n].asked.cause.kind \in Tellable
  BY <1>1 DEF With, Truthful, GenuineCauses, Tellable, None, Failure
<1>6. ~(nextID' > nextID)
  BY <1>2 DEF IInv, TypeOK
<1> QED BY <1>2, <1>3, <1>4, <1>5, <1>6 DEF Truthful, GenuineCauses, Running, Cleanly, Tellable

LEMMA BeginTruthful == ASSUME IInv, Truthful, Begin PROVE Truthful' /\ Cleanly
<1>1. /\ phase = "pending" /\ UNCHANGED <<records, flying, halt>>
      /\ phase' = "running" => agenda' = Initial(program')
      /\ UNCHANGED outcome \/ outcome' = [NoOutcome EXCEPT !.kind = "shape"]
  BY DEF Begin, database
<1>2. program' \in Programs
  BY DEF Begin, IInv, TypeOK
<1>3. outcome'.cause.kind # "aborted"
  BY <1>1 DEF Truthful, GenuineCauses, NoOutcome, None, Failure
<1>4. Running' => Honest(program', agenda', Allowed')
  <2>1. Allowed' \in SUBSET Possible /\ None \in Allowed'
    BY DEF Allowed, Possible
  <2>2. WellFormed(program')
    BY <1>2, ReplayAssumption
  <2>3. Honest(program', Initial(program'), Allowed')
    BY <2>1, <2>2, InitialHonest
  <2> QED BY <1>1, <2>3 DEF Running
<1> QED BY <1>1, <1>3, <1>4 DEF Truthful, GenuineCauses, Running, Cleanly

LEMMA HaltTruthful == ASSUME IInv, Truthful, Halt PROVE Truthful' /\ Cleanly
<1>1. /\ Running /\ halt = "no" /\ UNCHANGED <<program, agenda, nextID, records, flying, outcome>>
  BY DEF Halt, Running, deployed, database, results
<1>2. Allowed \subseteq Allowed'
  BY <1>1 DEF Allowed
<1>3. Honest(program, agenda, Allowed')
  BY <1>1, <1>2 DEF Truthful, Honest, CausesIn
<1>4. ~(nextID' > nextID)
  BY <1>1 DEF IInv, TypeOK
<1> QED BY <1>1, <1>3, <1>4 DEF Truthful, GenuineCauses, Running, Cleanly

\* The run between its executions.
LEMMA RestTruthful ==
    ASSUME IInv, Truthful, RecordOutcome \/ Crash \/ Fork PROVE Truthful' /\ Cleanly
<1>1. /\ phase' # "running" /\ UNCHANGED nextID
      /\ outcome' = NoOutcome \/ UNCHANGED outcome
      /\ flying' = flying \/ flying' = <<>>
      /\ UNCHANGED records \/ Fork
  BY DEF RecordOutcome, Crash, Fork, PhaseAfter, database, results
<1>2. outcome'.cause.kind # "aborted"
  BY <1>1 DEF Truthful, GenuineCauses, NoOutcome, None, Failure
<1>3. \A n \in DOMAIN flying' : flying'[n].cause = None
  BY <1>1 DEF Truthful
<1>4. \A n \in DOMAIN records' : records'[n].asked.cause.kind \in Tellable
  <2>1. CASE UNCHANGED records
    BY <2>1 DEF Truthful, GenuineCauses, Tellable
  <2>2. CASE Fork
    <3>1. PICK at \in {records[id].asked.at : id \in DOMAIN records} :
              LET first == Min({id \in DOMAIN records : records[id].asked.at = at})
              IN  records' = Restrict(records, {id \in DOMAIN records : id < first})
      BY <2>2 DEF Fork
    <3> DEFINE first == Min({id \in DOMAIN records : records[id].asked.at = at})
               kept == {id \in DOMAIN records : id < first}
    <3>2. records' = Restrict(records, kept) /\ kept \subseteq DOMAIN records
      BY <3>1
    <3> HIDE DEF kept
    <3>3. DOMAIN records' = kept /\ \A n \in kept : records'[n] = records[n]
      BY <3>2 DEF Restrict
    <3> QED BY <3>2, <3>3 DEF Truthful, GenuineCauses, Tellable
  <2> QED BY <1>1, <2>1, <2>2
<1>5. ~(nextID' > nextID)
  BY <1>1 DEF IInv, TypeOK
<1> QED BY <1>1, <1>2, <1>3, <1>4, <1>5 DEF Truthful, GenuineCauses, Running, Cleanly, Tellable

-----------------------------------------------------------------------------
(* The theorems about failures.                                            *)

\* A new run.
LEMMA InitTruthful == Init => Truthful
BY DEF Init, Truthful, Running, GenuineCauses, NoOutcome, None, Failure

\* Every step.
LEMMA NextTruthful ==
    ASSUME IInv, IInv', Truthful, [Next]_vars PROVE Truthful' /\ (Cleanly \/ UNCHANGED vars)
<1>1. CASE UNCHANGED vars
  <2>1. UNCHANGED <<program, phase, agenda, records, flying, halt, outcome>>
    BY <1>1 DEF vars
  <2>2. Allowed' = Allowed
    BY <2>1 DEF Allowed
  <2> QED BY <1>1, <2>1, <2>2 DEF Truthful, Running, GenuineCauses
<1>2. CASE Goroutine
  BY <1>2, DropTruthful, LeaveTruthful, CompleteTruthful, CloseStreamTruthful, PlainStageTruthful,
     AccumulateTruthful, DispatchTruthful, EmbedTruthful, LaunchTruthful, EndArmOrViaTruthful,
     EndIterationTruthful, EndRescuedTruthful, EndAlongsideTruthful, EndRunTruthful DEF Goroutine
<1>3. CASE Next /\ ~Goroutine
  BY <1>3, SideReturnsTruthful, BeginTruthful, HaltTruthful, RestTruthful DEF Next
<1> QED BY <1>1, <1>2, <1>3

\* What the agenda says of failures stays true.
THEOREM TellsTheTruth == Spec => []Truthful
<1>1. IInv /\ IInv' /\ Truthful /\ [Next]_vars => Truthful'
  BY NextTruthful
<1> QED BY Inductive, InitTruthful, <1>1, PTL DEF Spec

\* An abort never surfaces from Run, and no handler is recorded for it or for an
\* execution that was stopped or cancelled (ErrAborted, duro.go 133-136).
THEOREM NamesTheCause == Spec => []GenuineCauses
<1>1. Truthful => GenuineCauses
  BY DEF Truthful
<1> QED BY TellsTheTruth, <1>1, PTL

\* A step is taken only where no stage behind it failed that no Rescue took up, but
\* for Loops that gave up: those do not raise the abort flag (Loop, Run).
THEOREM StepsCleanly == Spec => FailFastButLoops
<1> DEFINE Fast == phase = "running" /\ nextID' > nextID =>
                       \A i \in 2..Scope(program, Tail(agenda)) + 1 :
                           agenda[i].op = "end" => agenda[i].cause \in {None, MaxIterations}
<1>1. IInv /\ IInv' /\ Truthful /\ [Next]_vars => [Fast]_vars
  <2>1. Cleanly => Fast
    BY DEF Cleanly, Clean, Running
  <2> QED BY <2>1, NextTruthful
<1> QED BY Inductive, TellsTheTruth, <1>1, PTL DEF Spec, FailFastButLoops

\* Where no Loop is bounded, no step is taken behind a failure (duro.go 32-35).
THEOREM FailsFast ==
    ASSUME \A p \in Programs : ~Bounded(p)
    PROVE  Spec => FailFast
<1> DEFINE Fast == phase = "running" /\ nextID' > nextID =>
                       \A i \in 2..Scope(program, Tail(agenda)) + 1 :
                           agenda[i].op = "end" => agenda[i].cause = None
<1>1. IInv /\ IInv' /\ Truthful /\ [Next]_vars => [Fast]_vars
  <2> SUFFICES ASSUME IInv, IInv', Truthful, [Next]_vars, Cleanly, Running, nextID' > nextID,
                      NEW i \in 2..Scope(program, Tail(agenda)) + 1, agenda[i].op = "end"
               PROVE  agenda[i].cause = None
    BY NextTruthful DEF Running
  <2>1. agenda[i].cause \in {None, MaxIterations} \cap Allowed
    BY DEF Cleanly, Clean
  <2>2. ~Bounded(program)
    BY Executing
  <2> QED BY <2>1, <2>2, AllowedIs
<1> QED BY Inductive, TellsTheTruth, <1>1, PTL DEF Spec, FailFast
=============================================================================
