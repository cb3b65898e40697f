---------------------- MODULE DebuggerDiscipline_proof ----------------------
(* For any OS threads, VMs and disciplined programs: what the debugger shows   *)
(* is the thread that is stopped, a breakpoint stops its thread once, and a    *)
(* step ends where the user asked.                                             *)
EXTENDS DebuggerDiscipline, SequenceLemmas, SequenceTheorems, TLAPS

IsProgram(q) == \E p \in DOMAIN Programs : q = Programs[p]

----------------------------------------------------------------------------
(* Functions and stacks of frames.                                             *)

\* What the assumption on programs says of a function.
LEMMA CodeFacts ==
  ASSUME NEW q, IsProgram(q), NEW f \in DOMAIN q.code
  PROVE  /\ Len(q.code[f]) \in Nat /\ Len(q.code[f]) >= 1
         /\ q.code[f][Len(q.code[f])].op \in {"return", "loop", "error"}
         /\ \A i \in 1..Len(q.code[f]) :
              /\ i \in DOMAIN q.code[f] /\ q.code[f][i].line \in Int
              /\ q.code[f][i].op \in {"call", "meta", "engine", "coroutine"} => q.code[f][i].to \in DOMAIN q.code
<1>1. PICK p \in DOMAIN Programs : q = Programs[p]
  BY DEF IsProgram
<1>2. q.code[f] \in Seq([line : Int, op : STRING, to : DOMAIN q.code \cup {None}])
  BY <1>1, ProgramAssumption
<1>3. q.code[f] # << >> /\ Last(q.code[f]).op \in {"return", "loop", "error"}
  BY <1>1, ProgramAssumption
<1>4. \A i \in DOMAIN q.code[f] :
        q.code[f][i].op \in {"call", "meta", "engine", "coroutine"} => q.code[f][i].to \in DOMAIN q.code
  BY <1>1, ProgramAssumption
<1>5. Len(q.code[f]) \in Nat /\ Len(q.code[f]) >= 1 /\ Last(q.code[f]) = q.code[f][Len(q.code[f])]
  BY <1>2, <1>3, FrontFacts
<1>6. DOMAIN q.code[f] = 1..Len(q.code[f]) /\ \A i \in 1..Len(q.code[f]) : q.code[f][i].line \in Int
  <2> DEFINE c == q.code[f]
             I == [line : Int, op : STRING, to : DOMAIN q.code \cup {None}]
  <2>1. c \in Seq(I) /\ \A x \in I : x.line \in Int
    BY <1>2
  <2> HIDE DEF c, I
  <2>2. DOMAIN c = 1..Len(c) /\ \A i \in 1..Len(c) : c[i] \in I
    BY <2>1, ElementOfSeq, LenProperties
  <2> QED BY <2>1, <2>2 DEF c
<1> QED BY <1>3, <1>4, <1>5, <1>6

\* What is known of each frame.
LEMMA FrameFacts ==
  ASSUME NEW q, NEW meta, NEW frames \in Seq(FrameType(q)), FramesOK(q, meta, frames)
  PROVE  /\ Len(frames) \in Nat /\ Len(frames) >= 1 /\ Len(frames) \in 1..Len(frames)
         /\ Last(frames) = frames[Len(frames)] /\ frames # << >>
         /\ \A i \in 1..Len(frames) :
              /\ frames[i] \in FrameType(q) /\ frames[i].f \in DOMAIN q.code
              /\ frames[i].pc \in 1..Len(q.code[frames[i].f])
<1>1. /\ Len(frames) \in Nat /\ Len(frames) >= 1 /\ Last(frames) = frames[Len(frames)]
      /\ frames # << >>
  BY EmptySeq, FrontFacts DEF FramesOK
<1>2. \A i \in 1..Len(frames) : frames[i] \in FrameType(q)
  OBVIOUS
<1>3. \A x \in FrameType(q) : x.f \in DOMAIN q.code
  BY DEF FrameType
<1> QED BY <1>1, <1>2, <1>3 DEF FramesOK

\* The next frames of a thread: the innermost function goes on at pc.
Moved(frames, next, pc) ==
  /\ Len(next) = Len(frames)
  /\ \A i \in 1..(Len(frames) - 1) : next[i] = frames[i]
  /\ next[Len(frames)].f = frames[Len(frames)].f /\ next[Len(frames)].meta = frames[Len(frames)].meta
  /\ next[Len(frames)].pc = pc

\* It goes on within its function.
LEMMA FramesMoved ==
  ASSUME NEW q, NEW meta, NEW frames \in Seq(FrameType(q)), FramesOK(q, meta, frames),
         NEW next \in Seq(FrameType(q)), NEW pc \in 1..Len(q.code[frames[Len(frames)].f]), Moved(frames, next, pc)
  PROVE  FramesOK(q, meta, next)
<1>1. Len(frames) \in Nat /\ Len(frames) >= 1 /\ next # << >>
  BY EmptySeq DEF FramesOK, Moved
<1>2. ASSUME NEW i \in 1..Len(frames)
      PROVE  next[i].f = frames[i].f /\ next[i].meta = frames[i].meta /\ next[i].pc \in 1..Len(q.code[next[i].f])
  BY <1>1, SMTT(30) DEF FramesOK, Moved
<1>3. ASSUME NEW i \in 1..(Len(frames) - 1) PROVE Ins(q, next[i]).op \in {"call", "meta"}
  BY <1>1 DEF FramesOK, Moved
<1> QED BY <1>1, <1>2, <1>3 DEF FramesOK, Moved

\* An instruction that is not the last of its function has one after it.
LEMMA NextInstruction ==
  ASSUME NEW q, IsProgram(q), NEW meta, NEW frames \in Seq(FrameType(q)), FramesOK(q, meta, frames),
         Ins(q, frames[Len(frames)]).op \notin {"return", "loop", "error"}
  PROVE  frames[Len(frames)].pc + 1 \in 1..Len(q.code[frames[Len(frames)].f])
<1> DEFINE fr == frames[Len(frames)]
<1>1. Len(frames) \in Nat /\ Len(frames) >= 1
  BY EmptySeq DEF FramesOK
<1>2. fr \in FrameType(q) /\ fr.f \in DOMAIN q.code /\ fr.pc \in 1..Len(q.code[fr.f])
  BY <1>1, FrameFacts
<1>3. Len(q.code[fr.f]) \in Nat /\ fr.pc # Len(q.code[fr.f])
  BY <1>2, CodeFacts DEF Ins
<1> QED BY <1>2, <1>3

\* A function calls another.
LEMMA FramesCalled ==
  ASSUME NEW q, IsProgram(q), NEW meta, MetaCode(q, meta), NEW frames \in Seq(FrameType(q)),
         FramesOK(q, meta, frames), Ins(q, frames[Len(frames)]).op \in {"call", "meta"}
  PROVE  LET next == Append(frames, Frame(Ins(q, frames[Len(frames)]).to, Ins(q, frames[Len(frames)]).op = "meta")) IN
         next \in Seq(FrameType(q)) /\ FramesOK(q, meta, next)
<1> DEFINE fr == frames[Len(frames)]
           i == Ins(q, fr)
           new == Frame(i.to, i.op = "meta")
           next == Append(frames, new)
           n == Len(frames)
<1>1. n \in Nat /\ n >= 1
  BY EmptySeq DEF FramesOK
<1>2. fr.f \in DOMAIN q.code /\ fr.pc \in 1..Len(q.code[fr.f])
  BY <1>1, FrameFacts
<1>3. i.to \in DOMAIN q.code /\ fr.pc \in DOMAIN q.code[fr.f]
  BY <1>2, CodeFacts DEF Ins
<1>4. new \in FrameType(q) /\ new.f = i.to /\ new.pc = 1 /\ new.meta = (i.op = "meta")
  BY <1>3 DEF Frame, FrameType
<1> HIDE DEF new, i
<1>5. /\ next \in Seq(FrameType(q)) /\ Len(next) = n + 1 /\ next # << >>
      /\ next[n + 1] = new /\ \A k \in 1..n : next[k] = frames[k]
  BY <1>1, <1>4
<1> HIDE DEF next
<1>6. \A k \in 1..(n + 1) : next[k].pc \in 1..Len(q.code[next[k].f])
  <2>1. new.pc \in 1..Len(q.code[new.f])
    BY <1>3, <1>4, CodeFacts
  <2> QED BY <1>1, <1>5, <2>1, SMTT(30) DEF FramesOK
<1>7. \A k \in 1..n : Ins(q, next[k]).op \in {"call", "meta"}
  BY <1>1, <1>5 DEF FramesOK, i
<1>8. new.meta => new.f \in meta /\ q.commands \subseteq {"continue"}
  <2>1. i.op = "meta" => i.to \in meta /\ q.commands \subseteq {"continue"}
    BY <1>2, <1>3 DEF MetaCode, i, Ins
  <2> QED BY <1>4, <2>1
<1>9. ASSUME NEW k \in 1..n, frames[k].meta PROVE new.f \in meta
  <2>1. fr.f \in meta
    BY <1>1, <1>9 DEF FramesOK
  <2>2. i.op = "call" => i.to \in meta
    BY <1>3, <2>1 DEF MetaCode, i, Ins
  <2>3. i.op = "meta" => i.to \in meta
    BY <1>4, <1>8
  <2> QED BY <1>4, <2>2, <2>3 DEF i
<1>10. ASSUME NEW k \in 1..(n + 1), NEW l \in 1..(n + 1), k <= l, next[k].meta
       PROVE  next[l].f \in meta
  <2>1. CASE l <= n
    BY <1>1, <1>5, <1>10, <2>1 DEF FramesOK
  <2>2. CASE l = n + 1 /\ k <= n
    BY <1>1, <1>5, <1>9, <1>10, <2>2
  <2>3. CASE l = n + 1 /\ k = n + 1
    BY <1>5, <1>8, <1>10, <2>3
  <2> QED BY <1>1, <2>1, <2>2, <2>3
<1>11. ASSUME NEW k \in 1..(n + 1), next[k].meta PROVE q.commands \subseteq {"continue"}
  <2>1. CASE k <= n
    BY <1>1, <1>5, <1>11, <2>1 DEF FramesOK
  <2>2. CASE k = n + 1
    BY <1>5, <1>8, <1>11, <2>2
  <2> QED BY <1>1, <2>1, <2>2
<1>12. FramesOK(q, meta, next)
  <2>1. Len(next) - 1 = n
    BY <1>1, <1>5
  <2> QED BY <1>5, <1>6, <1>7, <1>10, <1>11, <2>1 DEF FramesOK
<1> QED BY <1>5, <1>12 DEF next, new, i

\* The innermost function returns to the one that called it.
LEMMA FramesReturned ==
  ASSUME NEW q, NEW meta, NEW frames \in Seq(FrameType(q)), FramesOK(q, meta, frames), Len(frames) # 1
  PROVE  /\ Front(frames) \in Seq(FrameType(q)) /\ FramesOK(q, meta, Front(frames))
         /\ Len(Front(frames)) = Len(frames) - 1 /\ Len(frames) \in Nat /\ Len(frames) >= 2
         /\ \A i \in 1..(Len(frames) - 1) : Front(frames)[i] = frames[i]
         /\ Ins(q, frames[Len(frames) - 1]).op \in {"call", "meta"}
<1>1. /\ Front(frames) \in Seq(FrameType(q)) /\ Len(Front(frames)) = Len(frames) - 1
      /\ Len(frames) \in Nat /\ Len(frames) >= 2
      /\ \A i \in 1..(Len(frames) - 1) : Front(frames)[i] = frames[i]
  <2>1. frames # << >>
    BY DEF FramesOK
  <2>2. /\ Front(frames) \in Seq(FrameType(q)) /\ Len(Front(frames)) = Len(frames) - 1
        /\ Len(frames) \in Nat /\ Len(frames) >= 1
        /\ \A i \in 1..(Len(frames) - 1) : Front(frames)[i] = frames[i]
    BY <2>1, FrontFacts
  <2> QED BY <2>2
<1> DEFINE next == Front(frames)
<1> HIDE DEF next
<1>2. next # << >> /\ Len(next) = Len(frames) - 1 /\ \A i \in 1..(Len(frames) - 1) : next[i] = frames[i]
  BY <1>1 DEF next
<1>3. FramesOK(q, meta, next)
  BY <1>1, <1>2 DEF FramesOK
<1> QED BY <1>1, <1>3 DEF next, FramesOK

----------------------------------------------------------------------------
(* The threads of an OS thread: what a step makes of them.                     *)

\* Only those of o change.
OnlyOf(o) == DOMAIN runs' = OSThreads /\ \A p \in OSThreads \ {o} : runs'[p] = runs[p]

\* The innermost one is u now.
Retop(q, o, u) ==
  /\ OnlyOf(o) /\ runs'[o] \in Seq(RunType(q)) /\ Len(runs'[o]) = Len(runs[o])
  /\ \A i \in 1..(Len(runs[o]) - 1) : runs'[o][i] = runs[o][i]
  /\ runs'[o][Len(runs[o])] = u

\* And n is above it.
Push(q, o, u, n) ==
  /\ OnlyOf(o) /\ runs'[o] \in Seq(RunType(q)) /\ Len(runs'[o]) = Len(runs[o]) + 1
  /\ \A i \in 1..(Len(runs[o]) - 1) : runs'[o][i] = runs[o][i]
  /\ runs'[o][Len(runs[o])] = u /\ runs'[o][Len(runs[o]) + 1] = n

\* The innermost one is no more, and the one that called it goes on.
DropOf(q, o, s) ==
  LET z == runs'[o] IN
  /\ OnlyOf(o) /\ z \in Seq(RunType(q)) /\ Len(z) = Len(s) - 1
  /\ \A i \in 1..(Len(s) - 2) : z[i] = s[i]
  /\ Len(s) >= 2 => z[Len(s) - 1] = Woken(s[Len(s) - 1], s[Len(s)])
Drop(q, o) == DropOf(q, o, runs[o])

StacksOK(q, meta, rs, t, ld) ==
  DOMAIN rs = OSThreads /\ (\A o \in OSThreads : StackOK(q, meta, rs[o], t, ld)) /\ Apart(rs)

\* What is known of the innermost thread.
LEMMA TopFacts ==
  ASSUME NEW q, NEW meta, NEW t, NEW ld, StacksOK(q, meta, runs, t, ld), NEW o \in OSThreads, Busy(o)
  PROVE  /\ runs[o] \in Seq(RunType(q)) /\ Len(runs[o]) \in Nat /\ Len(runs[o]) >= 1
         /\ Len(runs[o]) \in 1..Len(runs[o]) /\ Top(o) = runs[o][Len(runs[o])] /\ Top(o) \in RunType(q)
         /\ RunOK(q, meta, Top(o), t, ld)
<1>1. runs[o] \in Seq(RunType(q)) /\ runs[o] # << >>
  BY DEF StacksOK, StackOK, Busy
<1>2. /\ Len(runs[o]) \in Nat /\ Len(runs[o]) >= 1 /\ Last(runs[o]) = runs[o][Len(runs[o])]
      /\ Last(runs[o]) \in RunType(q)
  BY <1>1, FrontFacts
<1> QED BY <1>1, <1>2 DEF StacksOK, StackOK, Top

\* WithTop, by positions.
LEMMA WithTopFacts ==
  ASSUME NEW R, NEW s \in Seq(R), s # << >>, NEW u \in R
  PROVE  /\ WithTop(s, u) \in Seq(R) /\ Len(WithTop(s, u)) = Len(s) /\ WithTop(s, u) # << >>
         /\ \A i \in 1..(Len(s) - 1) : WithTop(s, u)[i] = s[i]
         /\ WithTop(s, u)[Len(s)] = u
<1> DEFINE f == Front(s)
<1>1. f \in Seq(R) /\ Len(f) = Len(s) - 1 /\ Len(s) \in Nat /\ \A j \in 1..(Len(s) - 1) : f[j] = s[j]
  BY FrontFacts
<1> HIDE DEF f
<1>2. /\ Append(f, u) \in Seq(R) /\ Len(Append(f, u)) = Len(f) + 1
      /\ \A j \in 1..Len(f) : Append(f, u)[j] = f[j]
      /\ Append(f, u)[Len(f) + 1] = u
  BY <1>1
<1>3. WithTop(s, u) = Append(f, u)
  BY DEF WithTop, f
<1> QED BY <1>1, <1>2, <1>3

\* SetTop puts u there.
LEMMA SetTopRetops ==
  ASSUME NEW q, DOMAIN runs = OSThreads, NEW o \in OSThreads, runs[o] \in Seq(RunType(q)), Busy(o),
         NEW u \in RunType(q), SetTop(o, u)
  PROVE  Retop(q, o, u)
<1>1. runs'[o] = WithTop(runs[o], u) /\ OnlyOf(o)
  BY DEF SetTop, OnlyOf
<1>2. runs[o] # << >>
  BY DEF Busy
<1> QED BY <1>1, <1>2, WithTopFacts DEF Retop

\* A thread is put above the one that waits, or that is shown.
LEMMA AppendPushes ==
  ASSUME NEW q, DOMAIN runs = OSThreads, NEW o \in OSThreads, runs[o] \in Seq(RunType(q)), Busy(o),
         NEW u \in RunType(q), NEW n \in RunType(q),
         runs' = [runs EXCEPT ![o] = Append(WithTop(@, u), n)]
  PROVE  Push(q, o, u, n)
<1> DEFINE w == WithTop(runs[o], u)
<1>1. runs'[o] = Append(w, n) /\ OnlyOf(o)
  BY DEF OnlyOf
<1>2. /\ w \in Seq(RunType(q)) /\ Len(w) = Len(runs[o]) /\ Len(w) \in Nat
      /\ \A i \in 1..(Len(runs[o]) - 1) : w[i] = runs[o][i]
      /\ w[Len(runs[o])] = u /\ Len(runs[o]) >= 1
  <2>1. runs[o] # << >>
    BY DEF Busy
  <2>2. Len(runs[o]) \in Nat /\ Len(runs[o]) >= 1
    BY <2>1, EmptySeq
  <2> QED BY <2>1, <2>2, WithTopFacts
<1> HIDE DEF w
<1>3. /\ Append(w, n) \in Seq(RunType(q)) /\ Len(Append(w, n)) = Len(w) + 1
      /\ \A i \in 1..Len(w) : Append(w, n)[i] = w[i]
      /\ Append(w, n)[Len(w) + 1] = n
  BY <1>2
<1>4. \A i \in 1..(Len(runs[o]) - 1) : i \in 1..Len(w)
  BY <1>2
<1>5. Len(runs[o]) \in 1..Len(w)
  BY <1>2
<1>6. runs'[o] \in Seq(RunType(q)) /\ Len(runs'[o]) = Len(runs[o]) + 1
  BY <1>1, <1>2, <1>3
<1>7. \A i \in 1..(Len(runs[o]) - 1) : runs'[o][i] = runs[o][i]
  BY <1>1, <1>2, <1>3, <1>4
<1>8. runs'[o][Len(runs[o])] = u /\ runs'[o][Len(runs[o]) + 1] = n
  BY <1>1, <1>2, <1>3, <1>5
<1> QED BY <1>1, <1>6, <1>7, <1>8 DEF Push

\* The thread r goes on, at the instruction that u has.
GoesOn(r, u) ==
  /\ u.thread = r.thread /\ u.vm = r.vm /\ u.kind = r.kind /\ u.error = r.error
  /\ u.level = r.level /\ u.found = r.found /\ u.step = r.step
  /\ u.at = "step" /\ u.hooked = FALSE /\ u.stops = 0

\* The thread r is elsewhere in its instruction, or ended in it.
Stays(r, u) ==
  /\ u.thread = r.thread /\ u.vm = r.vm /\ u.kind = r.kind
  /\ u.frames = r.frames

\* It waits, or has ended.
Halts(r, u, at) == Stays(r, u) /\ u.at = at /\ u.hooked = r.hooked /\ u.stops = r.stops /\ u.step = r.step
Waits(r, u) == Halts(r, u, "wait") /\ u.error = r.error /\ u.broke = r.broke
Ends(r, u) == Halts(r, u, "dead") /\ u.error # None /\ u.broke = r.broke

\* The functions of a thread are the same.
SameFunctions(r, u) ==
  Len(u.frames) = Len(r.frames) /\ \A k \in 1..Len(r.frames) : u.frames[k].f = r.frames[k].f

\* What called d, which is done: it goes on, or ends if the break of d is in a
\* call of C.
Wakes(r, d, u) ==
  \/ GoesOn(r, u) /\ SameFunctions(r, u) /\ (~d.broke => u.broke = r.broke)
  \/ d.broke /\ Ends(r, u)

\* A thread that goes on, with frames that are in order.
LEMMA GoesOnOK ==
  ASSUME NEW q, NEW meta, NEW t, NEW ld, NEW r, RunOK(q, meta, r, t, ld), r.error = None, r.at # "walk",
         NEW u \in RunType(q), GoesOn(r, u), FramesOK(q, meta, u.frames), u.deadline = r.deadline
  PROVE  RunOK(q, meta, u, t, ld)
<1>1. u.frames \in Seq(FrameType(q))
  BY DEF RunType
<1>2. Len(u.frames) \in Nat
  BY <1>1
<1> QED BY <1>2 DEF RunOK, GoesOn

\* One that stays.
LEMMA StaysOK ==
  ASSUME NEW q, NEW meta, NEW t, NEW ld, NEW r, RunOK(q, meta, r, t, ld), NEW u \in RunType(q), Stays(r, u),
         u.deadline = r.deadline, u.level <= Len(u.frames), u.at # "walk" => u.level = 0 /\ ~u.found,
         u.at = "wait" => Ins(q, Last(u.frames)).op \in {"engine", "coroutine"},
         u.error # None => u.at \in {"dead", "walk", "debug"} /\ (u.at = "walk" => ~u.step),
         u.at = "dead" => u.error # None
  PROVE  RunOK(q, meta, u, t, ld)
<1> QED BY DEF RunOK, Stays

\* Advanced, by fields.
LEMMA AdvancedFacts ==
  ASSUME NEW q, NEW meta, NEW r \in RunType(q), FramesOK(q, meta, r.frames)
  PROVE  /\ Advanced(r) \in RunType(q) /\ GoesOn(r, Advanced(r)) /\ Advanced(r).deadline = r.deadline
         /\ Advanced(r).broke = r.broke
         /\ Moved(r.frames, Advanced(r).frames, r.frames[Len(r.frames)].pc + 1)
<1> DEFINE n == Len(r.frames)
           fs == [r.frames EXCEPT ![n] = [r.frames[n] EXCEPT !.pc = r.frames[n].pc + 1]]
<1>1. r.frames \in Seq(FrameType(q))
  BY DEF RunType
<1>2. n \in Nat /\ n >= 1 /\ n \in 1..n /\ r.frames[n] \in FrameType(q)
  BY <1>1, FrameFacts
<1>3. /\ Advanced(r).frames = fs /\ GoesOn(r, Advanced(r)) /\ Advanced(r).deadline = r.deadline
      /\ Advanced(r).broke = r.broke
  BY DEF Advanced, GoesOn, RunType, Depth
<1>4. r.frames[n].pc + 1 \in Nat
  BY <1>2 DEF FrameType
<1>5. [r.frames[n] EXCEPT !.pc = r.frames[n].pc + 1] \in FrameType(q)
  BY <1>2, <1>4 DEF FrameType
<1>6. fs \in Seq(FrameType(q)) /\ Len(fs) = n
  BY <1>1, <1>2, <1>5
<1>7. Moved(r.frames, fs, r.frames[n].pc + 1)
  <2>1. fs[n] = [r.frames[n] EXCEPT !.pc = r.frames[n].pc + 1]
    BY <1>1, <1>2
  <2>2. \A i \in 1..(n - 1) : fs[i] = r.frames[i]
    BY <1>1, <1>2
  <2> QED BY <1>2, <1>6, <2>1, <2>2 DEF Moved, FrameType
<1>8. Advanced(r) = [r EXCEPT !.frames = fs, !.at = "step", !.hooked = FALSE, !.stops = 0]
  BY DEF Advanced, Depth, RunType
<1> HIDE DEF fs
<1>9. Advanced(r) \in RunType(q)
  <2> DEFINE S == Seq(FrameType(q))
  <2>1. fs \in S
    BY <1>6
  <2> HIDE DEF S
  <2>2. \A x \in RunType(q) : [x EXCEPT !.frames = fs, !.at = "step", !.hooked = FALSE, !.stops = 0] \in RunType(q)
    BY <2>1 DEF RunType, S
  <2> QED BY <1>8, <2>2, Zenon
<1> QED BY <1>3, <1>7, <1>9

\* A thread that goes on after an instruction that is not the last.
LEMMA AdvancedOK ==
  ASSUME NEW q, IsProgram(q), NEW meta, NEW t, NEW ld, NEW r, RunOK(q, meta, r, t, ld), r.error = None,
         r.at # "walk", Ins(q, Last(r.frames)).op \notin {"return", "loop", "error"}
  PROVE  RunOK(q, meta, Advanced(r), t, ld)
<1>1. r \in RunType(q) /\ FramesOK(q, meta, r.frames) /\ r.frames \in Seq(FrameType(q))
  BY DEF RunOK, RunType
<1>2. Last(r.frames) = r.frames[Len(r.frames)]
  BY <1>1, FrameFacts
<1>3. r.frames[Len(r.frames)].pc + 1 \in 1..Len(q.code[r.frames[Len(r.frames)].f])
  BY <1>1, <1>2, NextInstruction
<1>4. /\ Advanced(r) \in RunType(q) /\ GoesOn(r, Advanced(r)) /\ Advanced(r).deadline = r.deadline
      /\ Moved(r.frames, Advanced(r).frames, r.frames[Len(r.frames)].pc + 1)
  BY <1>1, AdvancedFacts
<1>5. Advanced(r).frames \in Seq(FrameType(q))
  BY <1>4 DEF RunType
<1>6. FramesOK(q, meta, Advanced(r).frames)
  BY <1>1, <1>3, <1>4, <1>5, FramesMoved
<1> QED BY <1>4, <1>6, GoesOnOK

\* What called a thread that is done.
LEMMA WokenFacts ==
  ASSUME NEW q, IsProgram(q), NEW meta, NEW t, NEW ld, NEW r, RunOK(q, meta, r, t, ld), NEW d \in RunType(q)
  PROVE  /\ Woken(r, d) \in RunType(q) /\ RunOK(q, meta, Woken(r, d), t, ld) /\ Woken(r, d).thread = r.thread
         /\ r.at = "wait" => r.error = None /\ Wakes(r, d, Woken(r, d))
         /\ r.at # "wait" => Woken(r, d) = r
<1>1. r \in RunType(q) /\ FramesOK(q, meta, r.frames) /\ r.frames \in Seq(FrameType(q)) /\ d.broke \in BOOLEAN
  BY DEF RunOK, RunType
<1>2. CASE r.at # "wait"
  BY <1>1, <1>2 DEF Woken
<1>3. CASE r.at = "wait"
  <2>1. /\ r.error = None /\ Ins(q, Last(r.frames)).op \in {"engine", "coroutine"} /\ r.at # "walk"
        /\ r.level = 0 /\ ~r.found
    BY <1>3 DEF RunOK
  <2>2. PICK a : a = Advanced(r)
    OBVIOUS
  <2>3. RunOK(q, meta, a, t, ld)
    BY <2>1, <2>2, AdvancedOK
  <2>4. /\ GoesOn(r, a) /\ Moved(r.frames, a.frames, r.frames[Len(r.frames)].pc + 1) /\ a.broke = r.broke
        /\ a \in RunType(q) /\ a.deadline = r.deadline
    BY <1>1, <2>2, AdvancedFacts
  <2>5. Len(r.frames) \in Nat /\ Len(r.frames) >= 1
    BY <1>1, FrameFacts
  <2>6. SameFunctions(r, a) /\ a.thread = r.thread
    BY <2>4, <2>5 DEF Moved, SameFunctions, GoesOn
  <2>7. CASE ~(d.kind = "coroutine" /\ d.broke)
    <3>1. Woken(r, d) = a
      BY <1>3, <2>2, <2>7 DEF Woken
    <3> QED BY <1>3, <2>1, <2>3, <2>4, <2>6, <3>1 DEF Wakes
  <2>8. CASE d.broke /\ Woken(r, d) = Interrupted(r) /\ InC(r)
    <3>1. PICK e : e = Raised(r, "break in C")
      OBVIOUS
    <3>2. /\ e \in RunType(q) /\ Ends(r, e) /\ e.deadline = r.deadline
          /\ e.level = 0 /\ ~e.found /\ e.at = "dead" /\ e.error # None /\ e.frames = r.frames /\ e.thread = r.thread
      BY <1>1, <2>1, <3>1, NoneAssumption, ZenonT(60) DEF RunType, Ends, Halts, Stays, Raised
    <3>3. RunOK(q, meta, e, t, ld)
      BY <2>1, <2>5, <3>2, StaysOK DEF Ends, Halts
    <3>4. Woken(r, d) = e
      BY <2>8, <3>1 DEF Interrupted
    <3> QED BY <1>3, <2>1, <2>8, <3>2, <3>3, <3>4 DEF Wakes
  <2>9. CASE d.broke /\ Woken(r, d) = Interrupted(r) /\ ~InC(r)
    <3>1. PICK e : e = [a EXCEPT !.broke = TRUE]
      OBVIOUS
    <3>2. /\ e \in RunType(q) /\ GoesOn(r, e) /\ SameFunctions(r, e) /\ e.deadline = r.deadline
          /\ e.frames = a.frames /\ e.thread = r.thread
      BY <2>4, <2>6, <3>1 DEF RunType, GoesOn, SameFunctions
    <3>3. RunOK(q, meta, e, t, ld)
      <4>1. FramesOK(q, meta, e.frames)
        BY <2>3, <3>2 DEF RunOK
      <4> QED BY <2>1, <3>2, <4>1, GoesOnOK
    <3>4. Woken(r, d) = e
      BY <2>2, <2>9, <3>1 DEF Interrupted
    <3> QED BY <1>3, <2>1, <2>9, <3>2, <3>3, <3>4 DEF Wakes
  <2>10. d.kind = "coroutine" /\ d.broke => Woken(r, d) = Interrupted(r)
    BY <1>3 DEF Woken
  <2> QED BY <2>7, <2>8, <2>9, <2>10
<1> QED BY <1>2, <1>3

\* Popped, by positions.
LEMMA PoppedDrops ==
  ASSUME NEW q, IsProgram(q), NEW meta, NEW t, NEW ld, DOMAIN runs = OSThreads, NEW o \in OSThreads,
         NEW s, StackOK(q, meta, s, t, ld), s # << >>, runs' = [runs EXCEPT ![o] = Popped(s)],
         Len(s) = Len(runs[o])
  PROVE  DropOf(q, o, s)
<1> USE DEF DropOf
<1>1. runs'[o] = Popped(s) /\ OnlyOf(o)
  BY DEF OnlyOf
<1>2. s \in Seq(RunType(q))
  BY DEF StackOK
<1>3. Len(s) \in Nat /\ Len(s) >= 1 /\ Front(s) \in Seq(RunType(q)) /\ Len(Front(s)) = Len(s) - 1
      /\ \A j \in 1..(Len(s) - 1) : Front(s)[j] = s[j]
  BY <1>2, FrontFacts
<1>4. CASE Len(s) = 1
  BY <1>1, <1>3, <1>4 DEF Popped
<1>5. CASE Len(s) # 1
  <2> DEFINE below == s[Len(s) - 1]
             f == Front(s)
             u == Woken(below, s[Len(s)])
  <2>1. Len(s) >= 2 /\ Len(s) - 1 \in 1..Len(s)
    BY <1>3, <1>5
  <2>2. RunOK(q, meta, below, t, ld)
    BY <2>1 DEF StackOK
  <2>3. u \in RunType(q)
    <3>1. s[Len(s)] \in RunType(q)
      BY <1>2, <1>3
    <3> QED BY <2>2, <3>1, WokenFacts
  <2>4. f # << >>
    <3>1. Len(f) # 0
      BY <1>3, <2>1
    <3> QED BY <3>1
  <2>5. Popped(s) = WithTop(f, u)
    <3>1. Last(s) = s[Len(s)]
      BY <1>2, FrontFacts
    <3> QED BY <1>5, <3>1 DEF Popped
  <2> HIDE DEF u, f
  <2>6. /\ WithTop(f, u) \in Seq(RunType(q)) /\ Len(WithTop(f, u)) = Len(f)
        /\ \A i \in 1..(Len(f) - 1) : WithTop(f, u)[i] = f[i]
        /\ WithTop(f, u)[Len(f)] = u
    <3>1. f \in Seq(RunType(q))
      BY <1>3 DEF f
    <3> QED BY <2>3, <2>4, <3>1, WithTopFacts
  <2>7. Len(f) = Len(s) - 1 /\ \A j \in 1..(Len(s) - 1) : f[j] = s[j]
    BY <1>3 DEF f
  <2>8. \A i \in 1..(Len(s) - 2) : Popped(s)[i] = s[i]
    <3> SUFFICES ASSUME NEW i \in 1..(Len(s) - 2) PROVE Popped(s)[i] = s[i]
      OBVIOUS
    <3>1. i \in 1..(Len(f) - 1) /\ i \in 1..(Len(s) - 1)
      BY <1>3, <2>7
    <3> QED BY <2>5, <2>6, <2>7, <3>1
  <2>9. Popped(s)[Len(s) - 1] = u /\ Len(Popped(s)) = Len(s) - 1 /\ Popped(s) \in Seq(RunType(q))
    BY <2>5, <2>6, <2>7
  <2> QED BY <1>1, <2>8, <2>9 DEF u, below
<1> QED BY <1>4, <1>5

\* The innermost thread of o is taken away.
LEMMA PoppedTop ==
  ASSUME NEW q, IsProgram(q), NEW meta, NEW t, NEW ld, StacksOK(q, meta, runs, t, ld), NEW o \in OSThreads,
         Busy(o), runs' = [runs EXCEPT ![o] = Popped(@)]
  PROVE  Drop(q, o)
<1>1. DOMAIN runs = OSThreads /\ StackOK(q, meta, runs[o], t, ld) /\ runs[o] # << >>
  BY DEF StacksOK, Busy
<1> QED BY <1>1, PoppedDrops DEF Drop

----------------------------------------------------------------------------
(* The shape of the stacks is kept.                                            *)

Fresh(x) == \A p \in OSThreads : \A i \in 1..Len(runs[p]) : runs[p][i].thread # x

\* The innermost thread is in another state.
LEMMA RetopShape ==
  ASSUME NEW q, NEW meta, NEW t, NEW ld, StacksOK(q, meta, runs, t, ld), NEW o \in OSThreads, Busy(o),
         NEW u, RunOK(q, meta, u, t, ld), u.thread = Top(o).thread, Retop(q, o, u)
  PROVE  StacksOK(q, meta, runs', t, ld)
<1> DEFINE n == Len(runs[o])
<1>1. n \in Nat /\ n >= 1 /\ Top(o) = runs[o][n]
  BY TopFacts
<1>2. /\ DOMAIN runs' = OSThreads /\ \A p \in OSThreads \ {o} : runs'[p] = runs[p]
      /\ runs'[o] \in Seq(RunType(q)) /\ Len(runs'[o]) = n
      /\ \A i \in 1..(n - 1) : runs'[o][i] = runs[o][i]
      /\ runs'[o][n] = u
  BY DEF Retop, OnlyOf
<1>3. StackOK(q, meta, runs'[o], t, ld)
  <2>1. StackOK(q, meta, runs[o], t, ld)
    BY DEF StacksOK
  <2> QED BY <1>1, <1>2, <2>1 DEF StackOK
<1>4. \A p \in OSThreads : Len(runs'[p]) = Len(runs[p]) /\ \A i \in 1..Len(runs[p]) : runs'[p][i].thread = runs[p][i].thread
  BY <1>1, <1>2
<1>5. Apart(runs')
  BY <1>4 DEF StacksOK, Apart
<1> QED BY <1>2, <1>3, <1>5 DEF StacksOK

\* A thread with an address of its own is put above it.
LEMMA PushShape ==
  ASSUME NEW q, NEW meta, NEW t, NEW ld, StacksOK(q, meta, runs, t, ld), NEW o \in OSThreads, Busy(o),
         NEW u, RunOK(q, meta, u, t, ld), u.thread = Top(o).thread, u.at \in {"wait", "walk"},
         NEW n, RunOK(q, meta, n, t, ld), Fresh(n.thread), Push(q, o, u, n)
  PROVE  StacksOK(q, meta, runs', t, ld)
<1> DEFINE l == Len(runs[o])
<1>1. l \in Nat /\ l >= 1 /\ Top(o) = runs[o][l]
  BY TopFacts
<1>2. /\ DOMAIN runs' = OSThreads /\ \A p \in OSThreads \ {o} : runs'[p] = runs[p]
      /\ runs'[o] \in Seq(RunType(q)) /\ Len(runs'[o]) = l + 1
      /\ \A i \in 1..(l - 1) : runs'[o][i] = runs[o][i]
      /\ runs'[o][l] = u /\ runs'[o][l + 1] = n
  BY DEF Push, OnlyOf
<1>3. StackOK(q, meta, runs'[o], t, ld)
  <2>1. StackOK(q, meta, runs[o], t, ld)
    BY DEF StacksOK
  <2> HIDE DEF l
  <2>2. \A i \in 1..(l + 1) : i \in 1..(l - 1) \/ i = l \/ i = l + 1
    BY <1>1
  <2>3. \A i \in 1..(l + 1) : RunOK(q, meta, runs'[o][i], t, ld)
    BY <1>1, <1>2, <2>1, <2>2 DEF StackOK, l
  <2>4. \A i \in 1..l : runs'[o][i].at \in {"wait", "walk"}
    BY <1>1, <1>2, <2>1 DEF StackOK, l
  <2> QED BY <1>1, <1>2, <2>3, <2>4 DEF StackOK
<1>4. ASSUME NEW p \in OSThreads, NEW i \in 1..Len(runs'[p]), ~(p = o /\ i = l + 1)
      PROVE  i \in 1..Len(runs[p]) /\ runs'[p][i].thread = runs[p][i].thread
  BY <1>1, <1>2, <1>4
<1>5. Apart(runs')
  <2> SUFFICES ASSUME NEW p \in OSThreads, NEW r \in OSThreads, NEW i \in 1..Len(runs'[p]),
                      NEW j \in 1..Len(runs'[r]), runs'[p][i].thread = runs'[r][j].thread
               PROVE  p = r /\ i = j
    BY DEF Apart
  <2>1. CASE ~(p = o /\ i = l + 1) /\ ~(r = o /\ j = l + 1)
    <3>1. i \in 1..Len(runs[p]) /\ runs'[p][i].thread = runs[p][i].thread
      BY <1>4, <2>1
    <3>2. j \in 1..Len(runs[r]) /\ runs'[r][j].thread = runs[r][j].thread
      BY <1>4, <2>1
    <3>3. runs[p][i].thread = runs[r][j].thread
      BY <3>1, <3>2
    <3> QED BY <3>1, <3>2, <3>3 DEF StacksOK, Apart
  <2>2. CASE (p = o /\ i = l + 1) /\ ~(r = o /\ j = l + 1)
    BY <1>2, <1>4, <2>2 DEF Fresh
  <2>3. CASE ~(p = o /\ i = l + 1) /\ (r = o /\ j = l + 1)
    BY <1>2, <1>4, <2>3 DEF Fresh
  <2> QED BY <2>1, <2>2, <2>3
<1> QED BY <1>2, <1>3, <1>5 DEF StacksOK

\* The innermost thread is done.
LEMMA DropShape ==
  ASSUME NEW q, IsProgram(q), NEW meta, NEW t, NEW ld, StacksOK(q, meta, runs, t, ld), NEW o \in OSThreads,
         Busy(o), Drop(q, o)
  PROVE  StacksOK(q, meta, runs', t, ld)
<1> DEFINE l == Len(runs[o])
           b == runs[o][l - 1]
<1>1. l \in Nat /\ l >= 1
  BY TopFacts
<1>2. /\ DOMAIN runs' = OSThreads /\ \A p \in OSThreads \ {o} : runs'[p] = runs[p]
      /\ runs'[o] \in Seq(RunType(q)) /\ Len(runs'[o]) = l - 1
      /\ \A i \in 1..(l - 2) : runs'[o][i] = runs[o][i]
      /\ l >= 2 => runs'[o][l - 1] = Woken(b, runs[o][l])
  BY DEF Drop, DropOf, OnlyOf
<1>3. StackOK(q, meta, runs[o], t, ld)
  BY DEF StacksOK
<1>4. ASSUME l >= 2
      PROVE  RunOK(q, meta, runs'[o][l - 1], t, ld) /\ runs'[o][l - 1].thread = b.thread
  <2>1. RunOK(q, meta, b, t, ld)
    BY <1>1, <1>3, <1>4 DEF StackOK
  <2>2. runs[o][l] \in RunType(q)
    BY <1>1, <1>3 DEF StackOK
  <2> QED BY <1>2, <1>4, <2>1, <2>2, WokenFacts
<1> HIDE DEF b, l
<1>5. StackOK(q, meta, runs'[o], t, ld)
  <2>1. \A i \in 1..(l - 1) : RunOK(q, meta, runs'[o][i], t, ld)
    <3> SUFFICES ASSUME NEW i \in 1..(l - 1) PROVE RunOK(q, meta, runs'[o][i], t, ld)
      OBVIOUS
    <3>1. CASE i = l - 1
      BY <1>1, <1>4, <3>1
    <3>2. CASE i # l - 1
      BY <1>1, <1>2, <1>3, <3>2 DEF StackOK, l
    <3> QED BY <3>1, <3>2
  <2>2. \A i \in 1..(l - 2) : runs'[o][i].at \in {"wait", "walk"}
    BY <1>1, <1>2, <1>3 DEF StackOK, l
  <2> QED BY <1>1, <1>2, <2>1, <2>2 DEF StackOK
<1>6. ASSUME NEW p \in OSThreads, NEW i \in 1..Len(runs'[p])
      PROVE  i \in 1..Len(runs[p]) /\ runs'[p][i].thread = runs[p][i].thread
  <2>1. CASE p # o
    BY <1>2, <2>1
  <2>2. CASE p = o /\ i = l - 1
    BY <1>1, <1>2, <1>4, <2>2 DEF l, b
  <2>3. CASE p = o /\ i # l - 1
    BY <1>1, <1>2, <2>3 DEF l
  <2> QED BY <2>1, <2>2, <2>3
<1>7. Apart(runs')
  BY <1>6 DEF StacksOK, Apart
<1> QED BY <1>2, <1>5, <1>7 DEF StacksOK

\* An OS thread begins with one.
LEMMA BeginShape ==
  ASSUME NEW q, NEW meta, NEW t, NEW ld, StacksOK(q, meta, runs, t, ld), NEW o \in OSThreads, ~Busy(o),
         NEW n, RunOK(q, meta, n, t, ld), Fresh(n.thread), runs' = [runs EXCEPT ![o] = <<n>>]
  PROVE  StacksOK(q, meta, runs', t, ld)
<1>1. n \in RunType(q)
  BY DEF RunOK
<1>2. PICK z : z = <<n>>
  OBVIOUS
<1>3. z \in Seq(RunType(q)) /\ Len(z) = 1 /\ z[1] = n
  BY <1>1, <1>2
<1>4. DOMAIN runs' = OSThreads /\ runs'[o] = z /\ \A p \in OSThreads \ {o} : runs'[p] = runs[p]
  BY <1>2 DEF StacksOK
<1>5. StackOK(q, meta, z, t, ld)
  BY <1>3 DEF StackOK
<1>6. \A p \in OSThreads : StackOK(q, meta, runs'[p], t, ld)
  BY <1>4, <1>5 DEF StacksOK
<1>7. Apart(runs')
  <2> SUFFICES ASSUME NEW p \in OSThreads, NEW r \in OSThreads, NEW i \in 1..Len(runs'[p]),
                      NEW j \in 1..Len(runs'[r]), runs'[p][i].thread = runs'[r][j].thread
               PROVE  p = r /\ i = j
    BY DEF Apart
  <2>1. CASE p # o /\ r # o
    BY <1>4, <2>1 DEF StacksOK, Apart
  <2>2. CASE p = o /\ r # o
    BY <1>3, <1>4, <2>2 DEF Fresh
  <2>3. CASE p # o /\ r = o
    BY <1>3, <1>4, <2>3 DEF Fresh
  <2>4. CASE p = o /\ r = o
    BY <1>3, <1>4, <2>4
  <2> QED BY <2>1, <2>2, <2>3, <2>4
<1> QED BY <1>4, <1>6, <1>7 DEF StacksOK

----------------------------------------------------------------------------
(* What an instruction does.                                                   *)

\* The invariant says what the stacks are.
LEMMA ShapeFacts ==
  ASSUME NEW meta, ShapeInv(meta)
  PROVE  /\ StacksOK(Programs[program], meta, runs, now, loaded) /\ IsProgram(Programs[program])
         /\ now \in Nat /\ now >= 1 /\ loaded \subseteq VMs
<1>1. now \in Nat /\ now >= 1
  BY TimeAssumption DEF ShapeInv
<1> QED BY <1>1 DEF ShapeInv, StacksOK, IsProgram

\* The address of a new thread is that of no other, and not of the one debugged.
LEMMA FreeThreadFacts ==
  ASSUME NEW q, NEW meta, NEW t, NEW ld, StacksOK(q, meta, runs, t, ld), FreeThread # None
  PROVE  FreeThread \in Threads /\ Fresh(FreeThread) /\ FreeThread # debug.L
<1>1. FreeThread \in Threads \cup {None} /\ (FreeThread \notin InUse \/ FreeThread = None)
  <2>1. \E x \in Threads \cup {None} : x \notin InUse \/ x = None
    OBVIOUS
  <2> QED BY <2>1 DEF FreeThread
<1>2. FreeThread \in Threads /\ FreeThread \notin InUse
  BY <1>1
<1>3. ASSUME NEW p \in OSThreads, NEW i \in 1..Len(runs[p]) PROVE runs[p][i].thread \in InUse
  <2>1. runs[p] \in Seq(RunType(q))
    BY DEF StacksOK, StackOK
  <2>2. runs[p][i] \in ToSet(runs[p])
    BY <2>1, ToSetFacts
  <2> QED BY <2>2 DEF InUse
<1> QED BY <1>2, <1>3 DEF Fresh, InUse

\* A new thread.
Begins(n, f) ==
  /\ Len(n.frames) = 1 /\ n.frames[1].f = f
  /\ n.at = "step" /\ n.error = None /\ n.level = 0 /\ ~n.found /\ ~n.step /\ ~n.hooked /\ n.stops = 0
  /\ ~n.broke

LEMMA NewRunFacts ==
  ASSUME NEW q, IsProgram(q), NEW meta, now \in Nat, NEW x \in Threads, NEW v \in VMs, v \in loaded,
         NEW k \in Kinds, NEW f \in DOMAIN q.code
  PROVE  LET n == NewRun(x, v, k, f) IN
         RunOK(q, meta, n, now, loaded) /\ Begins(n, f) /\ n.thread = x /\ n.kind = k /\ n.vm = v
<1> DEFINE fs == <<Frame(f, FALSE)>>
           n == NewRun(x, v, k, f)
<1>1. Frame(f, FALSE) \in FrameType(q) /\ Frame(f, FALSE).f = f /\ Frame(f, FALSE).pc = 1 /\ ~Frame(f, FALSE).meta
  BY DEF Frame, FrameType
<1>2. fs \in Seq(FrameType(q)) /\ Len(fs) = 1 /\ fs[1].f = f /\ fs[1].pc = 1 /\ ~fs[1].meta
  <2>1. PICK y : y = Frame(f, FALSE)
    OBVIOUS
  <2>2. \A T : \A e \in T : <<e>> \in Seq(T) /\ Len(<<e>>) = 1 /\ <<e>>[1] = e
    OBVIOUS
  <2> QED BY <1>1, <2>1, <2>2, Zenon
<1>3. n.frames = fs
  BY DEF NewRun
<1>4. FramesOK(q, meta, fs)
  <2>1. 1 \in 1..Len(q.code[f])
    BY CodeFacts
  <2>2. fs # << >>
    <3>1. Len(<< >>) = 0
      OBVIOUS
    <3> QED BY <1>2, <3>1
  <2> HIDE DEF fs
  <2> QED BY <1>2, <2>1, <2>2 DEF FramesOK
<1> HIDE DEF fs
<1>5. /\ n.thread = x /\ n.kind = k /\ n.vm = v /\ n.at = "step" /\ n.error = None
      /\ n.level = 0 /\ n.found = FALSE /\ n.step = FALSE /\ n.hooked = FALSE /\ n.stops = 0 /\ n.broke = FALSE
      /\ n.deadline \in {0, now + Timeout} /\ n.got = FALSE /\ n.since = now
  BY DEF NewRun
<1>6. n \in RunType(q)
  <2> DEFINE S == Seq(FrameType(q))
             d == IF k = "coroutine" THEN 0 ELSE now + Timeout
  <2>1. fs \in S /\ d \in Nat
    BY <1>2, TimeAssumption
  <2> HIDE DEF S, d
  <2>2. n = [thread |-> x, vm |-> v, kind |-> k, frames |-> fs, at |-> "step", error |-> None,
             deadline |-> d, step |-> FALSE, level |-> 0, got |-> FALSE, found |-> FALSE, broke |-> FALSE,
             hooked |-> FALSE, stops |-> 0, since |-> now]
    BY DEF NewRun, fs, d
  <2> QED BY <2>1, <2>2 DEF RunType, S
<1> HIDE DEF n
<1>7. RunOK(q, meta, n, now, loaded)
  <2>1. 0 <= Len(n.frames) /\ n.deadline <= now + Timeout /\ (n.deadline = 0 \/ n.deadline > now)
    BY <1>2, <1>3, <1>5, TimeAssumption
  <2> QED BY <1>3, <1>4, <1>5, <1>6, <2>1 DEF RunOK
<1> QED BY <1>2, <1>3, <1>5, <1>7 DEF Begins, n

\* A renewed deadline changes nothing else.
LEMMA RenewedFacts ==
  ASSUME NEW q, NEW meta, now \in Nat, NEW ld, NEW r, RunOK(q, meta, r, now, ld)
  PROVE  LET u == Renewed(r) IN
         /\ RunOK(q, meta, u, now, ld)
         /\ u.thread = r.thread /\ u.vm = r.vm /\ u.kind = r.kind /\ u.frames = r.frames /\ u.at = r.at
         /\ u.error = r.error /\ u.step = r.step /\ u.level = r.level /\ u.found = r.found
         /\ u.hooked = r.hooked /\ u.stops = r.stops /\ u.broke = r.broke
<1>1. CASE r.deadline # 0 /\ r.deadline < interrupt_reset
  <2> DEFINE u == [r EXCEPT !.deadline = now + Timeout, !.since = now]
             d == now + Timeout
  <2>1. Renewed(r) = u
    BY <1>1 DEF Renewed
  <2>2. r \in RunType(q) /\ d \in Nat /\ d > now
    BY TimeAssumption DEF RunOK
  <2>3. /\ u \in RunType(q) /\ u.deadline = d
        /\ u.thread = r.thread /\ u.vm = r.vm /\ u.kind = r.kind /\ u.frames = r.frames /\ u.at = r.at
        /\ u.error = r.error /\ u.step = r.step /\ u.level = r.level /\ u.found = r.found
        /\ u.hooked = r.hooked /\ u.stops = r.stops /\ u.broke = r.broke
    BY <2>2 DEF RunType
  <2> HIDE DEF u
  <2>4. RunOK(q, meta, u, now, ld)
    BY <2>2, <2>3 DEF RunOK
  <2> QED BY <2>1, <2>3, <2>4
<1>2. CASE ~(r.deadline # 0 /\ r.deadline < interrupt_reset)
  BY <1>2 DEF Renewed
<1> QED BY <1>1, <1>2

\* The functions that a thread is in after an instruction, other than one that
\* makes another thread or ends this one.
FramesGo(q, r, u) ==
  LET n == Len(r.frames)
      i == Ins(q, r.frames[n]) IN
  /\ \/ Len(u.frames) = n - 1 /\ i.op = "return"
     \/ Len(u.frames) = n
     \/ Len(u.frames) = n + 1 /\ i.op \in {"call", "meta"} /\ u.frames[n + 1].f = i.to
  /\ \A k \in 1..Len(u.frames) : k <= n => u.frames[k].f = r.frames[k].f

Goes(q, r, u) == GoesOn(r, u) /\ FramesGo(q, r, u) /\ u.broke = r.broke

\* The thread n that an instruction of r makes.
Makes(q, r, n) ==
  LET i == Ins(q, r.frames[Len(r.frames)]) IN
  /\ Begins(n, i.to) /\ Fresh(n.thread) /\ n.thread # debug.L
  /\ \/ i.op = "engine" /\ n.kind = "resume"
     \/ i.op = "coroutine" /\ n.kind = "coroutine"

\* What an instruction of r makes of the threads of o; or its time is over.
Done(q, meta, o, r) ==
  LET i == Ins(q, r.frames[Len(r.frames)]) IN
  \/ \E u : Retop(q, o, u) /\ RunOK(q, meta, u, now, loaded) /\ Goes(q, r, u)
  \/ \E u, n : /\ Push(q, o, u, n) /\ RunOK(q, meta, u, now, loaded) /\ RunOK(q, meta, n, now, loaded)
               /\ Waits(r, u) /\ Makes(q, r, n)
  \/ Drop(q, o) /\ i.op = "return" /\ Len(r.frames) = 1
  \/ i.op = "error" /\ \E u : Retop(q, o, u) /\ RunOK(q, meta, u, now, loaded) /\ Ends(r, u)
Executed(q, meta, o, r) ==
  \/ Done(q, meta, o, r)
  \/ /\ Ins(q, r.frames[Len(r.frames)]).op \in Interrupting /\ Expired(r)
     /\ \E u : Retop(q, o, u) /\ RunOK(q, meta, u, now, loaded) /\ Ends(r, u)

\* Advanced, as one that goes on.
LEMMA AdvancedGoes ==
  ASSUME NEW q, IsProgram(q), NEW meta, NEW t, NEW ld, NEW r, RunOK(q, meta, r, t, ld), r.error = None,
         r.at # "walk", Ins(q, Last(r.frames)).op \notin {"return", "loop", "error"}
  PROVE  RunOK(q, meta, Advanced(r), t, ld) /\ Goes(q, r, Advanced(r))
<1>1. r \in RunType(q) /\ FramesOK(q, meta, r.frames) /\ r.frames \in Seq(FrameType(q))
  BY DEF RunOK, RunType
<1>2. Len(r.frames) \in Nat /\ Len(r.frames) >= 1
  BY <1>1, FrameFacts
<1>3. /\ GoesOn(r, Advanced(r)) /\ Moved(r.frames, Advanced(r).frames, r.frames[Len(r.frames)].pc + 1)
      /\ Advanced(r).broke = r.broke
  BY <1>1, AdvancedFacts
<1>4. FramesGo(q, r, Advanced(r))
  BY <1>2, <1>3 DEF FramesGo, Moved
<1> QED BY <1>3, <1>4, AdvancedOK DEF Goes

\* A loop begins again.
LEMMA LoopGoes ==
  ASSUME NEW q, IsProgram(q), NEW meta, NEW t, NEW ld, NEW r, RunOK(q, meta, r, t, ld), r.error = None,
         r.at # "walk"
  PROVE  LET u == [r EXCEPT !.frames[Depth(r)].pc = 1, !.at = "step", !.hooked = FALSE, !.stops = 0] IN
         u \in RunType(q) /\ RunOK(q, meta, u, t, ld) /\ Goes(q, r, u)
<1> DEFINE n == Len(r.frames)
           fs == [r.frames EXCEPT ![n] = [r.frames[n] EXCEPT !.pc = 1]]
           u == [r EXCEPT !.frames[Depth(r)].pc = 1, !.at = "step", !.hooked = FALSE, !.stops = 0]
<1>1. r \in RunType(q) /\ FramesOK(q, meta, r.frames) /\ r.frames \in Seq(FrameType(q))
  BY DEF RunOK, RunType
<1>2. n \in Nat /\ n >= 1 /\ n \in 1..n /\ r.frames[n] \in FrameType(q) /\ r.frames[n].f \in DOMAIN q.code
  BY <1>1, FrameFacts
<1>3. u.frames = fs /\ GoesOn(r, u) /\ u.deadline = r.deadline /\ u.broke = r.broke
  BY <1>1 DEF GoesOn, RunType, Depth
<1>4. [r.frames[n] EXCEPT !.pc = 1] \in FrameType(q)
  BY <1>2 DEF FrameType
<1>5. fs \in Seq(FrameType(q)) /\ Len(fs) = n
  BY <1>1, <1>2, <1>4
<1>6. Moved(r.frames, fs, 1)
  <2>1. fs[n] = [r.frames[n] EXCEPT !.pc = 1]
    BY <1>1, <1>2
  <2>2. \A i \in 1..(n - 1) : fs[i] = r.frames[i]
    BY <1>1, <1>2
  <2> QED BY <1>2, <1>5, <2>1, <2>2 DEF Moved, FrameType
<1>7. u = [r EXCEPT !.frames = fs, !.at = "step", !.hooked = FALSE, !.stops = 0]
  BY <1>1 DEF Depth, RunType
<1> HIDE DEF fs, u
<1>8. u \in RunType(q)
  <2> DEFINE S == Seq(FrameType(q))
  <2>1. fs \in S
    BY <1>5
  <2> HIDE DEF S
  <2>2. \A x \in RunType(q) : [x EXCEPT !.frames = fs, !.at = "step", !.hooked = FALSE, !.stops = 0] \in RunType(q)
    BY <2>1, ZenonT(60) DEF RunType, S
  <2> QED BY <1>1, <1>7, <2>2, Zenon
<1>9. 1 \in 1..Len(q.code[r.frames[n].f])
  BY <1>2, CodeFacts
<1>10. FramesOK(q, meta, fs)
  BY <1>1, <1>5, <1>6, <1>9, FramesMoved
<1>11. FramesGo(q, r, u)
  BY <1>2, <1>3, <1>6 DEF FramesGo, Moved
<1>12. RunOK(q, meta, u, t, ld)
  BY <1>3, <1>8, <1>10, GoesOnOK
<1> QED BY <1>3, <1>8, <1>11, <1>12 DEF Goes, u

\* A function is called.
LEMMA CallGoes ==
  ASSUME NEW q, IsProgram(q), NEW meta, MetaCode(q, meta), NEW t, NEW ld, NEW r, RunOK(q, meta, r, t, ld),
         r.error = None, r.at # "walk", NEW i, i = Ins(q, Last(r.frames)), i.op \in {"call", "meta"}
  PROVE  LET u == [r EXCEPT !.frames = Append(@, Frame(i.to, i.op = "meta")),
                            !.at = "step", !.hooked = FALSE, !.stops = 0] IN
         u \in RunType(q) /\ RunOK(q, meta, u, t, ld) /\ Goes(q, r, u)
<1> DEFINE n == Len(r.frames)
           fs == Append(r.frames, Frame(i.to, i.op = "meta"))
           u == [r EXCEPT !.frames = fs, !.at = "step", !.hooked = FALSE, !.stops = 0]
<1>1. r \in RunType(q) /\ FramesOK(q, meta, r.frames) /\ r.frames \in Seq(FrameType(q))
  BY DEF RunOK, RunType
<1>2. n \in Nat /\ n >= 1 /\ i = Ins(q, r.frames[n])
  BY <1>1, FrameFacts
<1>3. fs \in Seq(FrameType(q)) /\ FramesOK(q, meta, fs)
  BY <1>1, <1>2, FramesCalled
<1>4. Len(fs) = n + 1 /\ fs[n + 1] = Frame(i.to, i.op = "meta") /\ \A k \in 1..n : fs[k] = r.frames[k]
  BY <1>1
<1>5. fs[n + 1].f = i.to
  BY <1>4 DEF Frame
<1> HIDE DEF fs
<1>6. u.frames = fs /\ GoesOn(r, u) /\ u.deadline = r.deadline /\ u.broke = r.broke
  BY <1>1 DEF GoesOn, RunType
<1>7. u \in RunType(q)
  <2> DEFINE S == Seq(FrameType(q))
  <2>1. fs \in S
    BY <1>3
  <2> HIDE DEF S
  <2>2. \A x \in RunType(q) : [x EXCEPT !.frames = fs, !.at = "step", !.hooked = FALSE, !.stops = 0] \in RunType(q)
    BY <2>1, ZenonT(60) DEF RunType, S
  <2> QED BY <1>1, <2>2, Zenon
<1> HIDE DEF u
<1>8. FramesGo(q, r, u)
  BY <1>2, <1>4, <1>5, <1>6 DEF FramesGo
<1>9. RunOK(q, meta, u, t, ld)
  BY <1>3, <1>6, <1>7, GoesOnOK
<1> QED BY <1>6, <1>7, <1>8, <1>9 DEF Goes, u, fs

\* A function returns to the one that called it.
LEMMA ReturnGoes ==
  ASSUME NEW q, IsProgram(q), NEW meta, NEW t, NEW ld, NEW r, RunOK(q, meta, r, t, ld),
         r.error = None, r.at = "exec", Ins(q, Last(r.frames)).op = "return", Len(r.frames) # 1
  PROVE  LET u == Advanced([r EXCEPT !.frames = Front(@)]) IN
         u \in RunType(q) /\ RunOK(q, meta, u, t, ld) /\ Goes(q, r, u)
<1> DEFINE n == Len(r.frames)
           fs == Front(r.frames)
           b == [r EXCEPT !.frames = fs]
           u == Advanced(b)
<1>1. r \in RunType(q) /\ FramesOK(q, meta, r.frames) /\ r.frames \in Seq(FrameType(q))
  BY DEF RunOK, RunType
<1>2. /\ fs \in Seq(FrameType(q)) /\ FramesOK(q, meta, fs) /\ Len(fs) = n - 1 /\ n \in Nat /\ n >= 2
      /\ \A i \in 1..(n - 1) : fs[i] = r.frames[i]
      /\ Ins(q, r.frames[n - 1]).op \in {"call", "meta"}
  BY <1>1, FramesReturned
<1> HIDE DEF fs
<1>3. b \in RunType(q)
  <2> DEFINE S == Seq(FrameType(q))
  <2>1. fs \in S
    BY <1>2
  <2> HIDE DEF S
  <2>2. \A x \in RunType(q) : [x EXCEPT !.frames = fs] \in RunType(q)
    BY <2>1 DEF RunType, S
  <2> QED BY <1>1, <2>2, Zenon
<1>4. /\ b.frames = fs /\ b.thread = r.thread /\ b.vm = r.vm /\ b.kind = r.kind /\ b.error = r.error /\ b.at = r.at
      /\ b.level = r.level /\ b.found = r.found /\ b.step = r.step /\ b.deadline = r.deadline /\ b.broke = r.broke
  BY <1>1 DEF RunType
<1> HIDE DEF b
<1>5. RunOK(q, meta, b, t, ld)
  <2>1. r.level = 0 /\ 0 <= Len(fs)
    BY <1>2 DEF RunOK
  <2> QED BY <1>2, <1>3, <1>4, <2>1 DEF RunOK
<1>6. Last(b.frames) = fs[n - 1] /\ fs[n - 1] = r.frames[n - 1]
  <2>1. Last(fs) = fs[Len(fs)]
    BY <1>2, FrameFacts
  <2> QED BY <1>2, <1>4, <2>1
<1>7. RunOK(q, meta, u, t, ld) /\ Goes(q, b, u)
  BY <1>2, <1>4, <1>5, <1>6, AdvancedGoes
<1>8. u \in RunType(q) /\ Len(u.frames) = Len(fs)
  <2>1. Moved(fs, u.frames, fs[Len(fs)].pc + 1) /\ u \in RunType(q)
    BY <1>2, <1>3, <1>4, AdvancedFacts
  <2> QED BY <2>1 DEF Moved
<1>9. GoesOn(r, u) /\ u.broke = r.broke
  BY <1>4, <1>7 DEF Goes, GoesOn
<1>10. FramesGo(q, r, u)
  <2>1. Ins(q, r.frames[n]).op = "return"
    BY <1>1, FrameFacts
  <2>2. \A k \in 1..(n - 1) : u.frames[k].f = fs[k].f
    BY <1>2, <1>4, <1>7, <1>8 DEF Goes, FramesGo
  <2> QED BY <1>2, <1>8, <2>1, <2>2 DEF FramesGo
<1> QED BY <1>7, <1>8, <1>9, <1>10 DEF Goes, b, fs

\* A thread waits for what it calls, or ends with an error.
LEMMA HaltFacts ==
  ASSUME NEW q, NEW meta, NEW t, NEW ld, NEW r, RunOK(q, meta, r, t, ld), r.error = None, r.at = "exec"
  PROVE  /\ [r EXCEPT !.at = "wait"] \in RunType(q) /\ Waits(r, [r EXCEPT !.at = "wait"])
         /\ Ins(q, Last(r.frames)).op \in {"engine", "coroutine"} => RunOK(q, meta, [r EXCEPT !.at = "wait"], t, ld)
         /\ \A e \in {"timeout", "error"} :
              Raised(r, e) \in RunType(q) /\ Ends(r, Raised(r, e)) /\ RunOK(q, meta, Raised(r, e), t, ld)
<1>1. r \in RunType(q) /\ r.level = 0 /\ ~r.found /\ 0 <= Len(r.frames)
  <2>1. r.frames \in Seq(FrameType(q)) /\ r \in RunType(q)
    BY DEF RunOK, RunType
  <2> QED BY <2>1 DEF RunOK
<1>2. PICK w : w = [r EXCEPT !.at = "wait"]
  OBVIOUS
<1>3. /\ w \in RunType(q) /\ Waits(r, w) /\ w.deadline = r.deadline
      /\ w.level = 0 /\ ~w.found /\ w.at = "wait" /\ w.error = None /\ w.frames = r.frames
  BY <1>1, <1>2 DEF RunType, Waits, Halts, Stays
<1>4. Ins(q, Last(r.frames)).op \in {"engine", "coroutine"} => RunOK(q, meta, w, t, ld)
  BY <1>1, <1>3, StaysOK DEF Waits, Halts
<1>5. ASSUME NEW e \in {"timeout", "error"}
      PROVE  Raised(r, e) \in RunType(q) /\ Ends(r, Raised(r, e)) /\ RunOK(q, meta, Raised(r, e), t, ld)
  <2>1. PICK d : d = Raised(r, e)
    OBVIOUS
  <2>2. /\ d \in RunType(q) /\ Ends(r, d) /\ d.deadline = r.deadline
        /\ d.level = 0 /\ ~d.found /\ d.at = "dead" /\ d.error # None /\ d.frames = r.frames
    BY <1>1, <2>1, NoneAssumption DEF RunType, Ends, Halts, Stays, Raised
  <2>3. RunOK(q, meta, d, t, ld)
    BY <1>1, <2>2, StaysOK DEF Ends, Halts
  <2> QED BY <2>1, <2>2, <2>3
<1> QED BY <1>2, <1>3, <1>4, <1>5

\* An instruction of r, the innermost thread of o or that with its deadline renewed.
LEMMA DoesEffect ==
  ASSUME NEW q, q = Programs[program], NEW meta, MetaCode(q, meta), ShapeInv(meta), NEW o \in OSThreads, Busy(o),
         NEW r, RunOK(q, meta, r, now, loaded), r.thread = Top(o).thread, r.error = None, r.at = "exec",
         NEW i, i = Ins(q, Last(r.frames)), Does(o, r, i)
  PROVE  Done(q, meta, o, r)
<1>1. /\ StacksOK(q, meta, runs, now, loaded) /\ IsProgram(q) /\ now \in Nat /\ loaded \subseteq VMs
      /\ DOMAIN runs = OSThreads /\ runs[o] \in Seq(RunType(q)) /\ Top(o) = Last(runs[o])
  BY ShapeFacts, TopFacts DEF StacksOK, Top
<1>2. r \in RunType(q) /\ r.frames \in Seq(FrameType(q)) /\ FramesOK(q, meta, r.frames)
  BY DEF RunOK, RunType
<1>3. /\ Last(r.frames) = r.frames[Len(r.frames)] /\ i = Ins(q, r.frames[Len(r.frames)])
      /\ i.op \in {"call", "meta", "engine", "coroutine"} => i.to \in DOMAIN q.code
  <2>1. Last(r.frames) = r.frames[Len(r.frames)] /\ Len(r.frames) \in 1..Len(r.frames)
    BY <1>2, FrameFacts
  <2>2. Last(r.frames).f \in DOMAIN q.code /\ Last(r.frames).pc \in 1..Len(q.code[Last(r.frames).f])
    BY <1>2, <2>1, FrameFacts
  <2> QED BY <1>1, <2>1, <2>2, CodeFacts DEF Ins
<1>4. ASSUME NEW u \in RunType(q), RunOK(q, meta, u, now, loaded), Goes(q, r, u), SetTop(o, u)
      PROVE  Done(q, meta, o, r)
  <2>1. Retop(q, o, u)
    BY <1>1, <1>4, SetTopRetops
  <2> QED BY <1>4, <2>1 DEF Done
<1>5. CASE i.op \in {"line", "breakpoint"} /\ SetTop(o, Advanced(r))
  <2>1. RunOK(q, meta, Advanced(r), now, loaded) /\ Goes(q, r, Advanced(r)) /\ Advanced(r) \in RunType(q)
    BY <1>1, <1>2, <1>5, AdvancedGoes, AdvancedFacts
  <2> QED BY <1>4, <1>5, <2>1
<1>6. CASE i.op \in {"call", "meta"} /\ SetTop(o, [r EXCEPT !.frames = Append(@, Frame(i.to, i.op = "meta")),
                                                     !.at = "step", !.hooked = FALSE, !.stops = 0])
  BY <1>1, <1>4, <1>6, CallGoes
<1>7. CASE i.op = "loop" /\ SetTop(o, [r EXCEPT !.frames[Depth(r)].pc = 1, !.at = "step", !.hooked = FALSE, !.stops = 0])
  BY <1>1, <1>4, <1>7, LoopGoes
<1>8. ASSUME NEW v \in VMs, v \in loaded, NEW k \in Kinds, Calls(o, r, v, k, i.to),
             \/ i.op = "engine" /\ k = "resume"
             \/ i.op = "coroutine" /\ k = "coroutine"
      PROVE  Done(q, meta, o, r)
  <2> DEFINE u == [r EXCEPT !.at = "wait"]
             n == NewRun(FreeThread, v, k, i.to)
  <2>1. FreeThread # None /\ runs' = [runs EXCEPT ![o] = Append(WithTop(@, u), n)]
    BY <1>8 DEF Calls
  <2>2. u \in RunType(q) /\ Waits(r, u) /\ RunOK(q, meta, u, now, loaded)
    BY <1>8, HaltFacts
  <2>3. FreeThread \in Threads /\ Fresh(FreeThread) /\ FreeThread # debug.L
    BY <1>1, <2>1, FreeThreadFacts
  <2>4. RunOK(q, meta, n, now, loaded) /\ Begins(n, i.to) /\ n.thread = FreeThread /\ n.kind = k
    <3>1. i.to \in DOMAIN q.code /\ k \in Kinds /\ v \in VMs /\ v \in loaded
      BY <1>3, <1>8
    <3> HIDE DEF u
    <3> QED BY ONLY <1>1, <2>3, <3>1, NewRunFacts
  <2> HIDE DEF u, n
  <2>5. n \in RunType(q)
    BY <2>4 DEF RunOK
  <2>6. Push(q, o, u, n)
    BY <1>1, <2>1, <2>2, <2>5, AppendPushes
  <2>7. Makes(q, r, n)
    BY <1>3, <1>8, <2>3, <2>4 DEF Makes
  <2> QED BY <2>2, <2>4, <2>6, <2>7 DEF Done
<1>9. CASE i.op = "engine" /\ Calls(o, r, Programs[program].engine_vm, "resume", i.to)
  <2>1. q.engine_vm \in VMs /\ q.engine_vm \in loaded
    BY <1>1, <1>9, ProgramAssumption DEF IsProgram, Calls
  <2> QED BY <1>8, <1>9, <2>1 DEF Kinds
<1>10. CASE i.op = "coroutine" /\ Calls(o, r, r.vm, "coroutine", i.to)
  <2>1. r.vm \in VMs /\ r.vm \in loaded
    BY <1>2 DEF RunOK, RunType
  <2> QED BY <1>8, <1>10, <2>1 DEF Kinds
<1>11. CASE i.op = "return" /\ runs' = [runs EXCEPT ![o] = Returned(@, r)]
  <2>1. CASE Len(r.frames) = 1
    <3>1. runs' = [runs EXCEPT ![o] = Popped(@)]
      BY <1>1, <1>11, <2>1 DEF Returned, Depth
    <3>2. Drop(q, o)
      BY <1>1, <3>1, PoppedTop
    <3> QED BY <1>3, <1>11, <2>1, <3>2 DEF Done
  <2>2. CASE Len(r.frames) # 1
    <3>1. SetTop(o, Advanced([r EXCEPT !.frames = Front(@)]))
      BY <1>1, <1>11, <2>2 DEF Returned, Depth, SetTop
    <3> QED BY <1>1, <1>4, <1>11, <2>2, <3>1, ReturnGoes
  <2> QED BY <2>1, <2>2
<1>12. CASE i.op = "error" /\ SetTop(o, Raised(r, "error"))
  <2>1. Raised(r, "error") \in RunType(q) /\ Ends(r, Raised(r, "error")) /\ RunOK(q, meta, Raised(r, "error"), now, loaded)
    BY HaltFacts
  <2>2. Retop(q, o, Raised(r, "error"))
    BY <1>1, <1>12, <2>1, SetTopRetops
  <2> QED BY <1>3, <1>12, <2>1, <2>2 DEF Done
<1>13. \/ i.op \in {"line", "breakpoint"} /\ SetTop(o, Advanced(r))
       \/ i.op \in {"call", "meta"} /\ SetTop(o, [r EXCEPT !.frames = Append(@, Frame(i.to, i.op = "meta")),
                                                     !.at = "step", !.hooked = FALSE, !.stops = 0])
       \/ i.op = "loop" /\ SetTop(o, [r EXCEPT !.frames[Depth(r)].pc = 1, !.at = "step", !.hooked = FALSE, !.stops = 0])
       \/ i.op = "engine" /\ Calls(o, r, Programs[program].engine_vm, "resume", i.to)
       \/ i.op = "coroutine" /\ Calls(o, r, r.vm, "coroutine", i.to)
       \/ i.op = "return" /\ runs' = [runs EXCEPT ![o] = Returned(@, r)]
       \/ i.op = "error" /\ SetTop(o, Raised(r, "error"))
  BY Zenon DEF Does
<1> QED BY <1>5, <1>6, <1>7, <1>9, <1>10, <1>11, <1>12, <1>13

\* Exec, of the innermost thread as it was.
LEMMA ExecEffect ==
  ASSUME NEW q, q = Programs[program], NEW meta, MetaCode(q, meta), ShapeInv(meta), NEW o \in OSThreads, Exec(o)
  PROVE  /\ Busy(o) /\ Top(o).at = "exec" /\ Top(o).error = None /\ Executed(q, meta, o, Top(o))
<1> DEFINE r == Top(o)
           i == Ins(q, Last(r.frames))
<1>1. At(o, "exec") /\ Busy(o) /\ r.at = "exec"
  BY DEF Exec, At
<1>2. StacksOK(q, meta, runs, now, loaded) /\ now \in Nat
  BY ShapeFacts
<1>3. RunOK(q, meta, r, now, loaded) /\ runs[o] \in Seq(RunType(q)) /\ DOMAIN runs = OSThreads
  BY <1>1, <1>2, TopFacts DEF StacksOK
<1>4. r.error = None
  BY <1>1, <1>3 DEF RunOK
<1>5. i = Instr(Here(r))
  BY DEF Ins, Instr, Code, Here
<1>6. r.frames \in Seq(FrameType(q)) /\ Last(r.frames) = r.frames[Len(r.frames)]
  <2>1. r.frames \in Seq(FrameType(q)) /\ FramesOK(q, meta, r.frames)
    BY <1>3 DEF RunOK, RunType
  <2> QED BY <2>1, FrameFacts
<1>7. CASE i.op \in Interrupting /\ Expired(r) /\ SetTop(o, Raised(r, "timeout"))
  <2>1. Raised(r, "timeout") \in RunType(q) /\ Ends(r, Raised(r, "timeout")) /\ RunOK(q, meta, Raised(r, "timeout"), now, loaded)
    BY <1>1, <1>3, <1>4, HaltFacts
  <2>2. Retop(q, o, Raised(r, "timeout"))
    BY <1>1, <1>3, <1>7, <2>1, SetTopRetops
  <2> QED BY <1>1, <1>4, <1>6, <1>7, <2>1, <2>2 DEF Executed
<1>8. CASE Does(o, r, i)
  BY <1>1, <1>3, <1>4, <1>8, DoesEffect DEF Executed
<1>9. CASE Does(o, Renewed(r), i) /\ i.op \in Interrupting
  <2> DEFINE w == Renewed(r)
  <2>1. /\ RunOK(q, meta, w, now, loaded)
        /\ w.thread = r.thread /\ w.vm = r.vm /\ w.kind = r.kind /\ w.frames = r.frames /\ w.at = r.at
        /\ w.error = r.error /\ w.step = r.step /\ w.level = r.level /\ w.found = r.found
        /\ w.hooked = r.hooked /\ w.stops = r.stops /\ w.broke = r.broke
    BY <1>2, <1>3, RenewedFacts
  <2> HIDE DEF w
  <2>2. i = Ins(q, Last(w.frames)) /\ Does(o, w, i)
    BY <1>9, <2>1 DEF w
  <2>3. Done(q, meta, o, w)
    <3>1. w.error = None /\ w.at = "exec" /\ w.thread = Top(o).thread
      BY <1>1, <1>4, <2>1
    <3> HIDE DEF r, i
    <3> QED BY <1>1, <2>1, <2>2, <3>1, DoesEffect
  <2>4. i = Ins(q, w.frames[Len(w.frames)]) /\ i = Ins(q, r.frames[Len(r.frames)])
    BY <1>6, <2>1
  <2>5. i.op # "error"
    BY <1>9 DEF Interrupting
  <2>6. ASSUME NEW u, Goes(q, w, u) PROVE Goes(q, r, u)
    BY <2>1, <2>6 DEF Goes, GoesOn, FramesGo
  <2>7. ASSUME NEW u, Waits(w, u) PROVE Waits(r, u)
    BY <2>1, <2>7 DEF Waits, Halts, Stays
  <2>8. ASSUME NEW n, Makes(q, w, n) PROVE Makes(q, r, n)
    BY <2>1, <2>8 DEF Makes
  <2>9. Len(w.frames) = Len(r.frames)
    BY <2>1
  <2> HIDE DEF r, i
  <2> QED BY <1>1, <1>4, <2>3, <2>4, <2>5, <2>6, <2>7, <2>8, <2>9 DEF Done, Executed, r
<1>10. \/ i.op \in Interrupting /\ Expired(r) /\ SetTop(o, Raised(r, "timeout"))
       \/ Does(o, r, i)
       \/ Does(o, Renewed(r), i) /\ i.op \in Interrupting
  BY <1>5 DEF Exec
<1> QED BY <1>1, <1>4, <1>7, <1>8, <1>9, <1>10

----------------------------------------------------------------------------
(* What the hooks, the walk and the break do.                                  *)

\* The thread is as it was, but for where it is in its instruction.
AsWas(r, u) == u.error = r.error /\ u.level = r.level /\ u.found = r.found /\ u.broke = r.broke
Hooks(r, u, at) == Halts(r, u, at) /\ AsWas(r, u)

\* A walk of the stack of r begins, for a step or not.
WalkStarts(r, u, is) ==
  /\ Stays(r, u) /\ AsWas(r, u)
  /\ u.at = "walk" /\ u.step = is /\ u.level = 0 /\ ~u.found /\ u.hooked = r.hooked /\ u.stops = r.stops

\* The debugger is at r.
Rebinds(r, single) ==
  /\ DOMAIN debug' = {"L", "error", "shown", "depth", "base"}
  /\ debug'.L = r.thread /\ debug'.error = (IF r.error = None THEN "Breakpoint" ELSE r.error)
  /\ debug'.shown = << >>
  /\ debug.L = r.thread => debug'.depth = debug.depth /\ debug'.base = debug.base /\ singlestep' = single
  /\ debug.L # r.thread => debug'.depth = -1 /\ debug'.base = None /\ singlestep' = single \ {debug.L}

LEMMA HookFacts ==
  ASSUME NEW q, NEW meta, NEW t, NEW ld, NEW r, RunOK(q, meta, r, t, ld), r.error = None, r.at \in {"step", "break"}
  PROVE  \A x \in {"break", "exec"} :
           LET u == [r EXCEPT !.at = x] IN
           u \in RunType(q) /\ RunOK(q, meta, u, t, ld) /\ Hooks(r, u, x)
<1>1. r \in RunType(q) /\ r.level = 0 /\ ~r.found /\ 0 <= Len(r.frames)
  <2>1. r.frames \in Seq(FrameType(q)) /\ r \in RunType(q)
    BY DEF RunOK, RunType
  <2> QED BY <2>1 DEF RunOK
<1>2. ASSUME NEW x \in {"break", "exec"}
      PROVE  LET u == [r EXCEPT !.at = x] IN
             u \in RunType(q) /\ RunOK(q, meta, u, t, ld) /\ Hooks(r, u, x)
  <2>1. PICK u : u = [r EXCEPT !.at = x]
    OBVIOUS
  <2>2. u \in RunType(q) /\ Hooks(r, u, x) /\ u.deadline = r.deadline /\ u.at = x
    BY <1>1, <2>1 DEF RunType, Hooks, Halts, Stays, AsWas
  <2>3. Stays(r, u) /\ u.level = 0 /\ ~u.found /\ u.error = None
    BY <1>1, <2>2 DEF Hooks, Halts, AsWas
  <2>4. u.level <= Len(u.frames)
    BY <1>1, <2>3 DEF Stays
  <2>5. RunOK(q, meta, u, t, ld)
    BY <2>2, <2>3, <2>4, StaysOK
  <2> QED BY <2>1, <2>2, <2>5
<1> QED BY <1>2

LEMMA MarkFacts ==
  ASSUME NEW q, NEW meta, NEW t, NEW ld, NEW r, RunOK(q, meta, r, t, ld), r.error = None, r.at \in {"step", "break"}
  PROVE  LET u == [r EXCEPT !.hooked = TRUE] IN
         /\ u \in RunType(q) /\ RunOK(q, meta, u, t, ld) /\ Stays(r, u) /\ AsWas(r, u)
         /\ u.at = r.at /\ u.hooked = TRUE /\ u.stops = r.stops /\ u.step = r.step
<1>1. r \in RunType(q) /\ r.level = 0 /\ ~r.found /\ 0 <= Len(r.frames)
  <2>1. r.frames \in Seq(FrameType(q)) /\ r \in RunType(q)
    BY DEF RunOK, RunType
  <2> QED BY <2>1 DEF RunOK
<1>2. LET u == [r EXCEPT !.hooked = TRUE] IN
      /\ u \in RunType(q) /\ RunOK(q, meta, u, t, ld) /\ Stays(r, u) /\ AsWas(r, u)
      /\ u.at = r.at /\ u.hooked = TRUE /\ u.stops = r.stops /\ u.step = r.step
  <2>1. PICK u : u = [r EXCEPT !.hooked = TRUE]
    OBVIOUS
  <2>2. /\ u \in RunType(q) /\ Stays(r, u) /\ AsWas(r, u) /\ u.deadline = r.deadline
        /\ u.at = r.at /\ u.hooked = TRUE /\ u.stops = r.stops /\ u.step = r.step
    BY <1>1, <2>1 DEF RunType, Stays, AsWas
  <2>3. u.level = 0 /\ ~u.found /\ u.error = None /\ u.level <= Len(u.frames)
    BY <1>1, <2>2 DEF AsWas, Stays
  <2>4. RunOK(q, meta, u, t, ld)
    BY <2>2, <2>3, StaysOK
  <2> QED BY <2>1, <2>2, <2>4
<1> QED BY <1>2

\* A break that is not refused.
LEMMA BreakEffect ==
  ASSUME NEW q, NEW meta, NEW t, NEW ld, StacksOK(q, meta, runs, t, ld), NEW o \in OSThreads, Busy(o),
         NEW r, RunOK(q, meta, r, t, ld), r.at # "walk", NEW is \in BOOLEAN, r.error # None => ~is,
         DOMAIN debug = {"L", "error", "shown", "depth", "base"},
         NEW single, NEW passed, ~debugging, debug_break(o, r, is, single, passed)
  PROVE  /\ \E u : Retop(q, o, u) /\ RunOK(q, meta, u, t, ld) /\ WalkStarts(r, u, is)
         /\ Rebinds(r, single)
<1>1. r \in RunType(q) /\ r.level = 0 /\ ~r.found /\ 0 <= Len(r.frames)
  <2>1. r.frames \in Seq(FrameType(q)) /\ r \in RunType(q)
    BY DEF RunOK, RunType
  <2> QED BY <2>1 DEF RunOK
<1>2. /\ SetTop(o, [r EXCEPT !.at = "walk", !.step = is])
      /\ singlestep' = debug_reset(single, r) /\ debug' = break_start(debug, r)
  BY DEF debug_break
<1>3. PICK u : u = [r EXCEPT !.at = "walk", !.step = is]
  OBVIOUS
<1>4. u \in RunType(q) /\ WalkStarts(r, u, is) /\ u.deadline = r.deadline
  BY <1>1, <1>3 DEF RunType, WalkStarts, Stays, AsWas
<1>5. RunOK(q, meta, u, t, ld)
  <2>1. Stays(r, u) /\ u.level = 0 /\ ~u.found /\ u.error = r.error /\ u.at = "walk" /\ u.step = is
    BY <1>4 DEF WalkStarts, AsWas
  <2>2. u.level <= Len(u.frames)
    BY <1>1, <2>1 DEF Stays
  <2> QED BY <1>4, <2>1, <2>2, StaysOK
<1>6. Retop(q, o, u)
  <2>1. DOMAIN runs = OSThreads /\ runs[o] \in Seq(RunType(q)) /\ SetTop(o, u)
    BY <1>2, <1>3 DEF StacksOK, StackOK
  <2> QED BY <1>4, <2>1, SetTopRetops
<1>7. Rebinds(r, single)
  <2>1. CASE debug.L = r.thread
    BY <1>2, <2>1 DEF break_start, debug_reset, Rebinds
  <2>2. CASE debug.L # r.thread
    BY <1>2, <2>2 DEF break_start, debug_reset, Rebinds, NoDebug
  <2> QED BY <2>1, <2>2
<1> QED BY <1>4, <1>5, <1>6, <1>7

\* The walk goes on.
WalksOn(r, u) ==
  /\ Stays(r, u) /\ u.at = "walk" /\ u.error = r.error /\ u.step = r.step
  /\ u.hooked = r.hooked /\ u.stops = r.stops

\* The debugger shows a frame.
ShowsFrame(q, r, fr) ==
  /\ DOMAIN debug' = {"L", "error", "shown", "depth", "base"}
  /\ debug'.L = debug.L /\ debug'.error = debug.error /\ debug'.depth = debug.depth
  /\ debug'.shown = Append(debug.shown, [f |-> fr.f, line |-> Ins(q, fr).line])
  /\ debug'.base = IF ~r.step /\ r.level = 0 THEN fr.f ELSE debug.base

LEMMA WalkLevelEffect ==
  ASSUME NEW q, q = Programs[program], NEW meta, ShapeInv(meta), NEW o \in OSThreads, WalkLevel(o)
  PROVE  LET r == Top(o)
             fr == r.frames[Len(r.frames) - r.level] IN
         /\ Busy(o) /\ r.at = "walk" /\ r.level < Len(r.frames)
         /\ \/ \E u, n : /\ Push(q, o, u, n) /\ RunOK(q, meta, u, now, loaded) /\ RunOK(q, meta, n, now, loaded)
                         /\ WalksOn(r, u) /\ u.level = r.level /\ u.found = r.found
                         /\ Begins(n, q.getter) /\ n.kind = "resume" /\ Fresh(n.thread) /\ n.thread # debug.L
                         /\ q.getter # None /\ UNCHANGED debug
            \/ \E u : /\ Retop(q, o, u) /\ RunOK(q, meta, u, now, loaded)
                      /\ WalksOn(r, u) /\ u.level = r.level + 1
                      /\ u.found = (r.found \/ (r.step /\ fr.f = debug.base))
                      /\ ShowsFrame(q, r, fr)
<1> DEFINE r == Top(o)
           fr == r.frames[Len(r.frames) - r.level]
<1>1. At(o, "walk") /\ Busy(o) /\ r.at = "walk" /\ r.level < Len(r.frames)
  BY DEF WalkLevel, At, Depth
<1>2. /\ StacksOK(q, meta, runs, now, loaded) /\ IsProgram(q) /\ now \in Nat /\ loaded \subseteq VMs
      /\ DOMAIN debug = {"L", "error", "shown", "depth", "base"}
  BY ShapeFacts DEF ShapeInv
<1>3. /\ RunOK(q, meta, r, now, loaded) /\ r \in RunType(q) /\ runs[o] \in Seq(RunType(q)) /\ DOMAIN runs = OSThreads
      /\ r.vm \in loaded
  BY <1>1, <1>2, TopFacts DEF StacksOK, RunOK
<1>4. r.level \in Nat /\ Len(r.frames) \in Nat /\ r.vm \in VMs
  <2>1. r.frames \in Seq(FrameType(q)) /\ r.level \in Nat /\ r.vm \in VMs
    BY <1>3 DEF RunType
  <2> QED BY <2>1
<1>5. CASE /\ Programs[program].getter # None /\ FreeThread # None
           /\ runs' = [runs EXCEPT ![o] = Append(WithTop(@, [r EXCEPT !.got = TRUE]),
                                                 NewRun(FreeThread, r.vm, "resume", Programs[program].getter))]
           /\ UNCHANGED debug
  <2> DEFINE n == NewRun(FreeThread, r.vm, "resume", q.getter)
  <2>1. PICK u : u = [r EXCEPT !.got = TRUE]
    OBVIOUS
  <2>2. u \in RunType(q) /\ WalksOn(r, u) /\ u.level = r.level /\ u.found = r.found /\ u.deadline = r.deadline
    BY <1>1, <1>3, <2>1 DEF RunType, WalksOn, Stays
  <2>3. RunOK(q, meta, u, now, loaded)
    <3>1. Stays(r, u) /\ u.at = "walk" /\ u.error = r.error /\ u.step = r.step
      BY <2>2 DEF WalksOn
    <3>2. u.level <= Len(u.frames)
      BY <1>1, <1>4, <2>2, <3>1 DEF Stays
    <3>3. u.error # None => ~u.step
      BY <1>1, <1>3, <3>1 DEF RunOK
    <3> QED BY <1>3, <2>2, <3>1, <3>2, <3>3, StaysOK
  <2>4. FreeThread \in Threads /\ Fresh(FreeThread) /\ FreeThread # debug.L
    BY <1>2, <1>5, FreeThreadFacts
  <2>5. q.getter \in DOMAIN q.code
    BY <1>2, <1>5, ProgramAssumption DEF IsProgram
  <2>6. "resume" \in Kinds
    BY DEF Kinds
  <2>7. RunOK(q, meta, n, now, loaded) /\ Begins(n, q.getter) /\ n.thread = FreeThread /\ n.kind = "resume"
    BY <1>2, <1>3, <1>4, <2>4, <2>5, <2>6, NewRunFacts
  <2> HIDE DEF n
  <2>8. n \in RunType(q)
    BY <2>7 DEF RunOK
  <2>9. runs' = [runs EXCEPT ![o] = Append(WithTop(@, u), n)]
    BY <1>5, <2>1 DEF n
  <2>10. Push(q, o, u, n)
    BY <1>1, <1>3, <2>2, <2>8, <2>9, AppendPushes
  <2> QED BY <1>1, <1>5, <2>2, <2>3, <2>4, <2>7, <2>10
<1>6. CASE /\ debug' = [debug EXCEPT !.shown = Append(@, [f |-> fr.f, line |-> Instr(fr).line]),
                                    !.base = IF ~r.step /\ r.level = 0 THEN fr.f ELSE @]
           /\ SetTop(o, [r EXCEPT !.level = @ + 1, !.got = FALSE,
                                 !.found = @ \/ (r.step /\ fr.f = debug.base)])
  <2> DEFINE b == r.found \/ (r.step /\ fr.f = debug.base)
             l == r.level + 1
  <2>1. PICK u : u = [r EXCEPT !.level = @ + 1, !.got = FALSE,
                               !.found = @ \/ (r.step /\ fr.f = debug.base)]
    OBVIOUS
  <2>2. l \in Nat
    BY <1>4
  <2>3. b \in BOOLEAN
    OBVIOUS
  <2>4. u = [r EXCEPT !.level = l, !.got = FALSE, !.found = b]
    BY <1>3, <2>1 DEF RunType
  <2> HIDE DEF b, l
  <2>5. u \in RunType(q) /\ WalksOn(r, u) /\ u.level = l /\ u.found = b /\ u.deadline = r.deadline
    BY <1>1, <1>3, <2>2, <2>3, <2>4 DEF RunType, WalksOn, Stays
  <2>6. RunOK(q, meta, u, now, loaded)
    <3>1. Stays(r, u) /\ u.at = "walk" /\ u.error = r.error /\ u.step = r.step
      BY <2>5 DEF WalksOn
    <3>2. u.level <= Len(u.frames)
      BY <1>1, <1>4, <2>5, <3>1 DEF Stays, l
    <3>3. u.error # None => ~u.step
      BY <1>1, <1>3, <3>1 DEF RunOK
    <3> QED BY <1>3, <2>5, <3>1, <3>2, <3>3, StaysOK
  <2>7. SetTop(o, u)
    BY <1>6, <2>1
  <2>8. Retop(q, o, u)
    BY <1>1, <1>3, <2>5, <2>7, SetTopRetops
  <2>9. ShowsFrame(q, r, fr)
    BY <1>2, <1>6 DEF ShowsFrame, Instr, Code, Ins
  <2> QED BY <1>1, <2>5, <2>6, <2>8, <2>9 DEF b, l
<1>7. \/ /\ Programs[program].getter # None /\ FreeThread # None
         /\ runs' = [runs EXCEPT ![o] = Append(WithTop(@, [r EXCEPT !.got = TRUE]),
                                               NewRun(FreeThread, r.vm, "resume", Programs[program].getter))]
         /\ UNCHANGED debug
      \/ /\ debug' = [debug EXCEPT !.shown = Append(@, [f |-> fr.f, line |-> Instr(fr).line]),
                                   !.base = IF ~r.step /\ r.level = 0 THEN fr.f ELSE @]
         /\ SetTop(o, [r EXCEPT !.level = @ + 1, !.got = FALSE,
                                !.found = @ \/ (r.step /\ fr.f = debug.base)])
  BY DEF WalkLevel, Depth
<1> QED BY <1>5, <1>6, <1>7

\* A walk ends: the user looks at the thread, or it goes on.
LEMMA WalkEndsEffect ==
  ASSUME NEW q, q = Programs[program], NEW meta, ShapeInv(meta), NEW o \in OSThreads, WalkEnds(o), ~InC(Top(o))
  PROVE  LET r == Top(o) IN
         /\ Busy(o) /\ r.at = "walk" /\ r.level = Len(r.frames)
         /\ debug' = [debug EXCEPT !.depth = Len(r.frames)]
         /\ debugging' = (debugging \/ ~left_base(r))
         /\ \E u : /\ Retop(q, o, u) /\ RunOK(q, meta, u, now, loaded) /\ Stays(r, u)
                   /\ u.error = r.error /\ u.hooked = r.hooked
                   /\ left_base(r) => u.at = "break" /\ ~u.step /\ u.stops = r.stops
                   /\ ~left_base(r) => /\ u.at = "debug" /\ u.step = r.step
                                       /\ u.stops = IF r.step \/ r.error # None THEN r.stops ELSE r.stops + 1
<1> DEFINE r == Top(o)
           w == [r EXCEPT !.level = 0, !.found = FALSE]
           a == [w EXCEPT !.at = "break", !.step = FALSE]
           d == [w EXCEPT !.at = "debug", !.broke = TRUE,
                          !.stops = IF r.step \/ r.error # None THEN @ ELSE @ + 1]
<1>1. At(o, "walk") /\ Busy(o) /\ r.at = "walk" /\ r.level = Len(r.frames)
  BY DEF WalkEnds, At, Depth
<1>2. StacksOK(q, meta, runs, now, loaded)
  BY ShapeFacts
<1>3. RunOK(q, meta, r, now, loaded) /\ r \in RunType(q) /\ runs[o] \in Seq(RunType(q)) /\ DOMAIN runs = OSThreads
  BY <1>1, <1>2, TopFacts DEF StacksOK
<1>4. 0 <= Len(r.frames) /\ r.stops + 1 \in Nat /\ r.stops \in Nat
  <2>1. r.frames \in Seq(FrameType(q)) /\ r.stops \in Nat
    BY <1>3 DEF RunType
  <2> QED BY <2>1
<1>5. ASSUME left_base(r)
      PROVE  a \in RunType(q) /\ RunOK(q, meta, a, now, loaded) /\ Stays(r, a)
             /\ a.error = r.error /\ a.hooked = r.hooked /\ a.at = "break" /\ ~a.step /\ a.stops = r.stops
  <2>1. r.error = None
    BY <1>1, <1>3, <1>5 DEF left_base, RunOK
  <2>2. PICK x : x = a
    OBVIOUS
  <2>3. /\ x \in RunType(q) /\ Stays(r, x) /\ x.error = r.error /\ x.hooked = r.hooked
        /\ x.at = "break" /\ ~x.step /\ x.stops = r.stops /\ x.level = 0 /\ ~x.found /\ x.deadline = r.deadline
    BY <1>3, <2>2 DEF RunType, Stays
  <2>4. x.level <= Len(x.frames)
    BY <1>4, <2>3 DEF Stays
  <2>5. RunOK(q, meta, x, now, loaded)
    BY <1>3, <2>1, <2>3, <2>4, StaysOK
  <2> QED BY <2>2, <2>3, <2>5
<1>6. /\ d \in RunType(q) /\ RunOK(q, meta, d, now, loaded) /\ Stays(r, d)
      /\ d.error = r.error /\ d.hooked = r.hooked /\ d.at = "debug" /\ d.step = r.step
      /\ d.stops = IF r.step \/ r.error # None THEN r.stops ELSE r.stops + 1
  <2> DEFINE k == IF r.step \/ r.error # None THEN r.stops ELSE r.stops + 1
  <2>1. k \in Nat
    BY <1>4
  <2>2. d = [r EXCEPT !.level = 0, !.found = FALSE, !.at = "debug", !.broke = TRUE, !.stops = k]
    BY <1>3 DEF RunType
  <2> HIDE DEF k
  <2>3. PICK x : x = [r EXCEPT !.level = 0, !.found = FALSE, !.at = "debug", !.broke = TRUE, !.stops = k]
    OBVIOUS
  <2>4. /\ x \in RunType(q) /\ Stays(r, x) /\ x.error = r.error /\ x.hooked = r.hooked
        /\ x.at = "debug" /\ x.step = r.step /\ x.stops = k /\ x.level = 0 /\ ~x.found /\ x.deadline = r.deadline
    BY <1>3, <2>1, <2>3 DEF RunType, Stays
  <2>5. x.level <= Len(x.frames)
    BY <1>4, <2>4 DEF Stays
  <2>6. RunOK(q, meta, x, now, loaded)
    BY <1>3, <2>4, <2>5, StaysOK
  <2> QED BY <2>2, <2>3, <2>4, <2>6 DEF k
<1>7. SetTop(o, IF left_base(r) THEN a ELSE d)
  BY DEF WalkEnds
<1>8. debug' = [debug EXCEPT !.depth = Len(r.frames)] /\ debugging' = (debugging \/ ~left_base(r))
  BY DEF WalkEnds, Depth
<1> HIDE DEF a, d, r
<1>9. CASE left_base(r)
  <2>1. SetTop(o, a) /\ Retop(q, o, a)
    BY <1>1, <1>3, <1>5, <1>7, <1>9, SetTopRetops
  <2> QED BY <1>1, <1>5, <1>8, <1>9, <2>1 DEF r
<1>10. CASE ~left_base(r)
  <2>1. SetTop(o, d) /\ Retop(q, o, d)
    BY <1>1, <1>3, <1>6, <1>7, <1>10, SetTopRetops
  <2> QED BY <1>1, <1>6, <1>8, <1>10, <2>1 DEF r
<1> QED BY <1>9, <1>10

\* A thread as it was, but for its history.
Alike(r, u) == Halts(r, u, r.at) /\ AsWas(r, u)

\* What called a thread does not see that it was looked at.
LEMMA AlikeWakes ==
  ASSUME NEW r, NEW x, NEW d, NEW e, NEW u, Alike(r, x), d.broke = e.broke, Wakes(x, d, u)
  PROVE  Wakes(r, e, u)
<1>1. CASE GoesOn(x, u) /\ SameFunctions(x, u) /\ (~d.broke => u.broke = x.broke)
  <2>1. GoesOn(r, u)
    BY <1>1 DEF Alike, Halts, Stays, AsWas, GoesOn
  <2>2. SameFunctions(r, u) /\ (~e.broke => u.broke = r.broke)
    BY <1>1 DEF Alike, Halts, Stays, AsWas, SameFunctions
  <2> QED BY <2>1, <2>2 DEF Wakes
<1>2. CASE d.broke /\ Ends(x, u)
  <2>1. Ends(r, u)
    BY <1>2 DEF Alike, Halts, Stays, AsWas, Ends
  <2> QED BY <1>2, <2>1 DEF Wakes
<1> QED BY <1>1, <1>2 DEF Wakes

LEMMA RestedFacts ==
  ASSUME NEW q, NEW meta, now \in Nat, NEW t, NEW ld, NEW r, RunOK(q, meta, r, t, ld)
  PROVE  Rested(r) \in RunType(q) /\ RunOK(q, meta, Rested(r), t, ld) /\ Alike(r, Rested(r))
<1>1. r \in RunType(q)
  BY DEF RunOK
<1>2. PICK u : u = Rested(r)
  OBVIOUS
<1>3. CASE r.error = None
  <2>1. u = [r EXCEPT !.since = now]
    BY <1>1, <1>2, <1>3 DEF Rested, RunType
  <2>2. u \in RunType(q) /\ Alike(r, u) /\ u.deadline = r.deadline
    BY <1>1, <2>1 DEF RunType, Alike, Halts, Stays, AsWas
  <2>3. RunOK(q, meta, u, t, ld)
    BY <2>2 DEF RunOK, Alike, Halts, Stays, AsWas
  <2> QED BY <1>2, <2>2, <2>3
<1>4. CASE r.error # None
  <2>1. Rested(r) = r
    BY <1>1, <1>4 DEF Rested, RunType
  <2> QED BY <1>1, <2>1 DEF Alike, Halts, Stays, AsWas
<1> QED BY <1>3, <1>4

\* The threads of o after the user looked at the innermost one: it goes on, or
\* what called it.
Resumes(q, meta, o) ==
  LET s == runs[o]
      z == runs'[o]
      n == Len(runs[o]) IN
  /\ Top(o).error = None /\ Len(z) = n
  /\ \A i \in 1..(n - 1) : Alike(s[i], z[i])
  /\ Halts(s[n], z[n], "step") \/ (Stays(s[n], z[n]) /\ z[n].at = "step" /\ z[n].hooked = s[n].hooked /\ z[n].stops = s[n].stops)
  /\ z[n].error = None /\ z[n].step = FALSE
Unwinds(q, meta, o) ==
  LET s == runs[o]
      z == runs'[o]
      n == Len(runs[o]) IN
  /\ Top(o).error # None /\ Len(z) = n - 1
  /\ \A i \in 1..(n - 2) : Alike(s[i], z[i])
  /\ n >= 2 /\ s[n - 1].at # "wait" => Alike(s[n - 1], z[n - 1])
  /\ n >= 2 /\ s[n - 1].at = "wait" => Wakes(s[n - 1], s[n], z[n - 1])

LEMMA DebugEndsEffect ==
  ASSUME NEW q, q = Programs[program], NEW meta, ShapeInv(meta), NEW o \in OSThreads, DebugEnds(o)
  PROVE  /\ Busy(o) /\ Top(o).at = "debug" /\ OnlyOf(o)
         /\ Resumes(q, meta, o) \/ Unwinds(q, meta, o)
         /\ StacksOK(q, meta, runs', now, loaded)
<1> DEFINE r == Top(o)
           s == [i \in DOMAIN runs[o] |-> Rested(runs[o][i])]
           n == Len(runs[o])
           e == [Last(s) EXCEPT !.at = "step", !.step = FALSE]
<1>1. At(o, "debug") /\ Busy(o) /\ r.at = "debug"
  BY DEF DebugEnds, At
<1>2. StacksOK(q, meta, runs, now, loaded) /\ IsProgram(q) /\ now \in Nat
  BY ShapeFacts
<1>3. /\ runs[o] \in Seq(RunType(q)) /\ DOMAIN runs = OSThreads /\ StackOK(q, meta, runs[o], now, loaded)
      /\ n \in Nat /\ n >= 1 /\ r = runs[o][n] /\ RunOK(q, meta, r, now, loaded) /\ r \in RunType(q)
  BY <1>1, <1>2, TopFacts DEF StacksOK
<1>4. ASSUME NEW i \in 1..n
      PROVE  /\ Rested(runs[o][i]) \in RunType(q) /\ RunOK(q, meta, Rested(runs[o][i]), now, loaded)
             /\ Alike(runs[o][i], Rested(runs[o][i]))
  <2>1. RunOK(q, meta, runs[o][i], now, loaded)
    BY <1>3 DEF StackOK
  <2> QED BY <1>2, <2>1, RestedFacts
<1>5. DOMAIN runs[o] = 1..n
  BY <1>3
<1>6. s \in Seq(RunType(q)) /\ Len(s) = n /\ \A i \in 1..n : s[i] = Rested(runs[o][i])
  BY <1>3, <1>4, <1>5
<1>7. PICK x : x = s
  OBVIOUS
<1>8. /\ x \in Seq(RunType(q)) /\ Len(x) = n
      /\ \A i \in 1..n : RunOK(q, meta, x[i], now, loaded) /\ Alike(runs[o][i], x[i])
  BY <1>4, <1>6, <1>7
<1>9. x # << >> /\ Last(x) = x[n]
  <2>1. x # << >>
    BY <1>3, <1>8
  <2> QED BY <1>8, <2>1, FrontFacts
<1>10. StackOK(q, meta, x, now, loaded)
  <2>1. \A i \in 1..(n - 1) : x[i].at \in {"wait", "walk"}
    BY <1>3, <1>8 DEF StackOK, Alike, Halts
  <2> QED BY <1>8, <2>1 DEF StackOK
<1>11. runs' = [runs EXCEPT ![o] = IF r.error # None THEN Popped(x)
                                   ELSE WithTop(x, [Last(x) EXCEPT !.at = "step", !.step = FALSE])]
  BY <1>7 DEF DebugEnds
<1> HIDE DEF s, e, r
<1>12. CASE r.error # None
  <2>1. runs' = [runs EXCEPT ![o] = Popped(x)]
    BY <1>11, <1>12
  <2>2. DropOf(q, o, x)
    BY <1>2, <1>3, <1>8, <1>9, <1>10, <2>1, PoppedDrops
  <2>3. \A i \in 1..(n - 2) : runs'[o][i] = x[i]
    BY <1>8, <2>2 DEF DropOf
  <2>3a. ASSUME n >= 2
         PROVE  /\ RunOK(q, meta, runs'[o][n - 1], now, loaded) /\ runs'[o][n - 1].thread = x[n - 1].thread
                /\ x[n - 1].at = "wait" => Wakes(x[n - 1], x[n], runs'[o][n - 1])
                /\ x[n - 1].at # "wait" => runs'[o][n - 1] = x[n - 1]
    <3>1. runs'[o][n - 1] = Woken(x[n - 1], x[n])
      BY <1>8, <2>2, <2>3a DEF DropOf
    <3>2. RunOK(q, meta, x[n - 1], now, loaded) /\ x[n] \in RunType(q)
      BY <1>3, <1>8, <2>3a
    <3> QED BY <1>2, <3>1, <3>2, WokenFacts
  <2>4. ASSUME n >= 2, x[n - 1].at = "wait"
        PROVE  Wakes(x[n - 1], x[n], runs'[o][n - 1])
    BY <2>4, <2>3a
  <2>5. n >= 2 /\ x[n - 1].at # "wait" => runs'[o][n - 1] = x[n - 1]
    BY <2>3a
  <2>6. \A i \in 1..(n - 1) : RunOK(q, meta, runs'[o][i], now, loaded) /\ runs'[o][i].thread = runs[o][i].thread
    <3> SUFFICES ASSUME NEW i \in 1..(n - 1)
                 PROVE  RunOK(q, meta, runs'[o][i], now, loaded) /\ runs'[o][i].thread = runs[o][i].thread
      OBVIOUS
    <3>1. RunOK(q, meta, x[i], now, loaded) /\ x[i].thread = runs[o][i].thread
      BY <1>3, <1>8 DEF Alike, Halts, Stays
    <3>2. CASE i = n - 1
      <4>1. n >= 2
        BY <1>3
      <4> QED BY <2>3a, <3>1, <3>2, <4>1
    <3>3. CASE i # n - 1
      BY <1>3, <2>3, <3>1, <3>3
    <3> QED BY <3>2, <3>3
  <2>7. Len(runs'[o]) = n - 1 /\ runs'[o] \in Seq(RunType(q)) /\ OnlyOf(o)
    BY <1>8, <2>2 DEF DropOf
  <2>8. StackOK(q, meta, runs'[o], now, loaded)
    <3>1. \A i \in 1..(n - 2) : runs'[o][i].at \in {"wait", "walk"}
      BY <1>3, <1>8, <1>10, <2>3 DEF StackOK
    <3> QED BY <1>3, <2>6, <2>7, <3>1 DEF StackOK
  <2>9. StacksOK(q, meta, runs', now, loaded)
    <3>1. \A p \in OSThreads : \A i \in 1..Len(runs'[p]) : i \in 1..Len(runs[p]) /\ runs'[p][i].thread = runs[p][i].thread
      BY <1>3, <2>6, <2>7 DEF OnlyOf
    <3>2. Apart(runs')
      BY <1>2, <3>1 DEF StacksOK, Apart
    <3> QED BY <1>2, <2>7, <2>8, <3>2 DEF StacksOK, OnlyOf
  <2>10. Unwinds(q, meta, o)
    <3>1. n >= 2 => Alike(runs[o][n - 1], x[n - 1]) /\ x[n - 1].at = runs[o][n - 1].at
      BY <1>3, <1>8 DEF Alike, Halts
    <3>2. n >= 2 /\ runs[o][n - 1].at = "wait" => Wakes(runs[o][n - 1], runs[o][n], runs'[o][n - 1])
      <4>1. x[n].broke = runs[o][n].broke
        BY <1>3, <1>8 DEF Alike, AsWas
      <4> QED BY <2>4, <3>1, <4>1, AlikeWakes
    <3>3. n >= 2 /\ runs[o][n - 1].at # "wait" => Alike(runs[o][n - 1], runs'[o][n - 1])
      BY <2>5, <3>1
    <3>4. \A i \in 1..(n - 2) : Alike(runs[o][i], runs'[o][i])
      BY <1>3, <1>8, <2>3
    <3> QED BY <1>12, <2>7, <3>2, <3>3, <3>4 DEF Unwinds, r
  <2> QED BY <1>1, <2>7, <2>9, <2>10 DEF r
<1>13. CASE r.error = None
  <2> DEFINE u == [x[n] EXCEPT !.at = "step", !.step = FALSE]
  <2>1. runs' = [runs EXCEPT ![o] = WithTop(x, u)]
    BY <1>9, <1>11, <1>13
  <2>2. RunOK(q, meta, x[n], now, loaded) /\ Alike(r, x[n]) /\ x[n] \in RunType(q)
    BY <1>3, <1>8 DEF RunOK
  <2>3. PICK y : y = u
    OBVIOUS
  <2>4. /\ y \in RunType(q) /\ Stays(x[n], y) /\ AsWas(x[n], y) /\ y.deadline = x[n].deadline
        /\ y.at = "step" /\ y.step = FALSE /\ y.hooked = x[n].hooked /\ y.stops = x[n].stops
    BY <2>2, <2>3 DEF RunType, Stays, AsWas
  <2>5. x[n].error = None /\ x[n].level = 0 /\ ~x[n].found
    BY <1>1, <1>3, <1>13, <2>2 DEF Alike, AsWas, RunOK
  <2>6. RunOK(q, meta, y, now, loaded)
    <3>1. y.frames \in Seq(FrameType(q))
      BY <2>4 DEF RunType
    <3>2. 0 <= Len(y.frames)
      BY <3>1
    <3> QED BY <2>2, <2>4, <2>5, <3>2, StaysOK DEF AsWas
  <2> HIDE DEF u
  <2>7. /\ WithTop(x, y) \in Seq(RunType(q)) /\ Len(WithTop(x, y)) = n
        /\ \A i \in 1..(n - 1) : WithTop(x, y)[i] = x[i]
        /\ WithTop(x, y)[n] = y
    <3>1. x \in Seq(RunType(q)) /\ x # << >> /\ y \in RunType(q) /\ Len(x) = n
      BY <1>8, <1>9, <2>4
    <3>2. /\ WithTop(x, y) \in Seq(RunType(q)) /\ Len(WithTop(x, y)) = Len(x)
          /\ \A i \in 1..(Len(x) - 1) : WithTop(x, y)[i] = x[i]
          /\ WithTop(x, y)[Len(x)] = y
      <4>1. \A v \in Seq(RunType(q)) : \A w \in RunType(q) :
              v # << >> => /\ WithTop(v, w) \in Seq(RunType(q)) /\ Len(WithTop(v, w)) = Len(v)
                           /\ \A i \in 1..(Len(v) - 1) : WithTop(v, w)[i] = v[i]
                           /\ WithTop(v, w)[Len(v)] = w
        BY WithTopFacts
      <4> QED BY <3>1, <4>1, Zenon
    <3> QED BY <3>1, <3>2
  <2>8. runs'[o] = WithTop(x, y) /\ OnlyOf(o)
    BY <1>3, <2>1, <2>3 DEF OnlyOf
  <2>9. y.thread = r.thread /\ Stays(r, y) /\ y.hooked = r.hooked /\ y.stops = r.stops /\ y.error = None
    BY <2>2, <2>4, <2>5 DEF Alike, Halts, Stays, AsWas
  <2>10. Resumes(q, meta, o)
    <3>1. \A i \in 1..(n - 1) : Alike(runs[o][i], runs'[o][i])
      BY <1>3, <1>8, <2>7, <2>8
    <3>2. Len(runs'[o]) = n /\ runs'[o][n] = y
      BY <2>7, <2>8
    <3> QED BY <1>3, <1>13, <2>4, <2>9, <3>1, <3>2 DEF Resumes, r
  <2>11. StackOK(q, meta, runs'[o], now, loaded)
    <3>1. \A i \in 1..n : RunOK(q, meta, runs'[o][i], now, loaded)
      BY <1>3, <1>8, <2>6, <2>7, <2>8
    <3>2. \A i \in 1..(n - 1) : runs'[o][i].at \in {"wait", "walk"}
      BY <1>8, <1>10, <2>7, <2>8 DEF StackOK
    <3> QED BY <2>7, <2>8, <3>1, <3>2 DEF StackOK
  <2>12. StacksOK(q, meta, runs', now, loaded)
    <3>1. \A i \in 1..n : runs'[o][i].thread = runs[o][i].thread
      BY <1>3, <1>8, <2>7, <2>8, <2>9 DEF Alike, Halts, Stays
    <3>2. \A p \in OSThreads : \A i \in 1..Len(runs'[p]) : i \in 1..Len(runs[p]) /\ runs'[p][i].thread = runs[p][i].thread
      BY <1>3, <2>7, <2>8, <3>1 DEF OnlyOf
    <3>3. Apart(runs')
      BY <1>2, <3>2 DEF StacksOK, Apart
    <3> QED BY <1>2, <2>8, <2>11, <3>3 DEF StacksOK, OnlyOf
  <2> QED BY <1>1, <2>8, <2>10, <2>12 DEF r
<1> QED BY <1>12, <1>13

\* The lines and depth that EngineDebugger has left after an instruction of r.
StepsTo(q, r) ==
  LET n == Len(r.frames)
      depth == IF engine.depth >= 0 THEN n - debug.depth ELSE engine.depth
      there == n # debug.depth \/ Ins(q, Last(r.frames)).line # debug.shown[1].line IN
  engine' = [lines_left |-> IF depth <= 0 /\ there THEN engine.lines_left - 1 ELSE engine.lines_left,
             depth |-> depth]

\* The thread is in its instruction, where the breakpoint of its line is met.
Meets(r, u, at) ==
  /\ Stays(r, u) /\ u.error = None /\ u.level = 0 /\ ~u.found
  /\ u.at = at /\ u.hooked /\ u.stops = r.stops
  /\ at = "walk" => ~u.step
  /\ at = "exec" => u.step = r.step

\* lua_debugstep: it does nothing, counts, or breaks.
LEMMA StepEffect ==
  ASSUME NEW q, q = Programs[program], NEW meta, ShapeInv(meta), NEW o \in OSThreads, lua_debugstep(o)
  PROVE  LET r == Top(o) IN
         /\ Busy(o) /\ r.at = "step" /\ r.error = None
         /\ \/ /\ StepDone(r) /\ UNCHANGED <<engine, singlestep, debug>>
               /\ \E u : Retop(q, o, u) /\ RunOK(q, meta, u, now, loaded) /\ Hooks(r, u, "break")
            \/ /\ ~StepDone(r) /\ StepsTo(q, r) /\ engine'.lines_left > 0 /\ UNCHANGED <<singlestep, debug>>
               /\ \E u : Retop(q, o, u) /\ RunOK(q, meta, u, now, loaded) /\ Hooks(r, u, "break")
            \/ /\ ~StepDone(r) /\ StepsTo(q, r) /\ ~(engine'.lines_left > 0)
               /\ \/ debugging
                  \/ /\ \E u : Retop(q, o, u) /\ RunOK(q, meta, u, now, loaded) /\ WalkStarts(r, u, TRUE)
                     /\ Rebinds(r, singlestep \ {r.thread})
<1> DEFINE r == Top(o)
<1>1. At(o, "step") /\ Busy(o) /\ r.at = "step"
  BY DEF lua_debugstep, At
<1>2. StacksOK(q, meta, runs, now, loaded) /\ DOMAIN debug = {"L", "error", "shown", "depth", "base"}
  BY ShapeFacts DEF ShapeInv
<1>3. RunOK(q, meta, r, now, loaded) /\ r \in RunType(q) /\ runs[o] \in Seq(RunType(q)) /\ DOMAIN runs = OSThreads
  BY <1>1, <1>2, TopFacts DEF StacksOK
<1>4. r.error = None /\ r.at # "walk"
  BY <1>1, <1>3 DEF RunOK
<1>5. PICK b : b = [r EXCEPT !.at = "break"]
  OBVIOUS
<1>6. b \in RunType(q) /\ RunOK(q, meta, b, now, loaded) /\ Hooks(r, b, "break")
  BY <1>1, <1>3, <1>4, <1>5, HookFacts
<1>7. SetTop(o, b) => Retop(q, o, b)
  BY <1>1, <1>3, <1>6, SetTopRetops
<1>8. CASE StepDone(r)
  <2>1. SetTop(o, b) /\ UNCHANGED <<engine, singlestep, debug>>
    BY <1>5, <1>8 DEF lua_debugstep
  <2> QED BY <1>1, <1>4, <1>6, <1>7, <1>8, <2>1
<1>9. CASE ~StepDone(r)
  <2>1. /\ StepsTo(q, r)
        /\ IF engine'.lines_left > 0 THEN SetTop(o, b) /\ UNCHANGED <<singlestep, debug>>
           ELSE debug_break(o, r, TRUE, singlestep \ {r.thread}, WithTop(runs[o], b))
    <3>1. /\ StepsTo(q, r)
          /\ IF (IF (IF engine.depth >= 0 THEN Depth(r) - debug.depth ELSE engine.depth) <= 0 /\ another_place(r)
                 THEN engine.lines_left - 1 ELSE engine.lines_left) > 0
             THEN SetTop(o, b) /\ UNCHANGED <<singlestep, debug>>
             ELSE debug_break(o, r, TRUE, singlestep \ {r.thread}, WithTop(runs[o], b))
      BY <1>5, <1>9, Zenon DEF lua_debugstep, StepsTo, another_place, Line, Instr, Code, Here, Depth, Ins
    <3>2. engine'.lines_left = (IF (IF engine.depth >= 0 THEN Depth(r) - debug.depth ELSE engine.depth) <= 0 /\ another_place(r)
                                THEN engine.lines_left - 1 ELSE engine.lines_left)
      BY <3>1 DEF StepsTo, another_place, Line, Instr, Code, Here, Depth, Ins
    <3> QED BY <3>1, <3>2, Zenon
  <2>2. CASE engine'.lines_left > 0
    BY <1>1, <1>4, <1>6, <1>7, <1>9, <2>1, <2>2
  <2>3. CASE ~(engine'.lines_left > 0) /\ ~debugging
    <3>1. debug_break(o, r, TRUE, singlestep \ {r.thread}, WithTop(runs[o], b))
      BY <2>1, <2>3
    <3>2. /\ \E u : Retop(q, o, u) /\ RunOK(q, meta, u, now, loaded) /\ WalkStarts(r, u, TRUE)
          /\ Rebinds(r, singlestep \ {r.thread})
      BY <1>1, <1>2, <1>3, <1>4, <2>3, <3>1, BreakEffect
    <3> QED BY <1>1, <1>4, <1>9, <2>1, <2>3, <3>2
  <2>4. CASE ~(engine'.lines_left > 0) /\ debugging
    BY <1>1, <1>4, <1>9, <2>1, <2>4
  <2> QED BY <2>2, <2>3, <2>4
<1> QED BY <1>8, <1>9

\* lua_debugbreak: every second hit breaks.
LEMMA HitEffect ==
  ASSUME NEW q, q = Programs[program], NEW meta, ShapeInv(meta), NEW o \in OSThreads, lua_debugbreak(o)
  PROVE  LET r == Top(o) IN
         /\ Busy(o) /\ r.at = "break" /\ r.error = None /\ r.vm \in VMs
         /\ Ins(q, Last(r.frames)).line \in armed[r.vm]
         /\ breakhits' = [breakhits EXCEPT ![r.vm] = 1 - breakhits[r.vm]]
         /\ \/ /\ breakhits[r.vm] = 1 /\ UNCHANGED <<singlestep, debug>>
               /\ \E u : Retop(q, o, u) /\ RunOK(q, meta, u, now, loaded) /\ Meets(r, u, "exec")
            \/ /\ breakhits[r.vm] = 0
               /\ \/ debugging
                  \/ /\ \E u : Retop(q, o, u) /\ RunOK(q, meta, u, now, loaded) /\ Meets(r, u, "walk")
                     /\ Rebinds(r, singlestep)
<1> DEFINE r == Top(o)
<1>1. At(o, "break") /\ Busy(o) /\ r.at = "break"
  BY DEF lua_debugbreak, At
<1>2. StacksOK(q, meta, runs, now, loaded) /\ DOMAIN debug = {"L", "error", "shown", "depth", "base"}
  BY ShapeFacts DEF ShapeInv
<1>3. RunOK(q, meta, r, now, loaded) /\ r \in RunType(q) /\ runs[o] \in Seq(RunType(q)) /\ DOMAIN runs = OSThreads
  BY <1>1, <1>2, TopFacts DEF StacksOK
<1>4. r.error = None /\ r.at # "walk" /\ r.vm \in VMs /\ r.level = 0 /\ ~r.found
  BY <1>1, <1>3 DEF RunOK, RunType
<1>5. PICK h : h = [r EXCEPT !.hooked = TRUE]
  OBVIOUS
<1>6. /\ h \in RunType(q) /\ RunOK(q, meta, h, now, loaded) /\ Stays(r, h) /\ AsWas(r, h)
      /\ h.at = r.at /\ h.hooked = TRUE /\ h.stops = r.stops /\ h.step = r.step
  <2>1. LET u == [r EXCEPT !.hooked = TRUE] IN
        /\ u \in RunType(q) /\ RunOK(q, meta, u, now, loaded) /\ Stays(r, u) /\ AsWas(r, u)
        /\ u.at = r.at /\ u.hooked = TRUE /\ u.stops = r.stops /\ u.step = r.step
    BY <1>1, <1>3, <1>4, MarkFacts
  <2> QED BY <1>5, <2>1, Zenon
<1>7. h.vm = r.vm /\ h.frames = r.frames /\ h.error = None /\ h.at = "break" /\ h.thread = r.thread /\ h.level = 0 /\ ~h.found
  BY <1>1, <1>4, <1>6 DEF Stays, AsWas
<1>8. PICK x : x = [h EXCEPT !.at = "exec"]
  OBVIOUS
<1>9. x \in RunType(q) /\ RunOK(q, meta, x, now, loaded) /\ Hooks(h, x, "exec")
  BY <1>6, <1>7, <1>8, HookFacts
<1>10. Meets(r, x, "exec")
  BY <1>6, <1>7, <1>9 DEF Hooks, Halts, Stays, AsWas, Meets
<1>11. /\ Ins(q, Last(r.frames)).line \in armed[r.vm]
       /\ breakhits' = [breakhits EXCEPT ![r.vm] = 1 - breakhits[r.vm]]
       /\ IF 1 - breakhits[r.vm] = 0 THEN SetTop(o, x) /\ UNCHANGED <<singlestep, debug>>
          ELSE debug_break(o, h, FALSE, singlestep, WithTop(runs[o], x))
  BY <1>5, <1>7, <1>8 DEF lua_debugbreak, second_hit, Line, Instr, Code, Here, Ins
<1>12. breakhits[r.vm] \in {0, 1}
  BY <1>4 DEF ShapeInv
<1>13. CASE breakhits[r.vm] = 1
  <2>1. Retop(q, o, x) /\ UNCHANGED <<singlestep, debug>>
    BY <1>1, <1>3, <1>9, <1>11, <1>13, SetTopRetops
  <2> QED BY <1>1, <1>4, <1>9, <1>10, <1>11, <1>13, <2>1
<1>14. CASE breakhits[r.vm] = 0 /\ ~debugging
  <2>1. debug_break(o, h, FALSE, singlestep, WithTop(runs[o], x))
    <3>1. 1 - breakhits[r.vm] # 0
      BY <1>14
    <3> QED BY <1>11, <3>1, Zenon
  <2>2. h.at # "walk" /\ FALSE \in BOOLEAN /\ (h.error # None => ~FALSE)
    BY <1>7
  <2>3. /\ \E u : Retop(q, o, u) /\ RunOK(q, meta, u, now, loaded) /\ WalkStarts(h, u, FALSE)
        /\ Rebinds(h, singlestep)
    BY <1>1, <1>2, <1>6, <1>14, <2>1, <2>2, BreakEffect
  <2>4. ASSUME NEW u, WalkStarts(h, u, FALSE) PROVE Meets(r, u, "walk")
    BY <1>6, <1>7, <2>4 DEF WalkStarts, Stays, AsWas, Meets
  <2>5. Rebinds(r, singlestep)
    BY <1>4, <1>7, <2>3 DEF Rebinds
  <2> QED BY <1>1, <1>4, <1>11, <1>14, <2>3, <2>4, <2>5
<1>15. CASE breakhits[r.vm] = 0 /\ debugging
  BY <1>1, <1>4, <1>11, <1>15
<1> QED BY <1>12, <1>13, <1>14, <1>15

\* NoBreakpoint.
LEMMA NoHitEffect ==
  ASSUME NEW q, q = Programs[program], NEW meta, ShapeInv(meta), NEW o \in OSThreads, NoBreakpoint(o)
  PROVE  LET r == Top(o) IN
         /\ Busy(o) /\ r.at = "break" /\ r.error = None
         /\ Ins(q, Last(r.frames)).line \notin armed[r.vm]
         /\ \E u : Retop(q, o, u) /\ RunOK(q, meta, u, now, loaded) /\ Hooks(r, u, "exec")
<1> DEFINE r == Top(o)
<1>1. At(o, "break") /\ Busy(o) /\ r.at = "break"
  BY DEF NoBreakpoint, At
<1>2. StacksOK(q, meta, runs, now, loaded)
  BY ShapeFacts
<1>3. RunOK(q, meta, r, now, loaded) /\ r \in RunType(q) /\ runs[o] \in Seq(RunType(q)) /\ DOMAIN runs = OSThreads
  BY <1>1, <1>2, TopFacts DEF StacksOK
<1>4. r.error = None
  BY <1>1, <1>3 DEF RunOK
<1>5. PICK x : x = [r EXCEPT !.at = "exec"]
  OBVIOUS
<1>6. x \in RunType(q) /\ RunOK(q, meta, x, now, loaded) /\ Hooks(r, x, "exec")
  BY <1>1, <1>3, <1>4, <1>5, HookFacts
<1>7. SetTop(o, x) /\ Ins(q, Last(r.frames)).line \notin armed[r.vm]
  BY <1>5 DEF NoBreakpoint, Line, Instr, Code, Here, Ins
<1>8. Retop(q, o, x)
  BY <1>1, <1>3, <1>6, <1>7, SetTopRetops
<1> QED BY <1>1, <1>4, <1>6, <1>7, <1>8

\* HandleError: the error of a coroutine is a value, that of a thread that broke
\* is not shown.
LEMMA ErrorEffect ==
  ASSUME NEW q, q = Programs[program], NEW meta, ShapeInv(meta), NEW o \in OSThreads, HandleError(o)
  PROVE  LET r == Top(o) IN
         /\ Busy(o) /\ r.at = "dead" /\ r.error # None
         /\ \/ (r.kind = "coroutine" \/ r.broke) /\ Drop(q, o) /\ UNCHANGED <<singlestep, debug>>
            \/ /\ ~(r.kind = "coroutine" \/ r.broke)
               /\ \/ debugging
                  \/ /\ \E u : Retop(q, o, u) /\ RunOK(q, meta, u, now, loaded) /\ WalkStarts(r, u, FALSE)
                     /\ Rebinds(r, singlestep)
<1> DEFINE r == Top(o)
<1>1. At(o, "dead") /\ Busy(o) /\ r.at = "dead"
  BY DEF HandleError, At
<1>2. /\ StacksOK(q, meta, runs, now, loaded) /\ DOMAIN debug = {"L", "error", "shown", "depth", "base"}
      /\ IsProgram(q)
  BY ShapeFacts DEF ShapeInv
<1>3. RunOK(q, meta, r, now, loaded)
  BY <1>1, <1>2, TopFacts
<1>4. r.error # None /\ r.at # "walk"
  BY <1>1, <1>3 DEF RunOK
<1>5. CASE r.kind = "coroutine" \/ r.broke
  <2>1. runs' = [runs EXCEPT ![o] = Popped(@)] /\ UNCHANGED <<singlestep, debug>>
    BY <1>5 DEF HandleError
  <2>2. Drop(q, o)
    BY <1>1, <1>2, <2>1, PoppedTop
  <2> QED BY <1>1, <1>4, <1>5, <2>1, <2>2
<1>6. CASE ~(r.kind = "coroutine" \/ r.broke) /\ ~debugging
  <2>1. debug_break(o, r, FALSE, singlestep, Popped(runs[o]))
    BY <1>6 DEF HandleError
  <2>2. FALSE \in BOOLEAN /\ (r.error # None => ~FALSE)
    OBVIOUS
  <2>3. /\ \E u : Retop(q, o, u) /\ RunOK(q, meta, u, now, loaded) /\ WalkStarts(r, u, FALSE)
        /\ Rebinds(r, singlestep)
    BY <1>1, <1>2, <1>3, <1>4, <1>6, <2>1, <2>2, BreakEffect
  <2> QED BY <1>1, <1>4, <1>6, <2>3
<1>7. CASE ~(r.kind = "coroutine" \/ r.broke) /\ debugging
  BY <1>1, <1>4, <1>7
<1> QED BY <1>5, <1>6, <1>7

\* Start.
LEMMA StartEffect ==
  ASSUME NEW q, q = Programs[program], NEW meta, ShapeInv(meta), NEW o \in OSThreads, Start(o)
  PROVE  /\ runs[o] = << >>
         /\ \E e \in q.entries[o] : \E n :
              /\ runs' = [runs EXCEPT ![o] = <<n>>] /\ RunOK(q, meta, n, now, loaded)
              /\ Begins(n, e.f) /\ n.kind = e.kind /\ Fresh(n.thread) /\ n.thread # debug.L
<1>1. PICK e \in q.entries[o] :
        e.vm \in loaded /\ runs' = [runs EXCEPT ![o] = <<NewRun(FreeThread, e.vm, e.kind, e.f)>>]
  BY DEF Start
<1>2. runs[o] = << >> /\ FreeThread # None
  BY DEF Start, Busy
<1>3. StacksOK(q, meta, runs, now, loaded) /\ IsProgram(q) /\ now \in Nat
  BY ShapeFacts
<1>4. FreeThread \in Threads /\ Fresh(FreeThread) /\ FreeThread # debug.L
  BY <1>2, <1>3, FreeThreadFacts
<1>5. e.f \in DOMAIN q.code /\ e.vm \in VMs /\ e.kind = "resume"
  BY <1>3, ProgramAssumption DEF IsProgram
<1>6. e.kind \in Kinds
  BY <1>5 DEF Kinds
<1> DEFINE n == NewRun(FreeThread, e.vm, e.kind, e.f)
<1>7. RunOK(q, meta, n, now, loaded) /\ Begins(n, e.f) /\ n.thread = FreeThread /\ n.kind = e.kind
  BY <1>1, <1>3, <1>4, <1>5, <1>6, NewRunFacts
<1> HIDE DEF n
<1>8. runs' = [runs EXCEPT ![o] = <<n>>]
  BY <1>1 DEF n
<1> QED BY <1>2, <1>4, <1>7, <1>8

----------------------------------------------------------------------------
(* What is silent, and when a break could be refused.                          *)

\* The instruction that a thread is at.
LEMMA InsFacts ==
  ASSUME NEW q, IsProgram(q), NEW meta, NEW t, NEW ld, NEW r, RunOK(q, meta, r, t, ld)
  PROVE  LET fr == Last(r.frames)
             i == Ins(q, fr) IN
         /\ Len(r.frames) \in Nat /\ Len(r.frames) >= 1 /\ fr = r.frames[Len(r.frames)]
         /\ fr.f \in DOMAIN q.code /\ fr.pc \in DOMAIN q.code[fr.f] /\ i = q.code[fr.f][fr.pc] /\ i.line \in Int
         /\ i.op \in {"call", "meta", "engine", "coroutine"} => i.to \in DOMAIN q.code
<1>1. r.frames \in Seq(FrameType(q)) /\ FramesOK(q, meta, r.frames)
  BY DEF RunOK, RunType
<1>2. /\ Len(r.frames) \in Nat /\ Len(r.frames) >= 1 /\ Last(r.frames) = r.frames[Len(r.frames)]
      /\ Len(r.frames) \in 1..Len(r.frames)
  BY <1>1, FrameFacts
<1>3. Last(r.frames).f \in DOMAIN q.code /\ Last(r.frames).pc \in 1..Len(q.code[Last(r.frames).f])
  BY <1>1, <1>2, FrameFacts
<1> QED BY <1>2, <1>3, CodeFacts DEF Ins

\* A silent thread is at no breakpoint, and the engine hears of no error of it.
LEMMA SilentFacts ==
  ASSUME NEW q, IsProgram(q), NEW silent, SilentCode(q, silent), NEW meta, NEW t, NEW ld, NEW d,
         NEW r, RunOK(q, meta, r, t, ld), Silent(silent, r, d)
  PROVE  LET i == Ins(q, Last(r.frames)) IN
         /\ ~BreakLine(q, i.line)
         /\ i.op \in {"call", "meta"} => i.to \in silent[r.kind]
         /\ i.op = "engine" => i.to \in silent["resume"]
         /\ i.op = "coroutine" => i.to \in silent["coroutine"]
         /\ r.kind \in Kinds
         /\ r.kind = "resume" => i.op # "error" /\ (q.timed => i.op \notin Interrupting)
<1> DEFINE fr == Last(r.frames)
           i == Ins(q, fr)
<1>1. /\ Len(r.frames) \in 1..Len(r.frames) /\ fr = r.frames[Len(r.frames)]
      /\ fr.pc \in DOMAIN q.code[fr.f] /\ i = q.code[fr.f][fr.pc]
  BY InsFacts
<1>2. fr.f \in silent[r.kind]
  BY <1>1 DEF Silent
<1>3. r.kind \in Kinds
  BY DEF RunOK, RunType
<1> HIDE DEF fr, i
<1>4. /\ Unbroken(q, fr.f)
      /\ i.op \in {"call", "meta"} => i.to \in silent[r.kind]
      /\ i.op = "engine" => i.to \in silent["resume"]
      /\ i.op = "coroutine" => i.to \in silent["coroutine"]
      /\ r.kind = "resume" => i.op # "error" /\ (q.timed => i.op \notin Interrupting)
  BY <1>1, <1>2, <1>3 DEF SilentCode
<1>5. ~BreakLine(q, i.line)
  BY <1>1, <1>4 DEF Unbroken
<1> QED BY <1>3, <1>4, <1>5 DEF i, fr

\* Above a walk, and in every OS thread but the first.
Quiet(o, first) == o # first \/ \E i \in 1..(Len(runs[first]) - 1) : runs[first][i].at = "walk"

\* What the invariants say of the innermost thread of o.
LEMMA TopQuiet ==
  ASSUME NEW q, q = Programs[program], NEW meta, ShapeInv(meta), NEW first \in OSThreads, NEW silent,
         StopInv(first, silent), NEW o \in OSThreads, Busy(o)
  PROVE  /\ Quiet(o, first) => Silent(silent, Top(o), debug)
         /\ o = first => (debugging <=> Top(o).at = "debug")
         /\ ~Quiet(o, first) => o = first /\ \A i \in 1..(Len(runs[first]) - 1) : runs[first][i].at = "wait"
<1>1. StacksOK(q, meta, runs, now, loaded)
  BY ShapeFacts
<1>2. Len(runs[o]) \in Nat /\ Len(runs[o]) >= 1 /\ Len(runs[o]) \in 1..Len(runs[o]) /\ Top(o) = runs[o][Len(runs[o])]
  BY <1>1, TopFacts
<1>3. CASE o # first
  BY <1>2, <1>3 DEF StopInv, StopOf, Quiet
<1>4. CASE o = first
  <2>1. debugging <=> Top(o).at = "debug"
    BY <1>2, <1>4 DEF StopInv, StopOf
  <2>2. ASSUME NEW i \in 1..(Len(runs[first]) - 1), runs[first][i].at = "walk"
        PROVE  Silent(silent, Top(o), debug)
    BY <1>2, <1>4, <2>2 DEF StopInv, StopOf
  <2>3. \A i \in 1..(Len(runs[first]) - 1) : runs[first][i].at \in {"wait", "walk"}
    BY <1>1 DEF StacksOK, StackOK
  <2> QED BY <1>4, <2>1, <2>2, <2>3 DEF Quiet
<1> QED BY <1>3, <1>4

\* A break that is asked for is not refused; and a silent thread asks for none.
LEMMA NotRefused ==
  ASSUME NEW q, q = Programs[program], NEW meta, ShapeInv(meta), NEW first \in OSThreads, NEW silent,
         SilentCode(q, silent), StopInv(first, silent), NEW o \in OSThreads, Busy(o)
  PROVE  LET r == Top(o) IN
         /\ r.at = "step" /\ ~StepDone(r) => ~debugging /\ ~Quiet(o, first)
         /\ r.at = "break" /\ Ins(q, Last(r.frames)).line \in armed[r.vm] => ~debugging /\ ~Quiet(o, first)
         /\ r.at = "dead" /\ ~(r.kind = "coroutine" \/ r.broke) => ~debugging /\ ~Quiet(o, first)
         /\ r.at \in {"walk", "debug"} => ~Quiet(o, first)
<1> DEFINE r == Top(o)
<1>1. StacksOK(q, meta, runs, now, loaded) /\ IsProgram(q)
  BY ShapeFacts
<1>2. RunOK(q, meta, r, now, loaded) /\ r.vm \in VMs
  <2>1. RunOK(q, meta, r, now, loaded)
    BY <1>1, TopFacts
  <2> QED BY <2>1 DEF RunOK, RunType
<1>3. /\ Quiet(o, first) => Silent(silent, r, debug)
      /\ o = first => (debugging <=> r.at = "debug")
      /\ ~Quiet(o, first) => o = first
  BY TopQuiet
<1> HIDE DEF r
<1>4. ASSUME r.at = "step", ~StepDone(r) PROVE ~Quiet(o, first)
  BY <1>3, <1>4 DEF StepDone, Silent
<1>5. ASSUME r.at = "break", Ins(q, Last(r.frames)).line \in armed[r.vm] PROVE ~Quiet(o, first)
  <2>1. BreakLine(q, Ins(q, Last(r.frames)).line)
    BY <1>2, <1>5 DEF ShapeInv
  <2> QED BY <1>1, <1>2, <1>3, <2>1, SilentFacts
<1>6. ASSUME r.at = "dead", ~(r.kind = "coroutine" \/ r.broke) PROVE ~Quiet(o, first)
  BY <1>3, <1>6 DEF Silent
<1>7. ASSUME r.at \in {"walk", "debug"} PROVE ~Quiet(o, first)
  BY <1>3, <1>7 DEF Silent
<1> QED BY <1>3, <1>4, <1>5, <1>6, <1>7 DEF r

----------------------------------------------------------------------------
(* The shape is kept.                                                          *)

BreaksOK(q) ==
  /\ DOMAIN armed' = VMs /\ \A v \in VMs : armed'[v] \subseteq breakpoints'
  /\ \A l \in breakpoints' : BreakLine(q, l)
DebugOK ==
  /\ debug'.L \in Threads \cup {None} /\ DOMAIN debug' = {"L", "error", "shown", "depth", "base"}
  /\ debug'.depth \in Int

\* From its parts, for a step of an OS thread.
LEMMA ShapeFrom ==
  ASSUME NEW q, q = Programs[program], NEW meta, ShapeInv(meta), UNCHANGED <<program, now, loaded>>,
         StacksOK(q, meta, runs', now, loaded), BreaksOK(q) \/ UNCHANGED <<armed, breakpoints>>,
         breakhits' \in [VMs -> {0, 1}] \/ UNCHANGED breakhits,
         DebugOK \/ UNCHANGED debug, debugging' \in BOOLEAN \/ UNCHANGED debugging,
         interrupt_reset' \in 0..(MaxTime + Timeout) \/ UNCHANGED interrupt_reset,
         engine' \in [lines_left : {-1, 0, 1}, depth : Int] \/ UNCHANGED engine
  PROVE  ShapeInv(meta)'
<1>1. /\ program' \in DOMAIN Programs /\ now' \in 1..MaxTime /\ (~Programs[program'].timed => now' = 1)
      /\ loaded' \subseteq VMs
  BY DEF ShapeInv
<1>2. /\ DOMAIN runs' = OSThreads /\ \A o \in OSThreads : StackOK(Programs[program'], meta, runs'[o], now', loaded')
      /\ Apart(runs')
  BY DEF StacksOK
<1>3. BreaksOK(Programs[program'])
  BY DEF ShapeInv, BreaksOK
<1>4. breakhits' \in [VMs -> {0, 1}] /\ DebugOK
  BY DEF ShapeInv, DebugOK
<1>5. /\ debugging' \in BOOLEAN /\ interrupt_reset' \in 0..(MaxTime + Timeout)
      /\ engine' \in [lines_left : {-1, 0, 1}, depth : Int]
  BY DEF ShapeInv
<1> QED BY <1>1, <1>2, <1>3, <1>4, <1>5 DEF ShapeInv, BreaksOK, DebugOK

\* Where the debugger is bound to another thread.
LEMMA RebindsOK ==
  ASSUME NEW q, NEW meta, ShapeInv(meta), NEW r, NEW t, NEW ld, RunOK(q, meta, r, t, ld), NEW single, Rebinds(r, single)
  PROVE  DebugOK
<1>1. r.thread \in Threads
  BY DEF RunOK, RunType
<1>2. debug.depth \in Int /\ -1 \in Int
  BY DEF ShapeInv
<1> QED BY <1>1, <1>2 DEF Rebinds, DebugOK

\* An instruction keeps the shape of the stacks.
LEMMA ExecutedShape ==
  ASSUME NEW q, IsProgram(q), NEW meta, StacksOK(q, meta, runs, now, loaded), NEW o \in OSThreads, Busy(o),
         Top(o).at = "exec", Executed(q, meta, o, Top(o))
  PROVE  StacksOK(q, meta, runs', now, loaded)
<1>1. CASE \E u : Retop(q, o, u) /\ RunOK(q, meta, u, now, loaded) /\ Goes(q, Top(o), u)
  BY <1>1, RetopShape DEF Goes, GoesOn
<1>2. CASE \E u, n : /\ Push(q, o, u, n) /\ RunOK(q, meta, u, now, loaded) /\ RunOK(q, meta, n, now, loaded)
                     /\ Waits(Top(o), u) /\ Makes(q, Top(o), n)
  <2>1. PICK u, n : /\ Push(q, o, u, n) /\ RunOK(q, meta, u, now, loaded) /\ RunOK(q, meta, n, now, loaded)
                    /\ Waits(Top(o), u) /\ Makes(q, Top(o), n)
    BY <1>2
  <2>2. u.thread = Top(o).thread /\ u.at \in {"wait", "walk"} /\ Fresh(n.thread)
    BY <2>1 DEF Waits, Halts, Stays, Makes
  <2> QED BY <2>1, <2>2, PushShape
<1>3. CASE Drop(q, o)
  BY <1>3, DropShape
<1>4. CASE \E u : Retop(q, o, u) /\ RunOK(q, meta, u, now, loaded) /\ Ends(Top(o), u)
  BY <1>4, RetopShape DEF Ends, Halts, Stays
<1> QED BY <1>1, <1>2, <1>3, <1>4 DEF Executed, Done
\* Every action keeps the shape.
LEMMA ShapeKept ==
  ASSUME NEW first \in OSThreads, NEW silent, NEW meta, Discipline(Programs[program], first, silent, meta),
         ShapeInv(meta), StopInv(first, silent), Next
  PROVE  ShapeInv(meta)'
<1> DEFINE q == Programs[program]
<1>1. /\ StacksOK(q, meta, runs, now, loaded) /\ IsProgram(q) /\ now \in Nat /\ loaded \subseteq VMs
      /\ SilentCode(q, silent) /\ MetaCode(q, meta)
  BY ShapeFacts DEF Discipline
<1>2. ASSUME Tick PROVE ShapeInv(meta)'
  <2>1. /\ q.timed /\ now < MaxTime /\ now' = now + 1
        /\ UNCHANGED <<program, runs, breakpoints, loaded, armed, breakhits, debug, debugging, interrupt_reset, engine>>
    BY <1>2 DEF Tick
  <2>2. ASSUME NEW r, RunOK(q, meta, r, now, loaded) PROVE RunOK(q, meta, r, now + 1, loaded)
    <3>1. r.deadline \in Nat
      BY <2>2 DEF RunOK, RunType
    <3>2. r.deadline <= now + 1 + Timeout
      BY <1>1, <2>2, <3>1, TimeAssumption DEF RunOK
    <3> QED BY <2>1, <2>2, <3>2 DEF RunOK
  <2> HIDE DEF q
  <2>3. \A o \in OSThreads : StackOK(q, meta, runs[o], now + 1, loaded)
    <3> SUFFICES ASSUME NEW o \in OSThreads PROVE StackOK(q, meta, runs[o], now + 1, loaded)
      OBVIOUS
    <3>1. StackOK(q, meta, runs[o], now, loaded)
      BY <1>1 DEF StacksOK
    <3> QED BY <2>2, <3>1 DEF StackOK
  <2>4. now' \in 1..MaxTime
    BY <2>1, TimeAssumption DEF ShapeInv
  <2> QED BY <2>1, <2>3, <2>4 DEF ShapeInv, q
<1>3. ASSUME NEW v \in VMs, ref_thread(v) PROVE ShapeInv(meta)'
  <2>1. /\ loaded' = loaded \cup {v} /\ armed' = [armed EXCEPT ![v] = breakpoints]
        /\ UNCHANGED <<program, runs, now, breakpoints, breakhits, debug, debugging, interrupt_reset, engine>>
    BY <1>3 DEF ref_thread
  <2>2. ASSUME NEW r, RunOK(q, meta, r, now, loaded) PROVE RunOK(q, meta, r, now, loaded')
    BY <2>1, <2>2 DEF RunOK
  <2> HIDE DEF q
  <2>3. \A o \in OSThreads : StackOK(q, meta, runs[o], now, loaded')
    <3> SUFFICES ASSUME NEW o \in OSThreads PROVE StackOK(q, meta, runs[o], now, loaded')
      OBVIOUS
    <3>1. StackOK(q, meta, runs[o], now, loaded)
      BY <1>1 DEF StacksOK
    <3> QED BY <2>2, <3>1 DEF StackOK
  <2>4. DOMAIN armed' = VMs /\ (\A w \in VMs : armed'[w] \subseteq breakpoints) /\ loaded' \subseteq VMs
    BY <2>1 DEF ShapeInv
  <2> QED BY <2>1, <2>3, <2>4 DEF ShapeInv, q
<1>4. ASSUME NEW o \in OSThreads, Start(o) PROVE ShapeInv(meta)'
  <2>1. PICK n : runs' = [runs EXCEPT ![o] = <<n>>] /\ RunOK(q, meta, n, now, loaded) /\ Fresh(n.thread)
    BY <1>4, StartEffect
  <2>2. StacksOK(q, meta, runs', now, loaded)
    BY <1>1, <1>4, <2>1, BeginShape DEF Start
  <2>3. UNCHANGED <<program, now, loaded, armed, breakpoints, breakhits, debug, debugging, interrupt_reset, engine>>
    BY <1>4 DEF Start
  <2> QED BY <2>2, <2>3, ShapeFrom
<1>5. ASSUME NEW o \in OSThreads, lua_debugstep(o) PROVE ShapeInv(meta)'
  <2> DEFINE r == Top(o)
  <2>1. Busy(o) /\ r.at = "step" /\ (~StepDone(r) => ~debugging)
    BY <1>1, <1>5, StepEffect, NotRefused
  <2>2. RunOK(q, meta, r, now, loaded)
    BY <1>1, <2>1, TopFacts
  <2>3. UNCHANGED <<program, now, loaded, armed, breakpoints, breakhits, debugging, interrupt_reset>>
    BY <1>5 DEF lua_debugstep
  <2>4. \/ StepDone(r) /\ UNCHANGED engine
        \/ ~StepDone(r) /\ StepsTo(q, r)
    BY <1>5, StepEffect
  <2>5. engine' \in [lines_left : {-1, 0, 1}, depth : Int] \/ UNCHANGED engine
    <3>1. CASE ~StepDone(r) /\ StepsTo(q, r)
      <4>1. engine.lines_left = 1 /\ engine.depth \in Int
        BY <3>1 DEF StepDone, ShapeInv
      <4>2. Len(r.frames) \in Int /\ debug.depth \in Int
        BY <1>1, <2>2, InsFacts DEF ShapeInv
      <4> QED BY <3>1, <4>1, <4>2 DEF StepsTo
    <3> QED BY <2>4, <3>1
  <2>6. \/ \E u : Retop(q, o, u) /\ RunOK(q, meta, u, now, loaded) /\ Hooks(r, u, "break") /\ UNCHANGED debug
        \/ \E u : Retop(q, o, u) /\ RunOK(q, meta, u, now, loaded) /\ WalkStarts(r, u, TRUE)
                  /\ Rebinds(r, singlestep \ {r.thread})
    BY <1>5, <2>1, StepEffect
  <2>7. StacksOK(q, meta, runs', now, loaded) /\ (DebugOK \/ UNCHANGED debug)
    <3>1. PICK u : /\ Retop(q, o, u) /\ RunOK(q, meta, u, now, loaded) /\ u.thread = r.thread
                   /\ Rebinds(r, singlestep \ {r.thread}) \/ UNCHANGED debug
      BY <2>6 DEF Hooks, Halts, WalkStarts, Stays
    <3>2. StacksOK(q, meta, runs', now, loaded)
      BY <1>1, <2>1, <3>1, RetopShape
    <3> QED BY <2>2, <3>1, <3>2, RebindsOK
  <2> HIDE DEF r
  <2> QED BY <2>3, <2>5, <2>7, ShapeFrom
<1>6. ASSUME NEW o \in OSThreads, lua_debugbreak(o) PROVE ShapeInv(meta)'
  <2> DEFINE r == Top(o)
  <2>1. Busy(o) /\ ~debugging /\ r.vm \in VMs /\ breakhits' = [breakhits EXCEPT ![r.vm] = 1 - breakhits[r.vm]]
    BY <1>1, <1>6, HitEffect, NotRefused
  <2>2. RunOK(q, meta, r, now, loaded)
    BY <1>1, <2>1, TopFacts
  <2>3. UNCHANGED <<program, now, loaded, armed, breakpoints, debugging, interrupt_reset, engine>>
    BY <1>6 DEF lua_debugbreak
  <2>4. \/ \E u : Retop(q, o, u) /\ RunOK(q, meta, u, now, loaded) /\ Meets(r, u, "exec") /\ UNCHANGED debug
        \/ \E u : Retop(q, o, u) /\ RunOK(q, meta, u, now, loaded) /\ Meets(r, u, "walk") /\ Rebinds(r, singlestep)
    BY <1>6, <2>1, HitEffect
  <2>5. StacksOK(q, meta, runs', now, loaded) /\ (DebugOK \/ UNCHANGED debug)
    <3>1. PICK u : /\ Retop(q, o, u) /\ RunOK(q, meta, u, now, loaded) /\ u.thread = r.thread
                   /\ Rebinds(r, singlestep) \/ UNCHANGED debug
      BY <2>4 DEF Meets, Stays
    <3>2. StacksOK(q, meta, runs', now, loaded)
      BY <1>1, <2>1, <3>1, RetopShape
    <3> QED BY <2>2, <3>1, <3>2, RebindsOK
  <2>6. breakhits' \in [VMs -> {0, 1}]
    BY <2>1 DEF ShapeInv
  <2> HIDE DEF r
  <2> QED BY <2>3, <2>5, <2>6, ShapeFrom
<1>7. ASSUME NEW o \in OSThreads, NoBreakpoint(o) PROVE ShapeInv(meta)'
  <2>1. PICK u : Busy(o) /\ Retop(q, o, u) /\ RunOK(q, meta, u, now, loaded) /\ u.thread = Top(o).thread
    BY <1>7, NoHitEffect DEF Hooks, Halts, Stays
  <2>2. StacksOK(q, meta, runs', now, loaded)
    BY <1>1, <2>1, RetopShape
  <2>3. UNCHANGED <<program, now, loaded, armed, breakpoints, breakhits, debug, debugging, interrupt_reset, engine>>
    BY <1>7 DEF NoBreakpoint
  <2> QED BY <2>2, <2>3, ShapeFrom
<1>8. ASSUME NEW o \in OSThreads, Exec(o) PROVE ShapeInv(meta)'
  <2>1. Busy(o) /\ Top(o).at = "exec" /\ Executed(q, meta, o, Top(o))
    BY <1>1, <1>8, ExecEffect
  <2>2. StacksOK(q, meta, runs', now, loaded)
    BY <1>1, <2>1, ExecutedShape
  <2>3. UNCHANGED <<program, now, loaded, breakhits, debug, debugging, interrupt_reset, engine>>
    BY <1>8 DEF Exec
  <2>4. BreaksOK(q) \/ UNCHANGED <<armed, breakpoints>>
    <3> DEFINE i == Instr(Here(Top(o)))
    <3>1. CASE ~(i.op = "breakpoint" /\ ~Expired(Top(o)))
      BY <1>8, <3>1 DEF Exec
    <3>2. CASE i.op = "breakpoint" /\ ~Expired(Top(o))
      <4>1. insert_breakpoint(i.line + 1)
        BY <1>8, <3>2 DEF Exec
      <4>2. BreakLine(q, i.line + 1)
        <5>1. RunOK(q, meta, Top(o), now, loaded) /\ i = Ins(q, Last(Top(o).frames))
          BY <1>1, <2>1, TopFacts DEF Instr, Here, Code, Ins
        <5> HIDE DEF i
        <5>2. \E f \in DOMAIN q.code : \E j \in DOMAIN q.code[f] : i = q.code[f][j]
          BY <1>1, <5>1, InsFacts
        <5> QED BY <3>2, <5>2 DEF BreakLine
      <4> HIDE DEF i
      <4>3. \A v \in VMs : armed[v] \subseteq breakpoints
        BY DEF ShapeInv
      <4>4. \A l \in breakpoints : BreakLine(q, l)
        BY DEF ShapeInv
      <4> QED BY <4>1, <4>2, <4>3, <4>4 DEF insert_breakpoint, BreaksOK
    <3> QED BY <3>1, <3>2
  <2> QED BY <2>2, <2>3, <2>4, ShapeFrom
<1>9. ASSUME NEW o \in OSThreads, WalkLevel(o) PROVE ShapeInv(meta)'
  <2> DEFINE r == Top(o)
  <2>1. /\ Busy(o)
        /\ \/ \E u, n : /\ Push(q, o, u, n) /\ RunOK(q, meta, u, now, loaded) /\ RunOK(q, meta, n, now, loaded)
                        /\ WalksOn(r, u) /\ Fresh(n.thread) /\ UNCHANGED debug
           \/ \E u : /\ Retop(q, o, u) /\ RunOK(q, meta, u, now, loaded) /\ WalksOn(r, u)
                     /\ ShowsFrame(q, r, r.frames[Len(r.frames) - r.level])
    BY <1>9, WalkLevelEffect
  <2>2. UNCHANGED <<program, now, loaded, armed, breakpoints, breakhits, debugging, interrupt_reset, engine>>
    BY <1>9 DEF WalkLevel
  <2> HIDE DEF q, r
  <2>3. CASE \E u, n : /\ Push(q, o, u, n) /\ RunOK(q, meta, u, now, loaded) /\ RunOK(q, meta, n, now, loaded)
                       /\ WalksOn(r, u) /\ Fresh(n.thread) /\ UNCHANGED debug
    <3>1. PICK u, n : /\ Push(q, o, u, n) /\ RunOK(q, meta, u, now, loaded) /\ RunOK(q, meta, n, now, loaded)
                      /\ WalksOn(r, u) /\ Fresh(n.thread) /\ UNCHANGED debug
      BY <2>3
    <3>2. u.thread = Top(o).thread /\ u.at \in {"wait", "walk"}
      BY <3>1 DEF WalksOn, Stays, r
    <3>3. StacksOK(q, meta, runs', now, loaded)
      BY <1>1, <2>1, <3>1, <3>2, PushShape
    <3> QED BY <2>2, <3>1, <3>3, ShapeFrom DEF q
  <2>4. CASE \E u : /\ Retop(q, o, u) /\ RunOK(q, meta, u, now, loaded) /\ WalksOn(r, u)
                    /\ ShowsFrame(q, r, r.frames[Len(r.frames) - r.level])
    <3>1. PICK u : /\ Retop(q, o, u) /\ RunOK(q, meta, u, now, loaded) /\ WalksOn(r, u)
                   /\ ShowsFrame(q, r, r.frames[Len(r.frames) - r.level])
      BY <2>4
    <3>2. u.thread = Top(o).thread
      BY <3>1 DEF WalksOn, Stays, r
    <3>3. StacksOK(q, meta, runs', now, loaded)
      BY <1>1, <2>1, <3>1, <3>2, RetopShape
    <3>4. DebugOK
      <4>1. debug.L \in Threads \cup {None} /\ debug.depth \in Int
        BY DEF ShapeInv
      <4> QED BY <3>1, <4>1 DEF ShowsFrame, DebugOK
    <3> QED BY <2>2, <3>3, <3>4, ShapeFrom DEF q
  <2> QED BY <2>1, <2>3, <2>4
<1>10. ASSUME NEW o \in OSThreads, WalkEnds(o) PROVE ShapeInv(meta)'
  <2> DEFINE r == Top(o)
  <2>1. ~InC(r)
    <3>1. Busy(o) /\ r.at = "walk"
      BY <1>10 DEF WalkEnds, At
    <3>2. ~Quiet(o, first)
      BY <1>1, <3>1, NotRefused
    <3>3. o = first
      BY <3>2 DEF Quiet
    <3>4. Len(runs[o]) \in 1..Len(runs[o]) /\ r = runs[o][Len(runs[o])]
      BY <1>1, <3>1, TopFacts
    <3> QED BY <3>1, <3>3, <3>4 DEF StopInv, StopOf, ShownRun
  <2>2. /\ Busy(o) /\ debug' = [debug EXCEPT !.depth = Len(r.frames)] /\ debugging' = (debugging \/ ~left_base(r))
        /\ \E u : Retop(q, o, u) /\ RunOK(q, meta, u, now, loaded) /\ Stays(r, u)
    BY <1>10, <2>1, WalkEndsEffect
  <2>3. UNCHANGED <<program, now, loaded, armed, breakpoints, breakhits, interrupt_reset, engine>>
    BY <1>10 DEF WalkEnds
  <2>4. StacksOK(q, meta, runs', now, loaded)
    BY <1>1, <2>2, RetopShape DEF Stays
  <2>5. DebugOK
    <3>1. Len(r.frames) \in Int
      BY <1>1, <2>2, TopFacts, InsFacts
    <3>2. debug.L \in Threads \cup {None} /\ DOMAIN debug = {"L", "error", "shown", "depth", "base"}
      BY DEF ShapeInv
    <3> QED BY <2>2, <3>1, <3>2 DEF DebugOK
  <2>6. debugging' \in BOOLEAN
    BY <2>2
  <2> HIDE DEF r
  <2> QED BY <2>3, <2>4, <2>5, <2>6, ShapeFrom
<1>11. ASSUME NEW o \in OSThreads, DebugEnds(o) PROVE ShapeInv(meta)'
  <2>1. StacksOK(q, meta, runs', now, loaded)
    BY <1>11, DebugEndsEffect
  <2>2. /\ UNCHANGED <<program, now, loaded, armed, breakpoints, breakhits, debug>>
        /\ debugging' = FALSE /\ interrupt_reset' = now + Timeout
        /\ \E c \in q.commands : engine' = Commands[c]
    BY <1>11 DEF DebugEnds, reset_at
  <2>3. q.commands \subseteq {"continue", "step", "next"}
    BY <1>1, ProgramAssumption DEF IsProgram
  <2>4. engine' \in [lines_left : {-1, 0, 1}, depth : Int]
    BY <2>2, <2>3 DEF Commands
  <2>5. interrupt_reset' \in 0..(MaxTime + Timeout)
    BY <2>2, TimeAssumption DEF ShapeInv
  <2> QED BY <2>1, <2>2, <2>4, <2>5, ShapeFrom
<1>12. ASSUME NEW o \in OSThreads, HandleError(o) PROVE ShapeInv(meta)'
  <2> DEFINE r == Top(o)
  <2>1. Busy(o) /\ r.at = "dead" /\ (~(r.kind = "coroutine" \/ r.broke) => ~debugging)
    BY <1>1, <1>12, ErrorEffect, NotRefused
  <2>2. RunOK(q, meta, r, now, loaded)
    BY <1>1, <2>1, TopFacts
  <2>3. UNCHANGED <<program, now, loaded, armed, breakpoints, breakhits, debugging, interrupt_reset, engine>>
    BY <1>12 DEF HandleError
  <2>4. \/ Drop(q, o) /\ UNCHANGED debug
        \/ \E u : Retop(q, o, u) /\ RunOK(q, meta, u, now, loaded) /\ WalkStarts(r, u, FALSE) /\ Rebinds(r, singlestep)
    BY <1>12, <2>1, ErrorEffect
  <2>5. CASE Drop(q, o) /\ UNCHANGED debug
    <3>1. StacksOK(q, meta, runs', now, loaded)
      BY <1>1, <2>1, <2>5, DropShape
    <3> QED BY <2>3, <2>5, <3>1, ShapeFrom
  <2>6. CASE \E u : Retop(q, o, u) /\ RunOK(q, meta, u, now, loaded) /\ WalkStarts(r, u, FALSE) /\ Rebinds(r, singlestep)
    <3>1. PICK u : Retop(q, o, u) /\ RunOK(q, meta, u, now, loaded) /\ u.thread = r.thread /\ Rebinds(r, singlestep)
      BY <2>6 DEF WalkStarts, Stays
    <3>2. StacksOK(q, meta, runs', now, loaded)
      BY <1>1, <2>1, <3>1, RetopShape
    <3>3. DebugOK
      BY <2>2, <3>1, RebindsOK
    <3> HIDE DEF r
    <3> QED BY <2>3, <3>2, <3>3, ShapeFrom
  <2> QED BY <2>4, <2>5, <2>6
<1> QED BY <1>2, <1>3, <1>4, <1>5, <1>6, <1>7, <1>8, <1>9, <1>10, <1>11, <1>12 DEF Next, Step

----------------------------------------------------------------------------
(* The threads that are never stopped change nothing of the debugger.          *)

\* Those of o that change are silent, and stay so.
QuietRuns(first, silent, o) ==
  /\ OnlyOf(o)
  /\ \A i \in 1..Len(runs'[o]) :
       \/ i \in 1..(Len(runs[o]) - 1) /\ runs'[o][i] = runs[o][i]
       \/ Silent(silent, runs'[o][i], debug)
  /\ \A i \in 1..Len(runs[o]) :
       \/ i \in 1..Len(runs'[o]) /\ runs'[o][i] = runs[o][i]
       \/ Silent(silent, runs[o][i], debug) /\ (o = first => \E k \in 1..(i - 1) : runs[o][k].at = "walk")

LEMMA QuietRetop ==
  ASSUME NEW q, q = Programs[program], NEW meta, ShapeInv(meta), NEW first \in OSThreads, NEW silent, StopInv(first, silent),
         NEW o \in OSThreads, Busy(o), Quiet(o, first), NEW u, Silent(silent, u, debug), Retop(q, o, u)
  PROVE  QuietRuns(first, silent, o)
<1> DEFINE n == Len(runs[o])
<1>1. StacksOK(q, meta, runs, now, loaded)
  BY ShapeFacts
<1>2. n \in Nat /\ n >= 1 /\ Top(o) = runs[o][n] /\ Silent(silent, Top(o), debug)
  BY <1>1, TopFacts, TopQuiet
<1>3. o = first => \E k \in 1..(n - 1) : runs[o][k].at = "walk"
  BY DEF Quiet
<1>4. /\ OnlyOf(o) /\ Len(runs'[o]) = n
      /\ \A i \in 1..(n - 1) : runs'[o][i] = runs[o][i]
      /\ runs'[o][n] = u
  BY DEF Retop
<1> HIDE DEF n
<1>5. \A i \in 1..n : i \in 1..(n - 1) \/ i = n
  BY <1>2
<1>6. \A i \in 1..(n - 1) : i \in 1..n
  BY <1>2
<1> QED BY <1>2, <1>3, <1>4, <1>5, <1>6 DEF QuietRuns, n

LEMMA QuietPush ==
  ASSUME NEW q, q = Programs[program], NEW meta, ShapeInv(meta), NEW first \in OSThreads, NEW silent, StopInv(first, silent),
         NEW o \in OSThreads, Busy(o), Quiet(o, first), NEW u, Silent(silent, u, debug),
         NEW m, Silent(silent, m, debug), Push(q, o, u, m)
  PROVE  QuietRuns(first, silent, o)
<1> DEFINE n == Len(runs[o])
<1>1. StacksOK(q, meta, runs, now, loaded)
  BY ShapeFacts
<1>2. n \in Nat /\ n >= 1 /\ Top(o) = runs[o][n] /\ Silent(silent, Top(o), debug)
  BY <1>1, TopFacts, TopQuiet
<1>3. o = first => \E k \in 1..(n - 1) : runs[o][k].at = "walk"
  BY DEF Quiet
<1>4. /\ OnlyOf(o) /\ Len(runs'[o]) = n + 1
      /\ \A i \in 1..(n - 1) : runs'[o][i] = runs[o][i]
      /\ runs'[o][n] = u /\ runs'[o][n + 1] = m
  BY DEF Push
<1> HIDE DEF n
<1>5. (\A i \in 1..n : i \in 1..(n - 1) \/ i = n) /\ \A i \in 1..(n + 1) : i \in 1..(n - 1) \/ i = n \/ i = n + 1
  BY <1>2
<1>6. \A i \in 1..(n - 1) : i \in 1..(n + 1)
  BY <1>2
<1> QED BY <1>2, <1>3, <1>4, <1>5, <1>6 DEF QuietRuns, n

LEMMA QuietDrop ==
  ASSUME NEW q, q = Programs[program], NEW meta, ShapeInv(meta), NEW first \in OSThreads, NEW silent, StopInv(first, silent),
         NEW o \in OSThreads, Busy(o), Quiet(o, first), Drop(q, o)
  PROVE  QuietRuns(first, silent, o)
<1> DEFINE n == Len(runs[o])
           b == runs[o][n - 1]
           c == runs'[o][n - 1]
<1>1. StacksOK(q, meta, runs, now, loaded) /\ IsProgram(q)
  BY ShapeFacts
<1>2. n \in Nat /\ n >= 1 /\ Top(o) = runs[o][n] /\ Silent(silent, Top(o), debug) /\ runs[o] \in Seq(RunType(q))
  BY <1>1, TopFacts, TopQuiet
<1>3. o = first => \E k \in 1..(n - 1) : runs[o][k].at = "walk"
  BY DEF Quiet
<1>4. /\ OnlyOf(o) /\ Len(runs'[o]) = n - 1
      /\ \A i \in 1..(n - 2) : runs'[o][i] = runs[o][i]
      /\ n >= 2 => c = Woken(b, Top(o))
  BY <1>2 DEF Drop, DropOf
<1>4a. n >= 2 => /\ b.at = "wait" => Wakes(b, Top(o), c)
                 /\ b.at # "wait" => c = b
  <2> SUFFICES ASSUME n >= 2 PROVE (b.at = "wait" => Wakes(b, Top(o), c)) /\ (b.at # "wait" => c = b)
    OBVIOUS
  <2>1. RunOK(q, meta, b, now, loaded) /\ Top(o) \in RunType(q)
    BY <1>1, <1>2, TopFacts DEF StacksOK, StackOK
  <2> QED BY <1>1, <1>4, <2>1, WokenFacts
<1>5. ASSUME n >= 2, b.at = "wait"
      PROVE  /\ Silent(silent, b, debug) /\ Silent(silent, c, debug)
             /\ o = first => \E k \in 1..(n - 2) : runs[o][k].at = "walk"
  <2>1. n - 1 \in 1..n
    BY <1>2, <1>5
  <2>2. RunOK(q, meta, b, now, loaded)
    BY <1>1, <2>1 DEF StacksOK, StackOK
  <2>3. o = first => \E k \in 1..(n - 2) : runs[o][k].at = "walk"
    <3> SUFFICES ASSUME o = first PROVE \E k \in 1..(n - 2) : runs[o][k].at = "walk"
      OBVIOUS
    <3>1. PICK k \in 1..(n - 1) : runs[o][k].at = "walk"
      BY <1>3
    <3>2. k # n - 1
      BY <1>5, <3>1
    <3>3. k \in 1..(n - 2)
      BY <1>2, <3>2
    <3> QED BY <3>1, <3>3
  <2>4. Silent(silent, b, debug)
    <3>1. CASE o # first
      BY <2>1, <3>1 DEF StopInv, StopOf
    <3>2. CASE o = first
      <4>1. PICK k \in 1..(n - 2) : runs[o][k].at = "walk"
        BY <2>3, <3>2
      <4>2. k \in 1..n /\ k < n - 1
        BY <1>2
      <4> QED BY <2>1, <3>2, <4>1, <4>2 DEF StopInv, StopOf
    <3> QED BY <3>1, <3>2
  <2>5. GoesOn(b, c) /\ SameFunctions(b, c) /\ c.broke = b.broke
    BY <1>2, <1>5, <1>4a DEF Silent, Wakes
  <2>6. Silent(silent, c, debug)
    BY <2>4, <2>5 DEF Silent, GoesOn, SameFunctions
  <2> QED BY <2>3, <2>4, <2>6
<1> HIDE DEF n, b, c
<1>6. \A i \in 1..n : i \in 1..(n - 2) \/ (i = n - 1 /\ n >= 2) \/ i = n
  BY <1>2
<1>7. \A i \in 1..(n - 2) : i \in 1..(n - 1)
  BY <1>2
<1>8. \A i \in 1..(n - 1) : i \in 1..(n - 2) \/ (i = n - 1 /\ n >= 2)
  BY <1>2
<1>9. ASSUME NEW i \in 1..(n - 1)
      PROVE  runs'[o][i] = runs[o][i] \/ Silent(silent, runs'[o][i], debug)
  <2>1. CASE i \in 1..(n - 2)
    BY <1>4, <2>1
  <2>2. CASE i = n - 1 /\ n >= 2
    BY <1>5, <1>4a, <2>2 DEF b, c
  <2> QED BY <1>8, <2>1, <2>2
<1>10. ASSUME NEW i \in 1..n
       PROVE  \/ i \in 1..(n - 1) /\ runs'[o][i] = runs[o][i]
              \/ Silent(silent, runs[o][i], debug) /\ (o = first => \E k \in 1..(i - 1) : runs[o][k].at = "walk")
  <2>1. CASE i \in 1..(n - 2)
    BY <1>4, <1>7, <2>1
  <2>2. CASE i = n - 1 /\ n >= 2 /\ b.at = "wait"
    <3>1. n - 2 = i - 1
      BY <1>2, <2>2
    <3> QED BY <1>5, <2>2, <3>1 DEF b
  <2>3. CASE i = n - 1 /\ n >= 2 /\ b.at # "wait"
    <3>1. i \in 1..(n - 1)
      BY <1>2, <2>3
    <3> QED BY <1>4a, <2>3, <3>1 DEF b, c
  <2>4. CASE i = n
    BY <1>2, <1>3, <2>4
  <2> QED BY <1>6, <2>1, <2>2, <2>3, <2>4
<1> QED BY <1>4, <1>9, <1>10 DEF QuietRuns, n

\* An instruction of a silent thread.
LEMMA QuietExecuted ==
  ASSUME NEW q, q = Programs[program], NEW meta, ShapeInv(meta), NEW first \in OSThreads, NEW silent, StopInv(first, silent),
         SilentCode(q, silent), NEW o \in OSThreads, Busy(o), Quiet(o, first), Executed(q, meta, o, Top(o))
  PROVE  QuietRuns(first, silent, o)
<1> DEFINE r == Top(o)
           i == Ins(q, r.frames[Len(r.frames)])
<1>1. StacksOK(q, meta, runs, now, loaded) /\ IsProgram(q) /\ now \in Nat
  BY ShapeFacts
<1>2. RunOK(q, meta, r, now, loaded) /\ Silent(silent, r, debug)
  BY <1>1, TopFacts, TopQuiet
<1>3. Len(r.frames) \in Nat /\ Len(r.frames) >= 1 /\ Last(r.frames) = r.frames[Len(r.frames)]
  BY <1>1, <1>2, InsFacts
<1>4. /\ i.op \in {"call", "meta"} => i.to \in silent[r.kind]
      /\ i.op = "engine" => i.to \in silent["resume"]
      /\ i.op = "coroutine" => i.to \in silent["coroutine"]
      /\ r.kind \in Kinds
      /\ r.kind = "resume" => i.op # "error" /\ (q.timed => i.op \notin Interrupting)
  BY <1>1, <1>2, <1>3, SilentFacts
<1>5. ASSUME NEW u, Retop(q, o, u), Goes(q, r, u) PROVE QuietRuns(first, silent, o)
  <2>1. \A k \in 1..Len(u.frames) : u.frames[k].f \in silent[r.kind]
    <3> SUFFICES ASSUME NEW k \in 1..Len(u.frames) PROVE u.frames[k].f \in silent[r.kind]
      OBVIOUS
    <3>1. CASE k <= Len(r.frames)
      BY <1>2, <1>3, <1>5, <3>1 DEF Goes, FramesGo, Silent
    <3>2. CASE k > Len(r.frames)
      BY <1>3, <1>4, <1>5, <3>2 DEF Goes, FramesGo
    <3> QED BY <1>3, <3>1, <3>2
  <2>2. Silent(silent, u, debug)
    BY <1>2, <1>5, <2>1 DEF Silent, Goes, GoesOn
  <2> QED BY <1>5, <2>2, QuietRetop
<1>6. ASSUME NEW u, NEW n, Push(q, o, u, n), Waits(r, u), Makes(q, r, n) PROVE QuietRuns(first, silent, o)
  <2>1. Silent(silent, u, debug)
    BY <1>2, <1>6 DEF Silent, Waits, Halts, Stays
  <2>2. Silent(silent, n, debug)
    BY <1>4, <1>6 DEF Silent, Makes, Begins
  <2> QED BY <1>6, <2>1, <2>2, QuietPush
<1>7. ASSUME NEW u, Retop(q, o, u), Ends(r, u), i.op = "error" \/ (i.op \in Interrupting /\ Expired(r))
      PROVE  QuietRuns(first, silent, o)
  <2>1. r.kind = "coroutine"
    <3>1. Expired(r) => q.timed
      <4>1. r.deadline \in Nat
        BY <1>2 DEF RunOK, RunType
      <4> QED BY <1>1, <1>2, <4>1 DEF Expired, RunOK
    <3> QED BY <1>4, <1>7, <3>1 DEF Kinds
  <2>2. Silent(silent, u, debug)
    BY <1>2, <1>7, <2>1 DEF Silent, Ends, Halts, Stays
  <2> QED BY <1>7, <2>2, QuietRetop
<1> HIDE DEF i
<1> QED BY <1>5, <1>6, <1>7, QuietDrop DEF Executed, Done, i

\* Every step.
LEMMA QuietEffect ==
  ASSUME NEW first \in OSThreads, NEW silent, NEW meta, Discipline(Programs[program], first, silent, meta),
         ShapeInv(meta), StopInv(first, silent), NEW o \in OSThreads, Quiet(o, first), Step(o)
  PROVE  /\ QuietRuns(first, silent, o)
         /\ UNCHANGED <<program, singlestep, breakhits, debug, debugging, engine>>
         /\ \A v \in VMs : armed[v] \subseteq armed'[v]
         /\ asked' # asked => Busy(o) /\ asked # None /\ asked' = None /\ asked.thread = Top(o).thread
<1> DEFINE q == Programs[program]
           r == Top(o)
<1>1. /\ StacksOK(q, meta, runs, now, loaded) /\ IsProgram(q) /\ SilentCode(q, silent) /\ MetaCode(q, meta)
  BY ShapeFacts DEF Discipline
<1>2. Busy(o) => Silent(silent, r, debug)
  BY TopQuiet
<1>3. ASSUME Start(o) PROVE QuietRuns(first, silent, o)
  <2>1. runs[o] = << >> /\ o # first
    <3>1. runs[o] = << >>
      BY <1>3, StartEffect
    <3> QED BY <3>1 DEF Quiet
  <2>2. PICK n : \E e \in q.entries[o] :
              /\ runs' = [runs EXCEPT ![o] = <<n>>]
              /\ Begins(n, e.f) /\ n.kind = e.kind /\ n.thread # debug.L
    BY <1>3, StartEffect
  <2>3. Silent(silent, n, debug)
    BY <2>1, <2>2 DEF Discipline, Silent, Begins
  <2>4. PICK z : z = <<n>>
    OBVIOUS
  <2>5. Len(z) = 1 /\ z[1] = n
    BY <2>4
  <2>6. OnlyOf(o) /\ runs'[o] = z
    BY <1>1, <2>2, <2>4 DEF OnlyOf, StacksOK
  <2>7. Len(runs[o]) = 0
    BY <2>1
  <2>8. \A i \in 1..Len(runs'[o]) : Silent(silent, runs'[o][i], debug)
    <3> SUFFICES ASSUME NEW i \in 1..Len(runs'[o]) PROVE Silent(silent, runs'[o][i], debug)
      OBVIOUS
    <3>1. i = 1
      <4>1. i \in 1..Len(z)
        BY <2>6
      <4> QED BY <2>5, <4>1
    <3>2. runs'[o][i] = n
      BY <2>5, <2>6, <3>1
    <3> QED BY <2>3, <3>2
  <2>9. \A i \in 1..Len(runs[o]) : FALSE
    BY <2>7
  <2> QED BY <2>6, <2>8, <2>9 DEF QuietRuns
<1>4. CASE Start(o)
  BY <1>3, <1>4 DEF Start
<1>5. CASE lua_debugstep(o)
  <2>1. Busy(o) /\ r.at = "step" /\ StepDone(r)
    BY <1>1, <1>5, StepEffect, NotRefused
  <2>2. /\ UNCHANGED <<engine, singlestep, debug>>
        /\ \E u : Retop(q, o, u) /\ RunOK(q, meta, u, now, loaded) /\ Hooks(r, u, "break")
    BY <1>5, <2>1, StepEffect
  <2>3. PICK u : Retop(q, o, u) /\ Hooks(r, u, "break")
    BY <2>2
  <2>4. Silent(silent, u, debug)
    BY <1>2, <2>1, <2>3 DEF Silent, Hooks, Halts, Stays, AsWas
  <2>5. QuietRuns(first, silent, o)
    BY <2>1, <2>3, <2>4, QuietRetop
  <2> QED BY <1>5, <2>2, <2>5 DEF lua_debugstep
<1>6. CASE lua_debugbreak(o)
  BY <1>1, <1>6, HitEffect, NotRefused
<1>7. CASE NoBreakpoint(o)
  <2>1. PICK u : Busy(o) /\ r.at = "break" /\ Retop(q, o, u) /\ Hooks(r, u, "exec")
    BY <1>7, NoHitEffect
  <2>2. Silent(silent, u, debug)
    BY <1>2, <2>1 DEF Silent, Hooks, Halts, Stays, AsWas
  <2>3. QuietRuns(first, silent, o)
    BY <2>1, <2>2, QuietRetop
  <2> QED BY <1>7, <2>3 DEF NoBreakpoint
<1>8. CASE Exec(o)
  <2>1. Busy(o) /\ Executed(q, meta, o, r)
    BY <1>1, <1>8, ExecEffect
  <2>2. QuietRuns(first, silent, o)
    BY <1>1, <2>1, QuietExecuted
  <2>3. \A v \in VMs : armed[v] \subseteq armed'[v]
    BY <1>8 DEF Exec, insert_breakpoint
  <2>4. asked' = Kept(o) /\ UNCHANGED <<program, singlestep, breakhits, debug, debugging, engine>>
    BY <1>8 DEF Exec
  <2> QED BY <2>1, <2>2, <2>3, <2>4 DEF Kept
<1>9. CASE WalkLevel(o) \/ WalkEnds(o) \/ DebugEnds(o)
  <2>1. Busy(o) /\ r.at \in {"walk", "debug"}
    BY <1>9 DEF WalkLevel, WalkEnds, DebugEnds, At
  <2> QED BY <1>1, <2>1, NotRefused
<1>10. CASE HandleError(o)
  <2>1. Busy(o) /\ r.at = "dead" /\ Drop(q, o) /\ UNCHANGED <<singlestep, debug>>
    BY <1>1, <1>10, ErrorEffect, NotRefused
  <2>2. QuietRuns(first, silent, o)
    BY <2>1, QuietDrop
  <2>3. asked' = Kept(o) /\ UNCHANGED <<program, armed, breakhits, debugging, engine>>
    BY <1>10 DEF HandleError
  <2> QED BY <2>1, <2>2, <2>3 DEF Kept
<1> QED BY <1>4, <1>5, <1>6, <1>7, <1>8, <1>9, <1>10 DEF Step
\* A thread that is silent meets what is said of those that may be stopped.
LEMMA SilentRun ==
  ASSUME NEW q, NEW silent, NEW d, NEW r, Silent(silent, r, d), NEW arm, NEW hits, NEW e, NEW single, NEW a, NEW top
  PROVE  /\ ShownRun(q, r, d) /\ HookRun(q, r, arm, hits) /\ ~Pending(r)
         /\ AskedRun(q, r, d, e, single, a) /\ EndingRun(q, r, d, a) /\ LeftRun(r, top, d, e, single, a)
         /\ r.at \notin {"walk", "debug"}
<1>1. r.at \notin {"walk", "debug"} /\ ~r.hooked /\ r.stops = 0 /\ r.thread # d.L
  BY DEF Silent
<1> QED BY <1>1 DEF ShownRun, HookRun, Pending, AskedRun, EndingRun, LeftRun

\* What the bits for hits say is kept where threads that are not stopped change.
LEMMA QuietStop ==
  ASSUME NEW q, q = Programs[program], NEW meta, ShapeInv(meta), NEW first \in OSThreads, NEW silent, StopInv(first, silent),
         NEW o \in OSThreads, Quiet(o, first), o = first => Busy(o), QuietRuns(first, silent, o),
         UNCHANGED <<program, singlestep, breakhits, debug, debugging>>,
         \A v \in VMs : armed[v] \subseteq armed'[v]
  PROVE  StopInv(first, silent)'
<1> DEFINE s == runs[first]
           z == runs'[first]
<1>1. StacksOK(q, meta, runs, now, loaded)
  BY ShapeFacts
<1>2. s \in Seq(RunType(q)) /\ Len(s) \in Nat
  <2>1. s \in Seq(RunType(q))
    BY <1>1 DEF StacksOK, StackOK
  <2> QED BY <2>1
<1>3. StopOf(q, first, silent, runs, debug, armed, breakhits, debugging, singlestep)
  BY DEF StopInv
<1>4. \A p \in OSThreads \ {first} : \A i \in 1..Len(runs'[p]) : Silent(silent, runs'[p][i], debug)
  <2> SUFFICES ASSUME NEW p \in OSThreads \ {first}, NEW i \in 1..Len(runs'[p]) PROVE Silent(silent, runs'[p][i], debug)
    OBVIOUS
  <2>1. CASE p # o
    BY <1>3, <2>1 DEF QuietRuns, OnlyOf, StopOf
  <2>2. CASE p = o
    <3>1. CASE i \in 1..(Len(runs[o]) - 1) /\ runs'[o][i] = runs[o][i]
      <4>1. Len(runs[o]) \in Nat
        <5>1. runs[o] \in Seq(RunType(q))
          BY <1>1 DEF StacksOK, StackOK
        <5> QED BY <5>1
      <4>2. i \in 1..Len(runs[o])
        BY <3>1, <4>1
      <4> QED BY <1>3, <2>2, <3>1, <4>2 DEF StopOf
    <3> QED BY <2>2, <3>1 DEF QuietRuns
  <2> QED BY <2>1, <2>2
<1>5. CASE o # first
  <2>1. z = s
    BY <1>5 DEF QuietRuns, OnlyOf
  <2>2. \A i \in 1..Len(s) : HookRun(q, s[i], armed', breakhits)
    <3> SUFFICES ASSUME NEW i \in 1..Len(s) PROVE HookRun(q, s[i], armed', breakhits)
      OBVIOUS
    <3>1. HookRun(q, s[i], armed, breakhits) /\ s[i] \in RunType(q)
      BY <1>2, <1>3 DEF StopOf
    <3>2. s[i].vm \in VMs
      BY <3>1 DEF RunType
    <3> QED BY <3>1, <3>2 DEF HookRun
  <2>3. StopOf(q, first, silent, runs', debug, armed', breakhits, debugging, singlestep)
    BY <1>3, <1>4, <2>1, <2>2 DEF StopOf
  <2> QED BY <2>3 DEF StopInv
<1>6. CASE o = first
  <2>1. ~debugging
    <3>1. Silent(silent, Top(o), debug) /\ (debugging <=> Top(o).at = "debug")
      BY <1>6, TopQuiet
    <3> QED BY <3>1 DEF Silent
  <2>2. \A i \in 1..(Len(s) - 1) : s[i].at \in {"wait", "walk"} /\ i \in 1..Len(s)
    BY <1>1, <1>2 DEF StacksOK, StackOK
  <2>3. ASSUME NEW i \in 1..Len(z)
        PROVE  (i \in 1..(Len(s) - 1) /\ z[i] = s[i]) \/ Silent(silent, z[i], debug)
    BY <1>6 DEF QuietRuns
  <2>4. ASSUME NEW i \in 1..Len(s)
        PROVE  (i \in 1..Len(z) /\ z[i] = s[i]) \/ Silent(silent, s[i], debug)
    BY <1>6 DEF QuietRuns
  <2> HIDE DEF s, z
  <2>5. ASSUME NEW i \in 1..Len(z), NEW j \in 1..Len(z), i < j, z[i].at = "walk" PROVE Silent(silent, z[j], debug)
    <3>1. i \in 1..Len(s) /\ z[i] = s[i]
      BY <2>2, <2>3, <2>5, SilentRun
    <3>2. CASE j \in 1..(Len(s) - 1) /\ z[j] = s[j]
      BY <1>3, <2>2, <2>5, <3>1, <3>2 DEF StopOf, s
    <3> QED BY <2>3, <3>2
  <2>6. ASSUME NEW i \in 1..Len(z) PROVE ShownRun(q, z[i], debug) /\ HookRun(q, z[i], armed', breakhits)
    <3>1. CASE Silent(silent, z[i], debug)
      BY <3>1, SilentRun
    <3>2. CASE i \in 1..(Len(s) - 1) /\ z[i] = s[i]
      <4>1. ShownRun(q, s[i], debug) /\ HookRun(q, s[i], armed, breakhits) /\ s[i] \in RunType(q)
        BY <1>2, <1>3, <2>2, <3>2 DEF StopOf, s
      <4>2. s[i].vm \in VMs
        BY <4>1 DEF RunType
      <4> QED BY <3>2, <4>1, <4>2 DEF HookRun
    <3> QED BY <2>3, <3>1, <3>2
  <2>7. HookInv(z, breakhits)
    <3> SUFFICES ASSUME NEW v \in VMs, breakhits[v] = 1 PROVE \E i \in 1..Len(z) : z[i].vm = v /\ Pending(z[i])
      BY DEF HookInv
    <3>1. PICK i \in 1..Len(s) : s[i].vm = v /\ Pending(s[i])
      BY <1>3 DEF StopOf, HookInv, s
    <3> QED BY <2>4, <3>1, SilentRun
  <2>8. ~\E i \in 1..Len(z) : i = Len(z) /\ z[i].at = "debug"
    <3>1. \A i \in 1..Len(z) : z[i].at # "debug"
      BY <2>2, <2>3, SilentRun
    <3> QED BY <3>1
  <2>9. singlestep \subseteq {debug.L} /\ (singlestep # {} => ~(q.commands \subseteq {"continue"}))
    BY <1>3 DEF StopOf
  <2>10. StopOf(q, first, silent, runs', debug, armed', breakhits, debugging, singlestep)
    BY <1>4, <2>1, <2>5, <2>6, <2>7, <2>8, <2>9 DEF StopOf, z
  <2> QED BY <2>10 DEF StopInv
<1> QED BY <1>5, <1>6

\* And what is said of steps.
LEMMA QuietStep ==
  ASSUME NEW q, q = Programs[program], NEW meta, ShapeInv(meta), NEW first \in OSThreads, NEW silent, StopInv(first, silent),
         StepInv(first), NEW o \in OSThreads, Quiet(o, first), o = first => Busy(o), QuietRuns(first, silent, o),
         UNCHANGED <<program, singlestep, debug, engine>>,
         asked' # asked => Busy(o) /\ asked # None /\ asked' = None /\ asked.thread = Top(o).thread
  PROVE  StepInv(first)'
<1> DEFINE s == runs[first]
           z == runs'[first]
<1>1. StacksOK(q, meta, runs, now, loaded)
  BY ShapeFacts
<1>2. s \in Seq(RunType(q)) /\ Len(s) \in Nat
  <2>1. s \in Seq(RunType(q))
    BY <1>1 DEF StacksOK, StackOK
  <2> QED BY <2>1
<1>3. StepOf(q, s, debug, engine, singlestep, asked)
  BY DEF StepInv
<1>4. asked' = asked
  <2> SUFFICES ASSUME Busy(o), asked # None, asked.thread = Top(o).thread PROVE FALSE
    OBVIOUS
  <2>1. PICK i \in 1..Len(s) : s[i].thread = asked.thread /\ \A j \in 1..(i - 1) : s[j].at # "walk"
    BY <1>3 DEF StepOf
  <2>2. Len(runs[o]) \in 1..Len(runs[o]) /\ Top(o) = runs[o][Len(runs[o])]
    BY <1>1, TopFacts
  <2>3. o = first /\ i = Len(runs[o])
    BY <1>1, <2>1, <2>2 DEF StacksOK, Apart
  <2> QED BY <2>1, <2>3 DEF Quiet
<1>5. CASE o # first
  <2>1. z = s
    BY <1>5 DEF QuietRuns, OnlyOf
  <2> QED BY <1>3, <1>4, <2>1 DEF StepInv
<1>6. CASE o = first
  <2>1. ASSUME NEW i \in 1..Len(z)
        PROVE  (i \in 1..(Len(s) - 1) /\ i \in 1..Len(s) /\ i # Len(s) /\ z[i] = s[i]) \/ Silent(silent, z[i], debug)
    <3>1. (i \in 1..(Len(s) - 1) /\ z[i] = s[i]) \/ Silent(silent, z[i], debug)
      BY <1>6 DEF QuietRuns
    <3> QED BY <1>2, <3>1
  <2>2. ASSUME NEW i \in 1..Len(s)
        PROVE  \/ i \in 1..Len(z) /\ z[i] = s[i]
               \/ Silent(silent, s[i], debug) /\ \E k \in 1..(i - 1) : s[k].at = "walk"
    BY <1>6 DEF QuietRuns
  <2> HIDE DEF s, z
  <2>3. ASSUME asked # None
        PROVE  \E i \in 1..Len(z) : z[i].thread = asked.thread /\ \A j \in 1..(i - 1) : z[j].at # "walk"
    <3>1. PICK i \in 1..Len(s) : s[i].thread = asked.thread /\ \A j \in 1..(i - 1) : s[j].at # "walk"
      BY <1>3, <2>3 DEF StepOf
    <3>2. i \in 1..Len(z) /\ z[i] = s[i]
      BY <2>2, <3>1
    <3>3. ASSUME NEW j \in 1..(i - 1) PROVE z[j].at # "walk"
      <4>1. Len(z) \in Nat
        <5>1. z \in Seq(RunType(q)) \/ Len(z) \in Nat
          BY <3>2
        <5> QED BY <5>1
      <4>2. j \in 1..Len(z)
        BY <3>2, <4>1
      <4> QED BY <2>1, <3>1, <4>2, SilentRun
    <3> QED BY <3>1, <3>2, <3>3
  <2>4. ASSUME asked # None, asked.thread # debug.L PROVE \E i \in 1..Len(z) : z[i].at \in {"walk", "debug"}
    <3>1. PICK i \in 1..Len(s) : s[i].at \in {"walk", "debug"}
      BY <1>3, <2>4 DEF StepOf
    <3> QED BY <2>2, <3>1, SilentRun
  <2>5. ASSUME NEW i \in 1..Len(z)
        PROVE  /\ AskedRun(q, z[i], debug, engine, singlestep, asked)
               /\ EndingRun(q, z[i], debug, asked)
               /\ LeftRun(z[i], i = Len(z), debug, engine, singlestep, asked)
               /\ z[i].at = "walk" /\ z[i].step => singlestep = {}
    <3>1. CASE Silent(silent, z[i], debug)
      BY <3>1, SilentRun
    <3>2. CASE i \in 1..Len(s) /\ i # Len(s) /\ z[i] = s[i]
      BY <1>3, <3>2 DEF StepOf, LeftRun
    <3> QED BY <2>1, <3>1, <3>2
  <2>6. StepOf(q, z, debug, engine, singlestep, asked)
    BY <1>3, <2>3, <2>4, <2>5 DEF StepOf
  <2> QED BY <1>4, <2>6 DEF StepInv, z
<1> QED BY <1>5, <1>6

----------------------------------------------------------------------------
(* The OS thread that may be stopped: what its innermost thread shows and      *)
(* whose hits are counted.                                                     *)

\* In the new state all that is below its innermost thread u waits.
LEMMA StopTop ==
  ASSUME NEW q, q = Programs[program], NEW meta, ShapeInv(meta), NEW first \in OSThreads, NEW silent, StopInv(first, silent),
         UNCHANGED program, OnlyOf(first), NEW k \in Nat, NEW z, z = runs'[first], Len(z) = k + 1,
         \A i \in 1..k : z[i].at = "wait" /\ HookRun(q, z[i], armed', breakhits'),
         NEW u, z[k + 1] = u, ShownRun(q, u, debug'), HookRun(q, u, armed', breakhits'),
         \A v \in VMs : breakhits'[v] = 1 => u.vm = v /\ Pending(u),
         debugging' <=> u.at = "debug",
         debug'.L = debug.L \/ (Busy(first) /\ debug'.L = Top(first).thread),
         singlestep' \subseteq {debug'.L}, singlestep' # {} => ~(q.commands \subseteq {"continue"})
  PROVE  StopInv(first, silent)'
<1>1. StacksOK(q, meta, runs, now, loaded)
  BY ShapeFacts
<1>2. \A p \in OSThreads \ {first} : \A i \in 1..Len(runs'[p]) : Silent(silent, runs'[p][i], debug')
  <2> SUFFICES ASSUME NEW p \in OSThreads \ {first}, NEW i \in 1..Len(runs[p]) PROVE Silent(silent, runs[p][i], debug')
    BY DEF OnlyOf
  <2>1. Silent(silent, runs[p][i], debug)
    BY DEF StopInv, StopOf
  <2>2. Busy(first) => runs[p][i].thread # Top(first).thread
    <3> SUFFICES ASSUME Busy(first) PROVE runs[p][i].thread # Top(first).thread
      OBVIOUS
    <3>1. Len(runs[first]) \in 1..Len(runs[first]) /\ Top(first) = runs[first][Len(runs[first])]
      BY <1>1, TopFacts
    <3> QED BY <1>1, <3>1 DEF StacksOK, Apart
  <2> QED BY <2>1, <2>2 DEF Silent
<1>3. \A i \in 1..(k + 1) : i \in 1..k \/ i = k + 1
  OBVIOUS
<1>4. \A i, j \in 1..(k + 1) : i < j => i \in 1..k
  OBVIOUS
<1>5. k + 1 \in 1..(k + 1)
  OBVIOUS
<1>6. \A i \in 1..(k + 1) : ShownRun(q, z[i], debug') /\ HookRun(q, z[i], armed', breakhits')
  <2>1. \A i \in 1..k : ShownRun(q, z[i], debug')
    BY DEF ShownRun
  <2> QED BY <1>3, <2>1
<1>7. HookInv(z, breakhits')
  BY <1>5 DEF HookInv
<1>8. debugging' <=> \E i \in 1..(k + 1) : i = k + 1 /\ z[i].at = "debug"
  BY <1>5
<1>9. \A i, j \in 1..(k + 1) : i < j /\ z[i].at = "walk" => Silent(silent, z[j], debug')
  BY <1>4
<1>10. StopOf(q, first, silent, runs', debug', armed', breakhits', debugging', singlestep')
  BY <1>2, <1>6, <1>7, <1>8, <1>9 DEF StopOf
<1> QED BY <1>10 DEF StopInv

\* Or it runs nothing.
LEMMA StopNone ==
  ASSUME NEW q, q = Programs[program], NEW meta, ShapeInv(meta), NEW first \in OSThreads, NEW silent, StopInv(first, silent),
         UNCHANGED <<program, debug>>, OnlyOf(first), Len(runs'[first]) = 0,
         \A v \in VMs : breakhits'[v] # 1, ~debugging',
         singlestep' \subseteq {debug.L}, singlestep' # {} => ~(q.commands \subseteq {"continue"})
  PROVE  StopInv(first, silent)'
<1>1. \A p \in OSThreads \ {first} : \A i \in 1..Len(runs'[p]) : Silent(silent, runs'[p][i], debug)
  BY DEF OnlyOf, StopInv, StopOf
<1>2. \A i \in 1..Len(runs'[first]) : FALSE
  OBVIOUS
<1>3. StopOf(q, first, silent, runs', debug', armed', breakhits', debugging', singlestep')
  BY <1>1, <1>2 DEF StopOf, HookInv
<1> QED BY <1>3 DEF StopInv

\* What the invariant says of the innermost thread where all others wait.
Alone(first) == Busy(first) /\ \A i \in 1..(Len(runs[first]) - 1) : runs[first][i].at = "wait"

LEMMA AloneFacts ==
  ASSUME NEW q, q = Programs[program], NEW meta, ShapeInv(meta), NEW first \in OSThreads, NEW silent, StopInv(first, silent),
         Alone(first)
  PROVE  LET r == Top(first)
             s == runs[first] IN
         /\ Len(s) \in Nat /\ Len(s) >= 1 /\ r = s[Len(s)] /\ RunOK(q, meta, r, now, loaded)
         /\ ShownRun(q, r, debug) /\ HookRun(q, r, armed, breakhits)
         /\ debugging <=> r.at = "debug"
         /\ \A v \in VMs : breakhits[v] = 1 => r.vm = v /\ Pending(r)
         /\ \A i \in 1..(Len(s) - 1) : i \in 1..Len(s) /\ s[i].at = "wait" /\ RunOK(q, meta, s[i], now, loaded)
                /\ s[i].thread # r.thread
         /\ \A i \in 1..(Len(s) - 1) : \A arm, hits : HookRun(q, s[i], arm, hits)
<1> DEFINE r == Top(first)
           s == runs[first]
<1>1. StacksOK(q, meta, runs, now, loaded) /\ Busy(first)
  BY ShapeFacts DEF Alone
<1>2. Len(s) \in Nat /\ Len(s) >= 1 /\ r = s[Len(s)] /\ RunOK(q, meta, r, now, loaded) /\ Len(s) \in 1..Len(s)
  BY <1>1, TopFacts
<1>3. StopOf(q, first, silent, runs, debug, armed, breakhits, debugging, singlestep)
  BY DEF StopInv
<1>4. \A i \in 1..(Len(s) - 1) : i \in 1..Len(s) /\ s[i].at = "wait" /\ RunOK(q, meta, s[i], now, loaded)
  BY <1>1, <1>2 DEF StacksOK, StackOK, Alone
<1>5. \A i \in 1..(Len(s) - 1) : s[i].thread # r.thread
  BY <1>1, <1>2, <1>4 DEF StacksOK, Apart
<1> HIDE DEF s, r
<1>6. ShownRun(q, r, debug) /\ HookRun(q, r, armed, breakhits)
  BY <1>2, <1>3 DEF StopOf, s
<1>7. debugging <=> r.at = "debug"
  BY <1>2, <1>3 DEF StopOf, s
<1>8. ASSUME NEW v \in VMs, breakhits[v] = 1 PROVE r.vm = v /\ Pending(r)
  <2>1. PICK i \in 1..Len(s) : s[i].vm = v /\ Pending(s[i])
    BY <1>3, <1>8 DEF StopOf, HookInv, s
  <2>2. i = Len(s) \/ i \in 1..(Len(s) - 1)
    BY <1>2
  <2>3. i \notin 1..(Len(s) - 1)
    BY <1>4, <2>1 DEF Pending
  <2> QED BY <1>2, <2>1, <2>2, <2>3
<1>9. ASSUME NEW i \in 1..(Len(s) - 1), NEW arm, NEW hits PROVE HookRun(q, s[i], arm, hits)
  <2>1. HookRun(q, s[i], armed, breakhits) /\ s[i].at = "wait"
    BY <1>3, <1>4 DEF StopOf, s
  <2> QED BY <2>1 DEF HookRun, Pending
<1> QED BY <1>2, <1>4, <1>5, <1>6, <1>7, <1>8, <1>9 DEF s, r
\* The innermost thread is u now, and what is said of one that may be stopped holds of it.
StopNext(q, first, u) ==
  /\ ShownRun(q, u, debug') /\ HookRun(q, u, armed', breakhits')
  /\ \A v \in VMs : breakhits'[v] = 1 => u.vm = v /\ Pending(u)
  /\ debugging' <=> u.at = "debug"
  /\ debug'.L = debug.L \/ debug'.L = Top(first).thread
  /\ singlestep' \subseteq {debug'.L} /\ (singlestep' # {} => ~(q.commands \subseteq {"continue"}))

LEMMA StopRetop ==
  ASSUME NEW q, q = Programs[program], NEW meta, ShapeInv(meta), NEW first \in OSThreads, NEW silent, StopInv(first, silent),
         UNCHANGED program, Alone(first), NEW u, Retop(q, first, u), StopNext(q, first, u)
  PROVE  StopInv(first, silent)'
<1> DEFINE s == runs[first]
           k == Len(s) - 1
<1>1. Len(s) \in Nat /\ Len(s) >= 1 /\ Busy(first)
  BY AloneFacts DEF Alone
<1>2. \A i \in 1..k : s[i].at = "wait" /\ HookRun(q, s[i], armed', breakhits')
  <2>1. \A i \in 1..(Len(s) - 1) : s[i].at = "wait"
    BY DEF Alone
  <2>2. \A i \in 1..(Len(s) - 1) : \A arm, hits : HookRun(q, s[i], arm, hits)
    BY AloneFacts, Zenon
  <2> QED BY <2>1, <2>2
<1>3. k \in Nat /\ k + 1 = Len(s)
  BY <1>1
<1>4. PICK z : z = runs'[first]
  OBVIOUS
<1>5. Len(z) = k + 1 /\ (\A i \in 1..k : z[i] = s[i]) /\ z[k + 1] = u /\ OnlyOf(first)
  BY <1>3, <1>4 DEF Retop
<1>6. \A i \in 1..k : z[i].at = "wait" /\ HookRun(q, z[i], armed', breakhits')
  BY <1>2, <1>5
<1> HIDE DEF s, k
<1> QED BY <1>1, <1>3, <1>4, <1>5, <1>6, StopTop DEF StopNext

\* The single steps of a program of the discipline, and what the debugger is bound to.
LEMMA SingleFacts ==
  ASSUME NEW q, q = Programs[program], NEW first \in OSThreads, NEW silent, StopInv(first, silent)
  PROVE  singlestep \subseteq {debug.L} /\ (singlestep # {} => ~(q.commands \subseteq {"continue"}))
<1> QED BY DEF StopInv, StopOf

\* A thread that the debugger begins to show: no call of C is in its stack.
LEMMA NotInC ==
  ASSUME NEW q, IsProgram(q), NEW meta, MetaCode(q, meta), NEW t, NEW ld, NEW r, RunOK(q, meta, r, t, ld),
         \/ r.error # None \/ ~(q.commands \subseteq {"continue"}) \/ BreakLine(q, Ins(q, Last(r.frames)).line)
  PROVE  ~InC(r)
<1> SUFFICES ASSUME r.error = None, NEW i \in DOMAIN r.frames, r.frames[i].meta PROVE FALSE
  BY DEF InC
<1>1. r.frames \in Seq(FrameType(q)) /\ FramesOK(q, meta, r.frames)
  BY DEF RunOK, RunType
<1>2. /\ Len(r.frames) \in Nat /\ Len(r.frames) >= 1 /\ Last(r.frames) = r.frames[Len(r.frames)] /\ i \in 1..Len(r.frames)
      /\ Last(r.frames).pc \in DOMAIN q.code[Last(r.frames).f]
      /\ Ins(q, Last(r.frames)) = q.code[Last(r.frames).f][Last(r.frames).pc]
  BY <1>1, InsFacts
<1>3. q.commands \subseteq {"continue"}
  BY <1>2 DEF FramesOK, RunOK
<1>4. Last(r.frames).f \in meta
  <2>1. \A k, l \in 1..Len(r.frames) : k <= l /\ r.frames[k].meta => r.frames[l].f \in meta
    BY <1>1 DEF FramesOK
  <2>2. Len(r.frames) \in 1..Len(r.frames) /\ i <= Len(r.frames)
    BY <1>2
  <2> QED BY <1>2, <2>1, <2>2
<1>5. ~BreakLine(q, Ins(q, Last(r.frames)).line)
  BY <1>2, <1>4 DEF MetaCode, Unbroken
<1> QED BY <1>3, <1>5

\* The stack of r begins to be shown.
LEMMA ShownStart ==
  ASSUME NEW q, NEW r, NEW u, Stays(r, u), u.at = "walk", u.level = 0, u.error = r.error, ~InC(r),
         NEW single, Rebinds(r, single)
  PROVE  ShownRun(q, u, debug')
<1>1. debug'.shown \in Seq([f : DOMAIN q.code, line : Int]) /\ Len(debug'.shown) = 0
  <2>1. \A T : << >> \in Seq(T) /\ Len(<< >>) = 0
    OBVIOUS
  <2> QED BY <2>1 DEF Rebinds
<1>2. Shows(q, debug'.shown, u.frames, 0)
  BY <1>1 DEF Shows
<1>3. ~InC(u)
  BY DEF InC, Stays
<1> QED BY <1>1, <1>2, <1>3 DEF ShownRun, Rebinds, Stays

\* The hooks before an instruction.
LEMMA StopHooks ==
  ASSUME NEW first \in OSThreads, NEW silent, NEW meta, Discipline(Programs[program], first, silent, meta),
         ShapeInv(meta), StopInv(first, silent), Alone(first),
         lua_debugstep(first) \/ lua_debugbreak(first) \/ NoBreakpoint(first)
  PROVE  StopInv(first, silent)'
<1> DEFINE q == Programs[program]
           r == Top(first)
           s == runs[first]
<1>1. /\ StacksOK(q, meta, runs, now, loaded) /\ IsProgram(q) /\ SilentCode(q, silent) /\ MetaCode(q, meta)
  BY ShapeFacts DEF Discipline
<1>2. /\ RunOK(q, meta, r, now, loaded) /\ HookRun(q, r, armed, breakhits)
      /\ debugging <=> r.at = "debug"
      /\ \A v \in VMs : breakhits[v] = 1 => r.vm = v /\ Pending(r)
      /\ Busy(first)
  BY AloneFacts DEF Alone
<1>3. r.vm \in VMs /\ r \in RunType(q)
  BY <1>2 DEF RunOK, RunType
<1>4. singlestep \subseteq {debug.L} /\ (singlestep # {} => ~(q.commands \subseteq {"continue"}))
  BY SingleFacts
<1>5. \A v \in VMs : armed[v] \subseteq breakpoints
  BY DEF ShapeInv
<1>6. \A l \in breakpoints : BreakLine(q, l)
  BY DEF ShapeInv
<1> HIDE DEF q, r
<1>7. CASE lua_debugstep(first)
  <2>1. UNCHANGED <<program, armed, breakhits, debugging>>
    BY <1>7 DEF lua_debugstep
  <2>2. r.at = "step" /\ r.error = None /\ (~StepDone(r) => ~debugging)
    BY <1>1, <1>2, <1>7, StepEffect, NotRefused DEF q, r
  <2>3. \/ UNCHANGED <<singlestep, debug>> /\ \E u : Retop(q, first, u) /\ Hooks(r, u, "break")
        \/ /\ ~StepDone(r) /\ Rebinds(r, singlestep \ {r.thread})
           /\ \E u : Retop(q, first, u) /\ WalkStarts(r, u, TRUE)
    BY <1>7, <2>2, StepEffect DEF q, r
  <2>4. CASE UNCHANGED <<singlestep, debug>> /\ \E u : Retop(q, first, u) /\ Hooks(r, u, "break")
    <3>1. PICK u : Retop(q, first, u) /\ Hooks(r, u, "break")
      BY <2>4
    <3>2. /\ u.at = "break" /\ u.error = None /\ u.vm = r.vm /\ u.frames = r.frames /\ u.hooked = r.hooked
          /\ u.stops = r.stops
      BY <2>2, <3>1 DEF Hooks, Halts, Stays, AsWas
    <3>3. HookRun(q, u, armed, breakhits) /\ (Pending(r) <=> Pending(u)) /\ ShownRun(q, u, debug)
      BY <1>2, <2>2, <3>2 DEF HookRun, Pending, ShownRun
    <3>4. StopNext(q, first, u)
      BY <1>2, <1>4, <2>1, <2>2, <2>4, <3>2, <3>3 DEF StopNext
    <3> QED BY <2>1, <3>1, <3>4, StopRetop DEF q
  <2>5. CASE /\ ~StepDone(r) /\ Rebinds(r, singlestep \ {r.thread})
             /\ \E u : Retop(q, first, u) /\ WalkStarts(r, u, TRUE)
    <3>1. PICK u : Retop(q, first, u) /\ WalkStarts(r, u, TRUE)
      BY <2>5
    <3>2. /\ u.at = "walk" /\ u.step = TRUE /\ u.error = None /\ u.vm = r.vm /\ u.frames = r.frames
          /\ u.hooked = r.hooked /\ u.stops = r.stops /\ u.level = 0 /\ Stays(r, u)
      BY <2>2, <3>1 DEF WalkStarts, Stays, AsWas
    <3>3. singlestep # {}
      BY <2>5 DEF StepDone
    <3>4. ~InC(r)
      BY <1>1, <1>2, <1>4, <3>3, NotInC
    <3>5. ShownRun(q, u, debug')
      BY <2>2, <2>5, <3>2, <3>4, ShownStart
    <3>6. HookRun(q, u, armed, breakhits) /\ (Pending(r) <=> Pending(u))
      BY <1>2, <2>2, <3>2 DEF HookRun, Pending
    <3>7. debug'.L = r.thread /\ singlestep' \subseteq {debug'.L} /\ (singlestep' # {} => singlestep # {})
      BY <1>4, <2>5 DEF Rebinds, StepDone
    <3>8. StopNext(q, first, u)
      BY <1>2, <1>4, <2>1, <2>2, <3>2, <3>5, <3>6, <3>7 DEF StopNext, r
    <3> QED BY <2>1, <3>1, <3>8, StopRetop DEF q
  <2> QED BY <2>3, <2>4, <2>5
<1>8. CASE NoBreakpoint(first)
  <2>1. UNCHANGED <<program, armed, breakhits, debugging, singlestep, debug>>
    BY <1>8 DEF NoBreakpoint
  <2>2. r.at = "break" /\ r.error = None /\ Ins(q, Last(r.frames)).line \notin armed[r.vm]
    BY <1>8, NoHitEffect DEF q, r
  <2>3. PICK u : Retop(q, first, u) /\ Hooks(r, u, "exec")
    BY <1>8, NoHitEffect DEF q, r
  <2>4. u.at = "exec" /\ u.error = None /\ u.hooked = r.hooked /\ u.stops = r.stops
    BY <2>2, <2>3 DEF Hooks, Halts, Stays, AsWas
  <2>5. ~Pending(r) /\ ~r.hooked /\ ~Pending(u)
    BY <1>2, <2>2, <2>4 DEF HookRun, Pending
  <2>6. HookRun(q, u, armed, breakhits) /\ ShownRun(q, u, debug)
    BY <1>2, <2>2, <2>4, <2>5 DEF HookRun, ShownRun
  <2>7. StopNext(q, first, u)
    BY <1>2, <1>4, <2>1, <2>2, <2>4, <2>5, <2>6 DEF StopNext
  <2> QED BY <2>1, <2>3, <2>7, StopRetop DEF q
<1>9. CASE lua_debugbreak(first)
  <2>1. UNCHANGED <<program, armed, debugging>>
    BY <1>9 DEF lua_debugbreak
  <2>2. /\ r.at = "break" /\ r.error = None /\ Ins(q, Last(r.frames)).line \in armed[r.vm]
        /\ breakhits' = [breakhits EXCEPT ![r.vm] = 1 - breakhits[r.vm]]
    BY <1>9, HitEffect DEF q, r
  <2>3. ~debugging
    BY <1>2, <2>2
  <2>4. \/ /\ breakhits[r.vm] = 1 /\ UNCHANGED <<singlestep, debug>>
           /\ \E u : Retop(q, first, u) /\ Meets(r, u, "exec")
        \/ /\ breakhits[r.vm] = 0 /\ Rebinds(r, singlestep)
           /\ \E u : Retop(q, first, u) /\ Meets(r, u, "walk")
    BY <1>9, <2>3, HitEffect DEF q, r
  <2>5. breakhits \in [VMs -> {0, 1}]
    BY DEF ShapeInv
  <2>6. CASE /\ breakhits[r.vm] = 1 /\ UNCHANGED <<singlestep, debug>>
             /\ \E u : Retop(q, first, u) /\ Meets(r, u, "exec")
    <3>1. PICK u : Retop(q, first, u) /\ Meets(r, u, "exec")
      BY <2>6
    <3>2. u.at = "exec" /\ u.error = None /\ u.hooked = TRUE /\ u.stops = r.stops
      BY <1>3, <3>1 DEF Meets
    <3>3. Pending(r)
      BY <1>2, <1>3, <2>6
    <3>4. r.stops = 1
      BY <1>2, <2>2, <3>3 DEF HookRun, Pending
    <3>5. HookRun(q, u, armed, breakhits') /\ ShownRun(q, u, debug)
      BY <3>2, <3>4 DEF HookRun, ShownRun, Pending
    <3>6. \A v \in VMs : breakhits'[v] # 1
      <4> SUFFICES ASSUME NEW v \in VMs PROVE breakhits'[v] # 1
        OBVIOUS
      <4>1. CASE v = r.vm
        BY <2>2, <2>5, <2>6, <4>1
      <4>2. CASE v # r.vm
        BY <1>2, <2>2, <2>5, <4>2
      <4> QED BY <4>1, <4>2
    <3>7. StopNext(q, first, u)
      BY <1>2, <1>4, <2>1, <2>2, <2>6, <3>2, <3>5, <3>6 DEF StopNext
    <3> QED BY <2>1, <3>1, <3>7, StopRetop DEF q
  <2>7. CASE /\ breakhits[r.vm] = 0 /\ Rebinds(r, singlestep)
             /\ \E u : Retop(q, first, u) /\ Meets(r, u, "walk")
    <3>1. PICK u : Retop(q, first, u) /\ Meets(r, u, "walk")
      BY <2>7
    <3>2. /\ u.at = "walk" /\ ~u.step /\ u.error = None /\ u.vm = r.vm /\ u.frames = r.frames
          /\ u.hooked /\ u.stops = r.stops /\ u.level = 0 /\ Stays(r, u)
      BY <3>1 DEF Meets, Stays
    <3>3. ~Pending(r)
      BY <1>2, <2>2, <2>7 DEF HookRun
    <3>4. ~r.hooked /\ r.stops = 0
      BY <1>2, <2>2, <3>3 DEF HookRun, Pending
    <3>5. ~InC(r)
      <4>1. BreakLine(q, Ins(q, Last(r.frames)).line)
        BY <1>3, <1>5, <1>6, <2>2
      <4> QED BY <1>1, <1>2, <4>1, NotInC
    <3>6. ShownRun(q, u, debug')
      BY <2>2, <2>7, <3>2, <3>5, ShownStart
    <3>7. breakhits'[r.vm] = 1 /\ \A v \in VMs : breakhits'[v] = 1 => v = r.vm
      <4>1. breakhits'[r.vm] = 1
        BY <1>3, <2>2, <2>5, <2>7
      <4>2. \A v \in VMs : v # r.vm => breakhits'[v] = breakhits[v]
        BY <2>2, <2>5
      <4> QED BY <1>2, <3>3, <4>1, <4>2
    <3>8. HookRun(q, u, armed, breakhits') /\ Pending(u)
      BY <2>2, <3>2, <3>4, <3>7 DEF HookRun, Pending
    <3>9. debug'.L = r.thread /\ singlestep' \subseteq {debug'.L} /\ (singlestep' # {} => singlestep # {})
      BY <1>4, <2>7 DEF Rebinds
    <3>10. StopNext(q, first, u)
      BY <1>2, <1>4, <2>1, <2>2, <2>3, <3>2, <3>6, <3>7, <3>8, <3>9 DEF StopNext, r
    <3> QED BY <2>1, <3>1, <3>10, StopRetop DEF q
  <2> QED BY <2>4, <2>6, <2>7
<1> QED BY <1>7, <1>8, <1>9

\* The innermost thread is gone, and what called it goes on, or ends.
StopLess(q, first) ==
  LET n == Len(runs[first])
      z == runs'[first] IN
  /\ Len(z) = n - 1
  /\ \A i \in 1..(n - 2) : z[i].at = "wait" /\ HookRun(q, z[i], armed', breakhits')
  /\ n >= 2 => z[n - 1].at \in {"step", "dead"} /\ HookRun(q, z[n - 1], armed', breakhits')
  /\ (\A v \in VMs : breakhits'[v] # 1) /\ ~debugging'
  /\ singlestep' \subseteq {debug.L} /\ (singlestep' # {} => ~(q.commands \subseteq {"continue"}))

LEMMA WokenHook ==
  ASSUME NEW q, NEW r, NEW d, NEW u, Wakes(r, d, u), NEW arm, NEW hits, HookRun(q, r, arm, hits)
  PROVE  u.at \in {"step", "dead"} /\ HookRun(q, u, arm, hits)
<1>1. CASE GoesOn(r, u)
  BY <1>1 DEF GoesOn, HookRun, Pending
<1>2. CASE Ends(r, u)
  BY <1>2 DEF Ends, Halts, HookRun, Pending
<1> QED BY <1>1, <1>2 DEF Wakes

LEMMA StopDrop ==
  ASSUME NEW q, q = Programs[program], NEW meta, ShapeInv(meta), NEW first \in OSThreads, NEW silent, StopInv(first, silent),
         UNCHANGED <<program, debug>>, Alone(first), OnlyOf(first), StopLess(q, first)
  PROVE  StopInv(first, silent)'
<1> DEFINE n == Len(runs[first])
<1>1. n \in Nat /\ n >= 1
  BY AloneFacts
<1>2. PICK z : z = runs'[first]
  OBVIOUS
<1>3. /\ Len(z) = n - 1
      /\ \A i \in 1..(n - 2) : z[i].at = "wait" /\ HookRun(q, z[i], armed', breakhits')
      /\ n >= 2 => z[n - 1].at \in {"step", "dead"} /\ HookRun(q, z[n - 1], armed', breakhits')
  BY <1>2 DEF StopLess
<1>4. /\ \A v \in VMs : breakhits'[v] # 1
      /\ ~debugging'
      /\ singlestep' \subseteq {debug.L} /\ (singlestep' # {} => ~(q.commands \subseteq {"continue"}))
  BY DEF StopLess
<1> HIDE DEF n
<1>5. n = 1 \/ n >= 2
  BY ONLY <1>1
<1>6. CASE n = 1
  <2>1. Len(runs'[first]) = 0
    BY ONLY <1>2, <1>3, <1>6
  <2> QED BY <1>4, <2>1, StopNone
<1>7. CASE n >= 2
  <2> DEFINE u == z[n - 1]
             k == n - 2
  <2>1. k \in Nat /\ k + 1 = n - 1
    BY ONLY <1>1, <1>7
  <2>2. u.at \in {"step", "dead"} /\ HookRun(q, u, armed', breakhits')
    BY ONLY <1>3, <1>7
  <2>3. ShownRun(q, u, debug')
    BY ONLY <2>2 DEF ShownRun
  <2>4. z[k + 1] = u /\ Len(z) = k + 1
    BY ONLY <1>3, <2>1
  <2>5. (debugging' <=> u.at = "debug") /\ \A v \in VMs : breakhits'[v] = 1 => u.vm = v /\ Pending(u)
    BY ONLY <1>4, <2>2
  <2>6. \A i \in 1..k : z[i].at = "wait" /\ HookRun(q, z[i], armed', breakhits')
    BY <1>3
  <2>7. debug'.L = debug.L /\ singlestep' \subseteq {debug'.L}
    BY <1>4
  <2> HIDE DEF u, k
  <2> QED BY <1>2, <1>4, <2>1, <2>2, <2>3, <2>4, <2>5, <2>6, <2>7, StopTop
<1> QED BY <1>5, <1>6, <1>7

\* An instruction, and an error.
LEMMA StopExec ==
  ASSUME NEW first \in OSThreads, NEW silent, NEW meta, Discipline(Programs[program], first, silent, meta),
         ShapeInv(meta), StopInv(first, silent), Alone(first), Exec(first)
  PROVE  StopInv(first, silent)'
<1> DEFINE q == Programs[program]
           r == Top(first)
           s == runs[first]
           n == Len(s)
<1>1. /\ StacksOK(q, meta, runs, now, loaded) /\ IsProgram(q) /\ MetaCode(q, meta)
  BY ShapeFacts DEF Discipline
<1>2. /\ RunOK(q, meta, r, now, loaded) /\ HookRun(q, r, armed, breakhits)
      /\ debugging <=> r.at = "debug"
      /\ \A v \in VMs : breakhits[v] = 1 => r.vm = v /\ Pending(r)
      /\ Busy(first) /\ n \in Nat /\ n >= 1
  BY AloneFacts DEF Alone
<1>3. \A i \in 1..(n - 1) : s[i].at = "wait" /\ HookRun(q, s[i], armed', breakhits')
  <2>1. \A i \in 1..(n - 1) : s[i].at = "wait"
    BY DEF Alone
  <2>2. \A i \in 1..(n - 1) : \A arm, hits : HookRun(q, s[i], arm, hits)
    BY AloneFacts, Zenon
  <2> QED BY <2>1, <2>2
<1>4. singlestep \subseteq {debug.L} /\ (singlestep # {} => ~(q.commands \subseteq {"continue"}))
  BY SingleFacts
<1>5. UNCHANGED <<program, breakhits, singlestep, debug, debugging>>
  BY DEF Exec
<1>6. r.at = "exec" /\ r.error = None /\ Executed(q, meta, first, r)
  BY <1>1, ExecEffect
<1>7. ~debugging /\ \A v \in VMs : breakhits[v] # 1
  BY <1>2, <1>6 DEF Pending
<1> HIDE DEF q, r, s, n
<1>8. ASSUME NEW u, Retop(q, first, u), u.at \in {"step", "dead"}, HookRun(q, u, armed', breakhits')
      PROVE  StopInv(first, silent)'
  <2>1. ShownRun(q, u, debug')
    BY <1>8 DEF ShownRun
  <2>2. StopNext(q, first, u)
    BY <1>4, <1>5, <1>7, <1>8, <2>1 DEF StopNext
  <2> QED BY <1>5, <1>8, <2>2, StopRetop DEF q
<1>9. CASE \E u : Retop(q, first, u) /\ Goes(q, r, u)
  <2>1. PICK u : Retop(q, first, u) /\ Goes(q, r, u)
    BY <1>9
  <2>2. HookRun(q, u, armed', breakhits') /\ u.at = "step"
    BY <2>1 DEF Goes, GoesOn, HookRun, Pending
  <2> QED BY <1>8, <2>1, <2>2
<1>10. CASE \E u, m : Push(q, first, u, m) /\ Waits(r, u) /\ Makes(q, r, m)
  <2>1. PICK u, m : Push(q, first, u, m) /\ Waits(r, u) /\ Makes(q, r, m)
    BY <1>10
  <2>2. u.at = "wait" /\ HookRun(q, u, armed', breakhits')
    BY <1>2, <1>6, <2>1 DEF Waits, Halts, HookRun, Pending
  <2>3. m.at = "step" /\ ~m.hooked /\ m.stops = 0 /\ m.error = None
    BY <2>1 DEF Makes, Begins
  <2>4. ShownRun(q, m, debug') /\ HookRun(q, m, armed', breakhits') /\ (debugging' <=> m.at = "debug")
    BY <1>5, <1>7, <2>3 DEF ShownRun, HookRun, Pending
  <2>5. PICK z : z = runs'[first]
    OBVIOUS
  <2>6. /\ OnlyOf(first) /\ Len(z) = n + 1
        /\ \A i \in 1..(n - 1) : z[i] = s[i]
        /\ z[n] = u /\ z[n + 1] = m
    BY <2>1, <2>5 DEF Push, s, n
  <2>7. \A i \in 1..n : i \in 1..(n - 1) \/ i = n
    BY <1>2
  <2>8. \A i \in 1..n : z[i].at = "wait" /\ HookRun(q, z[i], armed', breakhits')
    BY <1>3, <2>2, <2>6, <2>7
  <2>9. /\ \A v \in VMs : breakhits'[v] = 1 => m.vm = v /\ Pending(m)
        /\ debug'.L = debug.L /\ singlestep' \subseteq {debug'.L} /\ (singlestep' # {} => ~(q.commands \subseteq {"continue"}))
    BY <1>4, <1>5, <1>7
  <2> QED BY <1>2, <1>5, <2>4, <2>5, <2>6, <2>8, <2>9, StopTop DEF q
<1>11. CASE Drop(q, first)
  <2>1. PICK z : z = runs'[first]
    OBVIOUS
  <2>2. /\ OnlyOf(first) /\ Len(z) = n - 1
        /\ \A i \in 1..(n - 2) : z[i] = s[i]
        /\ n >= 2 => z[n - 1] = Woken(s[n - 1], s[n])
    BY <1>11, <2>1 DEF Drop, DropOf, s, n
  <2>3. n >= 2 => z[n - 1].at \in {"step", "dead"} /\ HookRun(q, z[n - 1], armed', breakhits')
    <3> SUFFICES ASSUME n >= 2 PROVE z[n - 1].at \in {"step", "dead"} /\ HookRun(q, z[n - 1], armed', breakhits')
      OBVIOUS
    <3>1. n - 1 \in 1..n /\ n - 1 \in 1..(n - 1)
      BY <1>2
    <3>2. RunOK(q, meta, s[n - 1], now, loaded) /\ s[n - 1].at = "wait" /\ s[n] \in RunType(q)
      BY <1>1, <1>2, <1>3, <3>1 DEF StacksOK, StackOK, s, n
    <3>3. Wakes(s[n - 1], s[n], z[n - 1])
      BY <1>1, <2>2, <3>2, WokenFacts
    <3> QED BY <1>3, <3>1, <3>3, WokenHook
  <2>4. \A i \in 1..(n - 2) : z[i].at = "wait" /\ HookRun(q, z[i], armed', breakhits')
    <3>1. \A i \in 1..(n - 2) : i \in 1..(n - 1)
      BY <1>2
    <3> QED BY <1>3, <2>2, <3>1
  <2>5. /\ (\A v \in VMs : breakhits'[v] # 1) /\ ~debugging' /\ UNCHANGED <<program, debug>>
        /\ singlestep' \subseteq {debug.L} /\ (singlestep' # {} => ~(q.commands \subseteq {"continue"}))
    BY <1>4, <1>5, <1>7
  <2>6. StopLess(q, first)
    BY <2>1, <2>2, <2>3, <2>4, <2>5 DEF StopLess, s, n
  <2> QED BY <2>2, <2>5, <2>6, StopDrop DEF q
<1>12. CASE \E u : Retop(q, first, u) /\ Ends(r, u)
  <2>1. PICK u : Retop(q, first, u) /\ Ends(r, u)
    BY <1>12
  <2>2. HookRun(q, u, armed', breakhits') /\ u.at = "dead"
    BY <1>2, <1>6, <2>1 DEF Ends, Halts, HookRun, Pending
  <2> QED BY <1>8, <2>1, <2>2
<1> QED BY <1>6, <1>9, <1>10, <1>11, <1>12 DEF Executed, Done

LEMMA StopError ==
  ASSUME NEW first \in OSThreads, NEW silent, NEW meta, Discipline(Programs[program], first, silent, meta),
         ShapeInv(meta), StopInv(first, silent), Alone(first), HandleError(first)
  PROVE  StopInv(first, silent)'
<1> DEFINE q == Programs[program]
           r == Top(first)
           s == runs[first]
           n == Len(s)
<1>1. /\ StacksOK(q, meta, runs, now, loaded) /\ IsProgram(q) /\ MetaCode(q, meta)
  BY ShapeFacts DEF Discipline
<1>2. /\ RunOK(q, meta, r, now, loaded) /\ HookRun(q, r, armed, breakhits)
      /\ debugging <=> r.at = "debug"
      /\ \A v \in VMs : breakhits[v] = 1 => r.vm = v /\ Pending(r)
      /\ Busy(first) /\ n \in Nat /\ n >= 1
  BY AloneFacts DEF Alone
<1>3. \A i \in 1..(n - 1) : s[i].at = "wait" /\ HookRun(q, s[i], armed', breakhits')
  <2>1. \A i \in 1..(n - 1) : s[i].at = "wait"
    BY DEF Alone
  <2>2. \A i \in 1..(n - 1) : \A arm, hits : HookRun(q, s[i], arm, hits)
    BY AloneFacts, Zenon
  <2> QED BY <2>1, <2>2
<1>4. singlestep \subseteq {debug.L} /\ (singlestep # {} => ~(q.commands \subseteq {"continue"}))
  BY SingleFacts
<1>5. UNCHANGED <<program, breakhits, debugging, armed>>
  BY DEF HandleError
<1>6. r.at = "dead" /\ r.error # None
  BY ErrorEffect
<1>7. ~debugging /\ \A v \in VMs : breakhits[v] # 1
  BY <1>2, <1>6 DEF Pending
<1>8. \/ Drop(q, first) /\ UNCHANGED <<singlestep, debug>>
      \/ Rebinds(r, singlestep) /\ \E u : Retop(q, first, u) /\ WalkStarts(r, u, FALSE)
  BY <1>7, ErrorEffect
<1> HIDE DEF q, r, s, n
<1>9. CASE Drop(q, first) /\ UNCHANGED <<singlestep, debug>>
  <2>1. PICK z : z = runs'[first]
    OBVIOUS
  <2>2. /\ OnlyOf(first) /\ Len(z) = n - 1
        /\ \A i \in 1..(n - 2) : z[i] = s[i]
        /\ n >= 2 => z[n - 1] = Woken(s[n - 1], s[n])
    BY <1>9, <2>1 DEF Drop, DropOf, s, n
  <2>3. n >= 2 => z[n - 1].at \in {"step", "dead"} /\ HookRun(q, z[n - 1], armed', breakhits')
    <3> SUFFICES ASSUME n >= 2 PROVE z[n - 1].at \in {"step", "dead"} /\ HookRun(q, z[n - 1], armed', breakhits')
      OBVIOUS
    <3>1. n - 1 \in 1..n /\ n - 1 \in 1..(n - 1)
      BY <1>2
    <3>2. RunOK(q, meta, s[n - 1], now, loaded) /\ s[n - 1].at = "wait" /\ s[n] \in RunType(q)
      BY <1>1, <1>2, <1>3, <3>1 DEF StacksOK, StackOK, s, n
    <3>3. Wakes(s[n - 1], s[n], z[n - 1])
      BY <1>1, <2>2, <3>2, WokenFacts
    <3> QED BY <1>3, <3>1, <3>3, WokenHook
  <2>4. \A i \in 1..(n - 2) : z[i].at = "wait" /\ HookRun(q, z[i], armed', breakhits')
    <3>1. \A i \in 1..(n - 2) : i \in 1..(n - 1)
      BY <1>2
    <3> QED BY <1>3, <2>2, <3>1
  <2>5. /\ (\A v \in VMs : breakhits'[v] # 1) /\ ~debugging' /\ UNCHANGED <<program, debug>>
        /\ singlestep' \subseteq {debug.L} /\ (singlestep' # {} => ~(q.commands \subseteq {"continue"}))
    BY <1>4, <1>5, <1>7, <1>9
  <2>6. StopLess(q, first)
    BY <2>1, <2>2, <2>3, <2>4, <2>5 DEF StopLess, s, n
  <2> QED BY <2>2, <2>5, <2>6, StopDrop DEF q
<1>10. CASE Rebinds(r, singlestep) /\ \E u : Retop(q, first, u) /\ WalkStarts(r, u, FALSE)
  <2>1. PICK u : Retop(q, first, u) /\ WalkStarts(r, u, FALSE)
    BY <1>10
  <2>2. /\ u.at = "walk" /\ u.error = r.error /\ u.hooked = r.hooked /\ u.stops = r.stops /\ u.level = 0 /\ Stays(r, u)
    BY <2>1 DEF WalkStarts, AsWas
  <2>3. ~InC(r)
    BY <1>6 DEF InC
  <2>4. ShownRun(q, u, debug')
    BY <1>10, <2>2, <2>3, ShownStart
  <2>5. HookRun(q, u, armed, breakhits)
    BY <1>2, <1>6, <2>2 DEF HookRun, Pending
  <2>6. debug'.L = r.thread /\ singlestep' \subseteq {debug'.L} /\ (singlestep' # {} => singlestep # {})
    BY <1>4, <1>10 DEF Rebinds
  <2>7. StopNext(q, first, u)
    BY <1>4, <1>5, <1>7, <2>2, <2>4, <2>5, <2>6 DEF StopNext, r
  <2> QED BY <1>5, <2>1, <2>7, StopRetop DEF q
<1> QED BY <1>8, <1>9, <1>10
\* A walk that has shown no more than before.
LEMMA WalksSame ==
  ASSUME NEW q, NEW r, NEW u, WalksOn(r, u), r.at = "walk", u.level = r.level, u.found = r.found,
         NEW d, NEW arm, NEW hits, NEW a
  PROVE  /\ ShownRun(q, r, d) => ShownRun(q, u, d)
         /\ HookRun(q, r, arm, hits) => HookRun(q, u, arm, hits)
         /\ Pending(r) => Pending(u)
         /\ EndingRun(q, r, d, a) => EndingRun(q, u, d, a)
<1>1. /\ u.thread = r.thread /\ u.vm = r.vm /\ u.frames = r.frames /\ u.at = "walk" /\ u.error = r.error
      /\ u.step = r.step /\ u.hooked = r.hooked /\ u.stops = r.stops
  BY DEF WalksOn, Stays
<1>2. InC(u) <=> InC(r)
  BY <1>1 DEF InC
<1>3. ShownRun(q, r, d) => ShownRun(q, u, d)
  BY <1>1, <1>2 DEF ShownRun
<1>4. HookRun(q, r, arm, hits) => HookRun(q, u, arm, hits)
  BY <1>1 DEF HookRun, Pending
<1>5. EndingRun(q, r, d, a) => EndingRun(q, u, d, a)
  BY <1>1 DEF EndingRun
<1> QED BY <1>1, <1>3, <1>4, <1>5 DEF Pending

\* The getter of a property runs above the thread that is shown, and is never stopped.
LEMMA GetterSilent ==
  ASSUME NEW q, IsProgram(q), NEW silent, q.getter \in silent["resume"], NEW d, NEW m, Begins(m, q.getter),
         m.kind = "resume", m.thread # d.L
  PROVE  Silent(silent, m, d)
<1>1. \A i \in 1..Len(m.frames) : m.frames[i].f \in silent[m.kind]
  BY DEF Begins
<1> QED BY <1>1 DEF Silent, Begins

\* Another level of the stack is shown.
LEMMA ShownOn ==
  ASSUME NEW q, IsProgram(q), NEW meta, NEW t, NEW ld, NEW r, RunOK(q, meta, r, t, ld), r.at = "walk", r.level < Len(r.frames),
         ShownRun(q, r, debug), ShowsFrame(q, r, r.frames[Len(r.frames) - r.level]),
         NEW u, WalksOn(r, u), u.level = r.level + 1
  PROVE  ShownRun(q, u, debug')
<1> DEFINE F == r.frames
           n == Len(r.frames)
           l == r.level
           fr == F[n - l]
           T == [f : DOMAIN q.code, line : Int]
           x == [f |-> fr.f, line |-> Ins(q, fr).line]
<1>1. /\ u.thread = r.thread /\ u.vm = r.vm /\ u.frames = r.frames /\ u.at = "walk" /\ u.error = r.error
  BY DEF WalksOn, Stays
<1>2. F \in Seq(FrameType(q)) /\ FramesOK(q, meta, F) /\ l \in Nat
  BY DEF RunOK, RunType
<1>3. n \in Nat /\ n - l \in 1..n
  <2>1. n \in Nat
    BY <1>2, FrameFacts
  <2> QED BY <1>2, <2>1
<1>4. x \in T
  <2>1. fr.f \in DOMAIN q.code /\ fr.pc \in 1..Len(q.code[fr.f])
    BY <1>2, <1>3, FrameFacts
  <2>2. q.code[fr.f][fr.pc].line \in Int
    BY <2>1, CodeFacts
  <2> QED BY <2>1, <2>2 DEF Ins
<1>5. debug.shown \in Seq(T) /\ Len(debug.shown) = l
      /\ \A k \in 1..l : debug.shown[k] = [f |-> F[n - k + 1].f, line |-> Ins(q, F[n - k + 1]).line]
  BY DEF ShownRun, Shows
<1>6. debug'.shown = Append(debug.shown, x)
  BY DEF ShowsFrame
<1> HIDE DEF T, x
<1>7. debug'.shown \in Seq(T) /\ Len(debug'.shown) = l + 1
      /\ (\A k \in 1..l : debug'.shown[k] = debug.shown[k]) /\ debug'.shown[l + 1] = x
  <2>1. /\ Append(debug.shown, x) \in Seq(T) /\ Len(Append(debug.shown, x)) = Len(debug.shown) + 1
        /\ \A k \in 1..Len(debug.shown) : Append(debug.shown, x)[k] = debug.shown[k]
        /\ Append(debug.shown, x)[Len(debug.shown) + 1] = x
    BY <1>4, <1>5, AppendProperties
  <2> QED BY <1>5, <1>6, <2>1
<1>8. Shows(q, debug'.shown, u.frames, u.level)
  <2> SUFFICES ASSUME NEW k \in 1..(l + 1)
               PROVE debug'.shown[k] = [f |-> F[n - k + 1].f, line |-> Ins(q, F[n - k + 1]).line]
    BY <1>1, <1>7 DEF Shows
  <2>1. CASE k \in 1..l
    BY <1>5, <1>7, <2>1
  <2>2. CASE k = l + 1
    <3>1. n - k + 1 = n - l
      BY <1>2, <1>3, <2>2
    <3> QED BY <1>7, <2>2, <3>1 DEF x
  <2> QED BY <1>2, <2>1, <2>2
<1>9. ~InC(u)
  BY <1>1 DEF InC, ShownRun
<1>10. debug'.L = r.thread /\ debug'.error = (IF r.error = None THEN "Breakpoint" ELSE r.error)
  BY DEF ShownRun, ShowsFrame
<1> QED BY <1>1, <1>7, <1>8, <1>9, <1>10 DEF ShownRun, T

\* One level of the walk.
LEMMA StopWalk ==
  ASSUME NEW first \in OSThreads, NEW silent, NEW meta, Discipline(Programs[program], first, silent, meta),
         ShapeInv(meta), StopInv(first, silent), Alone(first), WalkLevel(first)
  PROVE  StopInv(first, silent)'
<1> DEFINE q == Programs[program]
           r == Top(first)
           s == runs[first]
           n == Len(s)
           z == runs'[first]
<1>1. /\ StacksOK(q, meta, runs, now, loaded) /\ IsProgram(q)
      /\ (q.getter # None => q.getter \in silent["resume"])
  BY ShapeFacts DEF Discipline
<1>2. /\ RunOK(q, meta, r, now, loaded) /\ HookRun(q, r, armed, breakhits) /\ ShownRun(q, r, debug)
      /\ debugging <=> r.at = "debug"
      /\ \A v \in VMs : breakhits[v] = 1 => r.vm = v /\ Pending(r)
      /\ Busy(first) /\ n \in Nat /\ n >= 1
  BY AloneFacts DEF Alone
<1>3. singlestep \subseteq {debug.L} /\ (singlestep # {} => ~(q.commands \subseteq {"continue"}))
  BY SingleFacts
<1>4. UNCHANGED <<program, breakhits, singlestep, armed, debugging>>
  BY DEF WalkLevel
<1>5. /\ r.at = "walk" /\ r.level < Len(r.frames)
      /\ \/ \E u, m : /\ Push(q, first, u, m) /\ WalksOn(r, u) /\ u.level = r.level /\ u.found = r.found
                      /\ Begins(m, q.getter) /\ m.kind = "resume" /\ m.thread # debug.L
                      /\ q.getter # None /\ UNCHANGED debug
         \/ \E u : /\ Retop(q, first, u) /\ WalksOn(r, u) /\ u.level = r.level + 1
                   /\ ShowsFrame(q, r, r.frames[Len(r.frames) - r.level])
  <2> HIDE DEF q
  <2>1. q = Programs[program]
    BY DEF q
  <2> QED BY <2>1, WalkLevelEffect
<1>6. ~debugging
  BY <1>2, <1>5
<1>7. CASE \E u : /\ Retop(q, first, u) /\ WalksOn(r, u) /\ u.level = r.level + 1
                  /\ ShowsFrame(q, r, r.frames[Len(r.frames) - r.level])
  <2> HIDE DEF q, r, s
  <2>1. PICK u : /\ Retop(q, first, u) /\ WalksOn(r, u) /\ u.level = r.level + 1
                 /\ ShowsFrame(q, r, r.frames[Len(r.frames) - r.level])
    BY <1>7
  <2>2. ShownRun(q, u, debug')
    BY <1>1, <1>2, <1>5, <2>1, ShownOn
  <2>3. /\ u.at = "walk" /\ u.step = r.step /\ u.error = r.error /\ u.frames = r.frames /\ u.vm = r.vm
        /\ u.hooked = r.hooked /\ u.stops = r.stops
    BY <2>1 DEF WalksOn, Stays
  <2>4. HookRun(q, u, armed', breakhits') /\ (Pending(r) => Pending(u))
    BY <1>2, <1>4, <1>5, <2>3 DEF HookRun, Pending
  <2>5. debug'.L = debug.L
    BY <2>1 DEF ShowsFrame
  <2>6. StopNext(q, first, u)
    BY <1>2, <1>3, <1>4, <1>6, <2>2, <2>3, <2>4, <2>5 DEF StopNext
  <2> QED BY <1>4, <2>1, <2>6, StopRetop DEF q
<1>8. CASE \E u, m : /\ Push(q, first, u, m) /\ WalksOn(r, u) /\ u.level = r.level /\ u.found = r.found
                     /\ Begins(m, q.getter) /\ m.kind = "resume" /\ m.thread # debug.L
                     /\ q.getter # None /\ UNCHANGED debug
  <2> HIDE DEF q, r
  <2>1. PICK u, m : /\ Push(q, first, u, m) /\ WalksOn(r, u) /\ u.level = r.level /\ u.found = r.found
                    /\ Begins(m, q.getter) /\ m.kind = "resume" /\ m.thread # debug.L
                    /\ q.getter # None /\ UNCHANGED debug
    BY <1>8
  <2>2. Silent(silent, m, debug)
    BY <1>1, <2>1, GetterSilent
  <2>3. /\ OnlyOf(first) /\ Len(z) = n + 1 /\ (\A i \in 1..(n - 1) : z[i] = s[i]) /\ z[n] = u /\ z[n + 1] = m
    BY <2>1 DEF Push
  <2>4. \A i \in 1..(n + 1) : i \in 1..(n - 1) \/ i = n \/ i = n + 1
    BY <1>2
  <2>5. \A i \in 1..(n - 1) : s[i].at = "wait" /\ \A arm, hits : HookRun(q, s[i], arm, hits)
    <3>1. \A i \in 1..(n - 1) : s[i].at = "wait"
      BY DEF Alone
    <3>2. \A i \in 1..(n - 1) : \A arm, hits : HookRun(q, s[i], arm, hits)
      BY AloneFacts, Zenon DEF q
    <3> QED BY <3>1, <3>2
  <2>6. ShownRun(q, u, debug) /\ HookRun(q, u, armed, breakhits) /\ (Pending(r) => Pending(u)) /\ u.at = "walk" /\ u.vm = r.vm
    <3>1. ShownRun(q, u, debug) /\ HookRun(q, u, armed, breakhits) /\ (Pending(r) => Pending(u))
      BY <1>2, <1>5, <2>1, WalksSame
    <3> QED BY <2>1, <3>1 DEF WalksOn, Stays
  <2>7. ShownRun(q, m, debug) /\ HookRun(q, m, armed, breakhits) /\ m.at # "debug"
    <3>1. ShownRun(q, m, debug) /\ HookRun(q, m, armed, breakhits) /\ m.at \notin {"walk", "debug"}
      BY <2>2, SilentRun
    <3> QED BY <3>1
  <2> HIDE DEF s, z, n
  <2>8. \A i \in 1..(n + 1) : ShownRun(q, z[i], debug) /\ HookRun(q, z[i], armed, breakhits)
    <3>1. \A i \in 1..(n - 1) : ShownRun(q, z[i], debug) /\ HookRun(q, z[i], armed, breakhits)
      BY <2>3, <2>5 DEF ShownRun
    <3> QED BY <2>3, <2>4, <2>6, <2>7, <3>1
  <2>9. \A i, j \in 1..(n + 1) : i < j /\ z[i].at = "walk" => Silent(silent, z[j], debug)
    <3> SUFFICES ASSUME NEW i \in 1..(n + 1), NEW j \in 1..(n + 1), i < j, z[i].at = "walk" PROVE Silent(silent, z[j], debug)
      OBVIOUS
    <3>1. i \notin 1..(n - 1)
      BY <2>3, <2>5
    <3>2. j = n + 1
      BY <1>2, <2>4, <3>1
    <3> QED BY <2>2, <2>3, <3>2
  <2>10. HookInv(z, breakhits)
    <3> SUFFICES ASSUME NEW v \in VMs, breakhits[v] = 1 PROVE \E i \in 1..Len(z) : z[i].vm = v /\ Pending(z[i])
      BY DEF HookInv
    <3>1. n \in 1..Len(z)
      BY <1>2, <2>3
    <3> QED BY <1>2, <2>3, <2>6, <3>1
  <2>11. ~\E i \in 1..Len(z) : i = Len(z) /\ z[i].at = "debug"
    BY <2>3, <2>7
  <2>12. \A p \in OSThreads \ {first} : \A i \in 1..Len(runs'[p]) : Silent(silent, runs'[p][i], debug)
    BY <2>3 DEF OnlyOf, StopInv, StopOf
  <2>13. StopOf(q, first, silent, runs', debug, armed, breakhits, debugging, singlestep)
    BY <1>3, <1>6, <2>3, <2>8, <2>9, <2>10, <2>11, <2>12 DEF StopOf, z
  <2>14. StopOf(q, first, silent, runs', debug', armed', breakhits', debugging', singlestep')
    BY <1>4, <2>1, <2>13
  <2> QED BY <1>4, <2>14 DEF StopInv, q
<1> QED BY <1>5, <1>7, <1>8
\* The walk is over.
LEMMA StopEnds ==
  ASSUME NEW first \in OSThreads, NEW silent, NEW meta, Discipline(Programs[program], first, silent, meta),
         ShapeInv(meta), StopInv(first, silent), Alone(first), WalkEnds(first)
  PROVE  StopInv(first, silent)'
<1> DEFINE q == Programs[program]
           r == Top(first)
<1>1. /\ RunOK(q, meta, r, now, loaded) /\ HookRun(q, r, armed, breakhits) /\ ShownRun(q, r, debug)
      /\ debugging <=> r.at = "debug"
      /\ \A v \in VMs : breakhits[v] = 1 => r.vm = v /\ Pending(r)
  BY AloneFacts
<1>2. singlestep \subseteq {debug.L} /\ (singlestep # {} => ~(q.commands \subseteq {"continue"}))
  BY SingleFacts
<1>3. UNCHANGED <<program, breakhits, singlestep, armed>> /\ At(first, "walk")
  BY DEF WalkEnds
<1>4. r.at = "walk" /\ ~InC(r)
  BY <1>1, <1>3 DEF At, ShownRun
<1>5. /\ r.level = Len(r.frames)
      /\ debug' = [debug EXCEPT !.depth = Len(r.frames)]
      /\ debugging' = (debugging \/ ~left_base(r))
      /\ \E u : /\ Retop(q, first, u) /\ Stays(r, u)
                /\ u.error = r.error /\ u.hooked = r.hooked
                /\ left_base(r) => u.at = "break" /\ ~u.step /\ u.stops = r.stops
                /\ ~left_base(r) => /\ u.at = "debug" /\ u.step = r.step
                                    /\ u.stops = IF r.step \/ r.error # None THEN r.stops ELSE r.stops + 1
  <2> HIDE DEF q
  <2>1. q = Programs[program]
    BY DEF q
  <2> QED BY <1>4, <2>1, WalkEndsEffect
<1>6. /\ debug'.L = debug.L /\ debug'.error = debug.error /\ debug'.shown = debug.shown
      /\ debug'.depth = Len(r.frames)
  <2>1. DOMAIN debug = {"L", "error", "shown", "depth", "base"}
    BY DEF ShapeInv
  <2> QED BY <1>5, <2>1
<1>7. ~debugging
  BY <1>1, <1>4
<1> HIDE DEF q, r
<1>8. PICK u : /\ Retop(q, first, u) /\ Stays(r, u)
               /\ u.error = r.error /\ u.hooked = r.hooked
               /\ left_base(r) => u.at = "break" /\ ~u.step /\ u.stops = r.stops
               /\ ~left_base(r) => /\ u.at = "debug" /\ u.step = r.step
                                   /\ u.stops = IF r.step \/ r.error # None THEN r.stops ELSE r.stops + 1
  BY <1>5
<1>9. u.vm = r.vm /\ u.frames = r.frames /\ u.thread = r.thread
  BY <1>8 DEF Stays
<1>10. CASE left_base(r)
  <2>1. r.step /\ r.error = None
    BY <1>1, <1>4, <1>10 DEF left_base, RunOK
  <2>2. u.at = "break" /\ u.stops = r.stops /\ u.error = None /\ u.hooked = r.hooked
    BY <1>8, <1>10, <2>1
  <2>3. HookRun(q, u, armed', breakhits') /\ (Pending(r) => Pending(u))
    BY <1>1, <1>3, <1>4, <1>9, <2>1, <2>2 DEF HookRun, Pending
  <2>4. ShownRun(q, u, debug')
    BY <2>2 DEF ShownRun
  <2>5. ~debugging'
    BY <1>5, <1>7, <1>10
  <2>6. StopNext(q, first, u)
    BY <1>1, <1>2, <1>3, <1>6, <1>9, <2>2, <2>3, <2>4, <2>5 DEF StopNext
  <2> QED BY <1>3, <1>8, <2>6, StopRetop DEF q
<1>11. CASE ~left_base(r)
  <2>1. /\ u.at = "debug" /\ u.step = r.step /\ u.hooked = r.hooked /\ u.error = r.error
        /\ u.stops = IF r.step \/ r.error # None THEN r.stops ELSE r.stops + 1
    BY <1>8, <1>11
  <2>2. HookRun(q, u, armed', breakhits') /\ (Pending(r) => Pending(u))
    <3>1. CASE r.step \/ r.error # None
      BY <1>1, <1>3, <1>4, <1>9, <2>1, <3>1 DEF HookRun, Pending
    <3>2. CASE ~r.step /\ r.error = None
      <4>1. r.hooked /\ r.stops = 0
        BY <1>1, <1>4, <3>2 DEF HookRun
      <4>2. u.stops = 1
        BY <2>1, <3>2, <4>1
      <4> QED BY <1>1, <1>3, <1>4, <1>9, <2>1, <3>2, <4>1, <4>2 DEF HookRun, Pending
    <3> QED BY <3>1, <3>2
  <2>3. ShownRun(q, u, debug')
    <3>1. ~InC(u)
      BY <1>4, <1>9, <2>1 DEF InC
    <3>2. Shows(q, debug.shown, r.frames, Len(r.frames))
      BY <1>1, <1>4, <1>5 DEF ShownRun
    <3> QED BY <1>1, <1>4, <1>6, <1>9, <2>1, <3>1, <3>2 DEF ShownRun
  <2>4. debugging'
    BY <1>5, <1>11
  <2>5. StopNext(q, first, u)
    BY <1>1, <1>2, <1>3, <1>6, <1>9, <2>1, <2>2, <2>3, <2>4 DEF StopNext
  <2> QED BY <1>3, <1>8, <2>5, StopRetop DEF q
<1> QED BY <1>10, <1>11

\* The user has looked at the thread.
LEMMA StopLooked ==
  ASSUME NEW first \in OSThreads, NEW silent, NEW meta, Discipline(Programs[program], first, silent, meta),
         ShapeInv(meta), StopInv(first, silent), Alone(first), DebugEnds(first)
  PROVE  StopInv(first, silent)'
<1> DEFINE q == Programs[program]
           r == Top(first)
           s == runs[first]
           n == Len(s)
<1>1. /\ HookRun(q, r, armed, breakhits) /\ ShownRun(q, r, debug) /\ r = s[n]
      /\ \A v \in VMs : breakhits[v] = 1 => r.vm = v /\ Pending(r)
      /\ n \in Nat /\ n >= 1
      /\ \A i \in 1..(n - 1) : i \in 1..n /\ s[i].at = "wait"
  BY AloneFacts
<1>2. \A i \in 1..(n - 1) : \A arm, hits : HookRun(q, s[i], arm, hits)
  BY AloneFacts, Zenon
<1>3. r.at = "debug" /\ OnlyOf(first) /\ (Resumes(q, meta, first) \/ Unwinds(q, meta, first))
  <2> HIDE DEF q
  <2>1. q = Programs[program]
    BY DEF q
  <2> QED BY <2>1, DebugEndsEffect
<1>4. UNCHANGED <<program, breakhits, armed, debug>> /\ ~debugging'
  BY DEF DebugEnds
<1>5. singlestep' \subseteq {debug.L} /\ (singlestep' # {} => ~(q.commands \subseteq {"continue"}))
  <2>1. singlestep \subseteq {debug.L} /\ (singlestep # {} => ~(q.commands \subseteq {"continue"}))
    BY SingleFacts
  <2>2. PICK c \in q.commands : singlestep' = IF c = "continue" THEN singlestep ELSE singlestep \cup {r.thread}
    BY DEF DebugEnds
  <2>3. r.thread = debug.L
    BY <1>1, <1>3 DEF ShownRun
  <2> QED BY <2>1, <2>2, <2>3
<1>6. PICK z : z = runs'[first]
  OBVIOUS
<1> HIDE DEF q, r, s, n
<1>7. ASSUME NEW i \in 1..(n - 1), Alike(s[i], z[i]) PROVE z[i].at = "wait" /\ HookRun(q, z[i], armed', breakhits')
  <2>1. z[i].at = "wait" /\ z[i].hooked = s[i].hooked /\ z[i].stops = s[i].stops /\ z[i].error = s[i].error
    BY <1>1, <1>7 DEF Alike, Halts, AsWas
  <2>2. HookRun(q, s[i], armed, breakhits)
    BY <1>2
  <2> QED BY <1>1, <2>1, <2>2 DEF HookRun, Pending
<1>8. CASE Resumes(q, meta, first)
  <2> DEFINE u == z[n]
             k == n - 1
  <2>1. /\ r.error = None /\ Len(z) = n /\ \A i \in 1..(n - 1) : Alike(s[i], z[i])
        /\ u.at = "step" /\ u.hooked = r.hooked /\ u.stops = r.stops /\ u.error = None /\ Stays(r, u)
    BY <1>1, <1>6, <1>8 DEF Resumes, Halts, s, n, r
  <2>2. u.vm = r.vm /\ u.frames = r.frames
    BY <2>1 DEF Stays
  <2>3. HookRun(q, u, armed', breakhits') /\ (Pending(r) => Pending(u))
    BY <1>1, <1>3, <1>4, <2>1, <2>2 DEF HookRun, Pending
  <2>4. ShownRun(q, u, debug')
    BY <2>1 DEF ShownRun
  <2>5. k \in Nat /\ k + 1 = n
    BY <1>1
  <2>6. \A i \in 1..k : z[i].at = "wait" /\ HookRun(q, z[i], armed', breakhits')
    BY <1>7, <2>1
  <2>7. Len(z) = k + 1 /\ z[k + 1] = u /\ (debugging' <=> u.at = "debug")
        /\ (\A v \in VMs : breakhits'[v] = 1 => u.vm = v /\ Pending(u))
        /\ debug'.L = debug.L /\ singlestep' \subseteq {debug'.L}
    BY <1>1, <1>4, <1>5, <2>1, <2>2, <2>3, <2>5
  <2> HIDE DEF u, k
  <2> QED BY <1>3, <1>4, <1>5, <1>6, <2>3, <2>4, <2>5, <2>6, <2>7, StopTop DEF q
<1>9. CASE Unwinds(q, meta, first)
  <2>1. /\ r.error # None /\ Len(z) = n - 1 /\ \A i \in 1..(n - 2) : Alike(s[i], z[i])
        /\ n >= 2 /\ s[n - 1].at = "wait" => Wakes(s[n - 1], s[n], z[n - 1])
    BY <1>6, <1>9 DEF Unwinds, s, n, r
  <2>2. \A i \in 1..(n - 2) : z[i].at = "wait" /\ HookRun(q, z[i], armed', breakhits')
    <3>1. \A i \in 1..(n - 2) : i \in 1..(n - 1)
      BY <1>1
    <3> QED BY <1>7, <2>1, <3>1
  <2>3. n >= 2 => z[n - 1].at \in {"step", "dead"} /\ HookRun(q, z[n - 1], armed', breakhits')
    <3> SUFFICES ASSUME n >= 2 PROVE z[n - 1].at \in {"step", "dead"} /\ HookRun(q, z[n - 1], armed', breakhits')
      OBVIOUS
    <3>1. n - 1 \in 1..(n - 1)
      BY <1>1
    <3>2. HookRun(q, s[n - 1], armed', breakhits')
      BY <1>2, <3>1
    <3>3. Wakes(s[n - 1], s[n], z[n - 1])
      BY <1>1, <2>1, <3>1
    <3> QED BY <3>2, <3>3, WokenHook
  <2>4. \A v \in VMs : breakhits'[v] # 1
    BY <1>1, <1>4, <2>1 DEF Pending
  <2>5. StopLess(q, first)
    BY <1>4, <1>5, <1>6, <2>1, <2>2, <2>3, <2>4 DEF StopLess, s, n
  <2> QED BY <1>3, <1>4, <2>5, StopDrop DEF q
<1> QED BY <1>3, <1>8, <1>9

\* The OS thread begins.
LEMMA StopBegins ==
  ASSUME NEW first \in OSThreads, NEW silent, NEW meta,
         ShapeInv(meta), StopInv(first, silent), Start(first)
  PROVE  StopInv(first, silent)'
<1> DEFINE q == Programs[program]
<1>1. /\ runs[first] = << >>
      /\ \E m : runs' = [runs EXCEPT ![first] = <<m>>] /\ m.at = "step" /\ ~m.hooked /\ m.stops = 0
  <2> HIDE DEF q
  <2>1. q = Programs[program]
    BY DEF q
  <2>2. /\ runs[first] = << >>
        /\ \E e \in q.entries[first] : \E n : runs' = [runs EXCEPT ![first] = <<n>>] /\ Begins(n, e.f)
    BY <2>1, StartEffect
  <2> QED BY <2>2 DEF Begins
<1>2. UNCHANGED <<program, armed, breakhits, singlestep, debug, debugging>>
  BY DEF Start
<1>3. PICK m : runs' = [runs EXCEPT ![first] = <<m>>] /\ m.at = "step" /\ ~m.hooked /\ m.stops = 0
  BY <1>1
<1>4. PICK z : z = <<m>>
  OBVIOUS
<1>5. OnlyOf(first) /\ z = runs'[first] /\ Len(z) = 0 + 1 /\ z[0 + 1] = m
  BY <1>3, <1>4 DEF OnlyOf, ShapeInv
<1>6. StopOf(q, first, silent, runs, debug, armed, breakhits, debugging, singlestep)
  BY DEF StopInv
<1>7. ~debugging /\ \A v \in VMs : breakhits[v] # 1
  <2>1. \A i \in 1..Len(runs[first]) : FALSE
    BY <1>1
  <2> QED BY <1>6, <2>1 DEF StopOf, HookInv
<1>8. ShownRun(q, m, debug') /\ HookRun(q, m, armed', breakhits')
  BY <1>3 DEF ShownRun, HookRun, Pending
<1>9. singlestep \subseteq {debug.L} /\ (singlestep # {} => ~(q.commands \subseteq {"continue"}))
  BY SingleFacts
<1>10. /\ \A i \in 1..0 : z[i].at = "wait" /\ HookRun(q, z[i], armed', breakhits')
       /\ \A v \in VMs : breakhits'[v] = 1 => m.vm = v /\ Pending(m)
       /\ (debugging' <=> m.at = "debug")
       /\ singlestep' \subseteq {debug'.L} /\ (singlestep' # {} => ~(q.commands \subseteq {"continue"}))
       /\ debug'.L = debug.L /\ 0 \in Nat
  BY <1>2, <1>3, <1>7, <1>9
<1> HIDE DEF q
<1> QED BY <1>2, <1>5, <1>8, <1>10, StopTop DEF q

\* The script is loaded in another VM.
LEMMA StopLoaded ==
  ASSUME NEW first \in OSThreads, NEW silent, NEW meta,
         ShapeInv(meta), StopInv(first, silent), NEW v \in VMs, ref_thread(v)
  PROVE  StopInv(first, silent)'
<1> DEFINE q == Programs[program]
           s == runs[first]
<1>1. StacksOK(q, meta, runs, now, loaded)
  BY ShapeFacts
<1>2. UNCHANGED <<program, runs, breakhits, singlestep, debug, debugging>> /\ v \notin loaded
      /\ armed' = [armed EXCEPT ![v] = breakpoints]
  BY DEF ref_thread
<1>3. \A w \in loaded : armed'[w] = armed[w]
  BY <1>2 DEF ShapeInv
<1>4. StopOf(q, first, silent, runs, debug, armed, breakhits, debugging, singlestep)
  BY DEF StopInv
<1>5. ASSUME NEW i \in 1..Len(s) PROVE HookRun(q, s[i], armed', breakhits)
  <2>1. RunOK(q, meta, s[i], now, loaded)
    BY <1>1 DEF StacksOK, StackOK
  <2>2. s[i].vm \in loaded
    BY <2>1 DEF RunOK
  <2>3. HookRun(q, s[i], armed, breakhits)
    BY <1>4 DEF StopOf
  <2> QED BY <1>3, <2>2, <2>3 DEF HookRun
<1>6. StopOf(q, first, silent, runs, debug, armed', breakhits, debugging, singlestep)
  BY <1>4, <1>5 DEF StopOf
<1> QED BY <1>2, <1>6 DEF StopInv
\* A step of an OS thread is quiet, or one of the thread that may be stopped, with
\* nothing below its innermost thread but what waits.
LEMMA QuietOrAlone ==
  ASSUME NEW first \in OSThreads, NEW silent, NEW meta, ShapeInv(meta), StopInv(first, silent),
         NEW o \in OSThreads, ~Quiet(o, first)
  PROVE  o = first /\ (Busy(first) => Alone(first))
<1> DEFINE q == Programs[program]
<1>1. Busy(first) => \A i \in 1..(Len(runs[first]) - 1) : runs[first][i].at = "wait"
  <2> HIDE DEF q
  <2>1. q = Programs[program]
    BY DEF q
  <2> QED BY <2>1, TopQuiet DEF Quiet
<1> QED BY <1>1 DEF Alone, Quiet

\* One that runs nothing can only begin.
LEMMA Starts ==
  ASSUME NEW o, Step(o), ~Busy(o)
  PROVE  Start(o)
<1> QED BY DEF Step, lua_debugstep, lua_debugbreak, NoBreakpoint, Exec, WalkLevel, WalkEnds, DebugEnds, HandleError, At

LEMMA StopKept ==
  ASSUME NEW first \in OSThreads, NEW silent, NEW meta, Discipline(Programs[program], first, silent, meta),
         ShapeInv(meta), StopInv(first, silent), Next
  PROVE  StopInv(first, silent)'
<1>1. CASE Tick
  BY <1>1 DEF Tick, StopInv
<1>2. CASE \E v \in VMs : ref_thread(v)
  BY <1>2, StopLoaded
<1>3. ASSUME NEW o \in OSThreads, Step(o) PROVE StopInv(first, silent)'
  <2>1. CASE Quiet(o, first)
    <3>1. /\ QuietRuns(first, silent, o)
          /\ UNCHANGED <<program, singlestep, breakhits, debug, debugging>>
          /\ \A v \in VMs : armed[v] \subseteq armed'[v]
      BY <1>3, <2>1, QuietEffect
    <3>2. o = first => Busy(o)
      <4> SUFFICES ASSUME o = first, ~Busy(o) PROVE FALSE
        OBVIOUS
      <4>1. Start(o)
        BY <1>3, Starts
      <4>2. \A i \in 1..(Len(<< >>) - 1) : FALSE
        OBVIOUS
      <4> QED BY <2>1, <4>2 DEF Busy, Quiet
    <3>3. PICK q : q = Programs[program]
      OBVIOUS
    <3> QED BY <2>1, <3>1, <3>2, <3>3, QuietStop
  <2>2. CASE ~Quiet(o, first) /\ ~Busy(first)
    BY <1>3, <2>2, QuietOrAlone, Starts, StopBegins
  <2>3. CASE ~Quiet(o, first) /\ Busy(first)
    <3>1. o = first /\ Alone(first)
      BY <2>3, QuietOrAlone
    <3>2. ~Start(first)
      BY <2>3 DEF Start
    <3>3. \/ lua_debugstep(first) \/ lua_debugbreak(first) \/ NoBreakpoint(first) \/ Exec(first)
          \/ WalkLevel(first) \/ WalkEnds(first) \/ DebugEnds(first) \/ HandleError(first)
      BY <1>3, <3>1, <3>2 DEF Step
    <3> QED BY <3>1, <3>3, StopHooks, StopExec, StopWalk, StopEnds, StopLooked, StopError
  <2> QED BY <2>1, <2>2, <2>3
<1> QED BY <1>1, <1>2, <1>3 DEF Next

----------------------------------------------------------------------------
(* The OS thread that may be stopped: the step of the user.                    *)

\* What the invariant says of its innermost thread where all others wait.
LEMMA AskFacts ==
  ASSUME NEW q, q = Programs[program], NEW meta, ShapeInv(meta), NEW first \in OSThreads, NEW silent, StopInv(first, silent),
         StepInv(first), Alone(first)
  PROVE  LET r == Top(first)
             s == runs[first]
             n == Len(s) IN
         /\ asked \in AskType \cup {None} /\ debug.base \in DOMAIN q.code \cup {None}
         /\ asked # None => \E i \in 1..n : s[i].thread = asked.thread
         /\ asked # None /\ r.at \notin {"walk", "debug"} => asked.thread = debug.L
         /\ AskedRun(q, r, debug, engine, singlestep, asked) /\ EndingRun(q, r, debug, asked)
         /\ LeftRun(r, TRUE, debug, engine, singlestep, asked)
         /\ r.at = "walk" /\ r.step => singlestep = {}
<1> DEFINE r == Top(first)
           s == runs[first]
           n == Len(s)
<1>1. n \in Nat /\ n >= 1 /\ r = s[n] /\ \A i \in 1..(n - 1) : s[i].at = "wait"
  BY AloneFacts
<1>2. StepOf(q, s, debug, engine, singlestep, asked)
  BY DEF StepInv
<1> HIDE DEF r, s, n
<1>3. n \in 1..n /\ n = Len(s)
  BY <1>1 DEF n
<1>4. asked # None => \E i \in 1..n : s[i].thread = asked.thread
  BY <1>2, <1>3 DEF StepOf
<1>5. ASSUME asked # None, asked.thread # debug.L PROVE r.at \in {"walk", "debug"}
  <2>1. PICK i \in 1..n : s[i].at \in {"walk", "debug"}
    BY <1>2, <1>3, <1>5 DEF StepOf
  <2>2. i \notin 1..(n - 1)
    BY <1>1, <2>1
  <2>3. i = n
    BY <1>1, <2>2
  <2> QED BY <1>1, <2>1, <2>3
<1>6. /\ AskedRun(q, r, debug, engine, singlestep, asked) /\ EndingRun(q, r, debug, asked)
      /\ LeftRun(r, TRUE, debug, engine, singlestep, asked)
      /\ r.at = "walk" /\ r.step => singlestep = {}
  BY <1>1, <1>2, <1>3 DEF StepOf
<1>7. asked \in AskType \cup {None} /\ debug.base \in DOMAIN q.code \cup {None}
  BY <1>2 DEF StepOf
<1> QED BY <1>4, <1>5, <1>6, <1>7 DEF r, s, n

\* And of those that wait.
LEMMA AskBelow ==
  ASSUME NEW q, q = Programs[program], NEW meta, ShapeInv(meta), NEW first \in OSThreads, NEW silent, StopInv(first, silent),
         StepInv(first), Alone(first), NEW i \in 1..(Len(runs[first]) - 1)
  PROVE  /\ AskedRun(q, runs[first][i], debug, engine, singlestep, asked)
         /\ LeftRun(runs[first][i], FALSE, debug, engine, singlestep, asked)
<1> DEFINE s == runs[first]
           n == Len(s)
<1>1. n \in Nat /\ n >= 1
  BY AloneFacts
<1>2. StepOf(q, s, debug, engine, singlestep, asked)
  BY DEF StepInv
<1>3. i \in 1..Len(s) /\ i # Len(s)
  BY <1>1
<1> HIDE DEF s
<1>4. LeftRun(s[i], i = Len(s), debug, engine, singlestep, asked) /\ AskedRun(q, s[i], debug, engine, singlestep, asked)
  BY <1>2, <1>3 DEF StepOf
<1> QED BY <1>3, <1>4 DEF LeftRun, s

\* Where the debugger is bound to the innermost thread, or nothing of it changes but
\* that the step of that thread is over, the others are as they were.
BelowOK(r) ==
  \/ debug'.L = r.thread
  \/ /\ UNCHANGED <<debug, engine, singlestep>> /\ r.at \notin {"walk", "debug"}
     /\ asked' = asked \/ (asked' = None /\ asked # None /\ asked.thread = r.thread)

LEMMA BelowKept ==
  ASSUME NEW q, q = Programs[program], NEW meta, ShapeInv(meta), NEW first \in OSThreads, NEW silent, StopInv(first, silent),
         StepInv(first), Alone(first), BelowOK(Top(first)), NEW i \in 1..(Len(runs[first]) - 1)
  PROVE  /\ AskedRun(q, runs[first][i], debug', engine', singlestep', asked')
         /\ LeftRun(runs[first][i], FALSE, debug', engine', singlestep', asked')
<1> DEFINE r == Top(first)
           x == runs[first][i]
<1>1. x.thread # r.thread
  BY AloneFacts
<1>2. AskedRun(q, x, debug, engine, singlestep, asked) /\ LeftRun(x, FALSE, debug, engine, singlestep, asked)
  BY AskBelow
<1>3. asked # None /\ r.at \notin {"walk", "debug"} => asked.thread = debug.L
  BY AskFacts
<1> HIDE DEF r, x
<1>4. CASE debug'.L = r.thread
  <2>1. x.thread # debug'.L
    BY <1>1, <1>4
  <2>2. AskedRun(q, x, debug', engine', singlestep', asked')
    BY <2>1, Zenon DEF AskedRun
  <2>3. LeftRun(x, FALSE, debug', engine', singlestep', asked')
    BY <2>1, Zenon DEF LeftRun
  <2> QED BY <2>2, <2>3 DEF x
<1>5. CASE UNCHANGED <<debug, engine, singlestep>> /\ asked' = asked
  <2>1. debug' = debug /\ engine' = engine /\ singlestep' = singlestep /\ asked' = asked
    BY <1>5
  <2> QED BY <1>2, <2>1, Zenon DEF x
<1>6. CASE /\ UNCHANGED <<debug, engine, singlestep>> /\ r.at \notin {"walk", "debug"}
           /\ asked' = None /\ asked # None /\ asked.thread = r.thread
  <2>1. debug'.L = r.thread
    BY <1>3, <1>6
  <2> QED BY <1>4, <2>1
<1> QED BY <1>4, <1>5, <1>6 DEF BelowOK, r, x

\* What is said of the innermost thread u of the new state.
StepNext(q, u) ==
  /\ asked' \in AskType \cup {None} /\ debug'.base \in DOMAIN q.code \cup {None}
  /\ asked' # None /\ asked'.thread # debug'.L => u.at \in {"walk", "debug"}
  /\ AskedRun(q, u, debug', engine', singlestep', asked') /\ EndingRun(q, u, debug', asked')
  /\ LeftRun(u, TRUE, debug', engine', singlestep', asked')
  /\ u.at = "walk" /\ u.step => singlestep' = {}

\* In the new state all that is below u waits.
LEMMA StepTop ==
  ASSUME NEW q, q = Programs[program], UNCHANGED program, NEW first \in OSThreads,
         NEW k \in Nat, NEW z, z = runs'[first], Len(z) = k + 1,
         \A i \in 1..k : /\ z[i].at = "wait" /\ AskedRun(q, z[i], debug', engine', singlestep', asked')
                         /\ LeftRun(z[i], FALSE, debug', engine', singlestep', asked'),
         NEW u, z[k + 1] = u, StepNext(q, u),
         asked' # None => \E i \in 1..(k + 1) : z[i].thread = asked'.thread
  PROVE  StepInv(first)'
<1>1. \A i \in 1..(k + 1) : i \in 1..k \/ i = k + 1
  OBVIOUS
<1>2. \A i \in 1..(k + 1) : \A j \in 1..(i - 1) : j \in 1..k
  OBVIOUS
<1>3. \A i \in 1..k : i # k + 1
  OBVIOUS
<1>4. k + 1 \in 1..(k + 1)
  OBVIOUS
<1>5. ASSUME NEW i \in 1..(k + 1)
      PROVE  /\ AskedRun(q, z[i], debug', engine', singlestep', asked')
             /\ EndingRun(q, z[i], debug', asked')
             /\ LeftRun(z[i], i = k + 1, debug', engine', singlestep', asked')
             /\ z[i].at = "walk" /\ z[i].step => singlestep' = {}
  <2>1. CASE i \in 1..k
    <3>1. (i = k + 1) = FALSE
      BY <1>3, <2>1
    <3> QED BY <2>1, <3>1 DEF EndingRun
  <2>2. CASE i = k + 1
    BY <2>2 DEF StepNext
  <2> QED BY <1>1, <2>1, <2>2
<1>6. asked' # None => \E i \in 1..(k + 1) : z[i].thread = asked'.thread /\ \A j \in 1..(i - 1) : z[j].at # "walk"
  <2>1. \A j \in 1..k : z[j].at # "walk"
    OBVIOUS
  <2> QED BY <1>2, <2>1
<1>7. asked' # None /\ asked'.thread # debug'.L => \E i \in 1..(k + 1) : z[i].at \in {"walk", "debug"}
  BY <1>4 DEF StepNext
<1>8. StepOf(q, z, debug', engine', singlestep', asked')
  BY <1>5, <1>6, <1>7 DEF StepOf, StepNext
<1> QED BY <1>8 DEF StepInv

\* Or the OS thread runs nothing.
LEMMA StepNone ==
  ASSUME NEW q, q = Programs[program], UNCHANGED program, NEW first \in OSThreads, Len(runs'[first]) = 0, asked' = None,
         debug'.base \in DOMAIN q.code \cup {None}
  PROVE  StepInv(first)'
<1>1. \A i \in 1..Len(runs'[first]) : FALSE
  OBVIOUS
<1>2. StepOf(q, runs'[first], debug', engine', singlestep', asked')
  BY <1>1 DEF StepOf
<1> QED BY <1>2 DEF StepInv

\* The innermost thread is u now.
LEMMA StepRetop ==
  ASSUME NEW q, q = Programs[program], NEW meta, ShapeInv(meta), NEW first \in OSThreads, NEW silent, StopInv(first, silent),
         StepInv(first), UNCHANGED program, Alone(first), NEW u, Retop(q, first, u), StepNext(q, u), u.thread = Top(first).thread,
         BelowOK(Top(first)), asked' = asked \/ asked' = None
  PROVE  StepInv(first)'
<1> DEFINE s == runs[first]
           k == Len(s) - 1
<1>1. Len(s) \in Nat /\ Len(s) >= 1 /\ Top(first) = s[Len(s)]
  BY AloneFacts
<1>2. \A i \in 1..k : /\ s[i].at = "wait" /\ AskedRun(q, s[i], debug', engine', singlestep', asked')
                      /\ LeftRun(s[i], FALSE, debug', engine', singlestep', asked')
  <2>1. \A i \in 1..(Len(s) - 1) : s[i].at = "wait"
    BY DEF Alone
  <2>2. \A i \in 1..(Len(s) - 1) : /\ AskedRun(q, s[i], debug', engine', singlestep', asked')
                                   /\ LeftRun(s[i], FALSE, debug', engine', singlestep', asked')
    BY BelowKept
  <2> QED BY <2>1, <2>2
<1>3. k \in Nat /\ k + 1 = Len(s)
  BY <1>1
<1>4. PICK z : z = runs'[first]
  OBVIOUS
<1>5. Len(z) = k + 1 /\ (\A i \in 1..k : z[i] = s[i]) /\ z[k + 1] = u
  BY <1>3, <1>4 DEF Retop
<1>6. asked # None => \E i \in 1..Len(s) : s[i].thread = asked.thread
  BY AskFacts
<1> HIDE DEF s, k
<1>7. \A i \in 1..(k + 1) : i \in 1..k \/ i = k + 1
  BY <1>3
<1>8. \A i \in 1..(k + 1) : z[i].thread = s[i].thread
  BY <1>1, <1>3, <1>5, <1>7
<1>9. asked' # None => \E i \in 1..(k + 1) : z[i].thread = asked'.thread
  BY <1>3, <1>6, <1>8
<1>10. \A i \in 1..k : /\ z[i].at = "wait" /\ AskedRun(q, z[i], debug', engine', singlestep', asked')
                       /\ LeftRun(z[i], FALSE, debug', engine', singlestep', asked')
  BY <1>2, <1>5
<1> QED BY <1>3, <1>4, <1>5, <1>9, <1>10, StepTop
\* The thread of the step, where it is not collected or looked at.
LEMMA AskedHere ==
  ASSUME NEW q, NEW r, NEW d, NEW e, NEW single, NEW a, AskedRun(q, r, d, e, single, a),
         a # None, a.thread = d.L, r.thread = d.L, r.at \notin {"walk", "debug"}
  PROVE  /\ d.depth = a.depth /\ Len(d.shown) >= 1 /\ d.shown[1].line = a.line
         /\ single = {d.L} /\ e.lines_left = 1 /\ (e.depth >= 0 <=> a.over)
         /\ \E k \in 1..Len(r.frames) : k <= a.depth /\ r.frames[k].f = d.base
         /\ r.at # "step" => PlacedAt(q, r, a)
<1> QED BY DEF AskedRun

\* A walk that begins and is none of a step.
LEMMA BreakStarts ==
  ASSUME NEW q, NEW u, u.at = "walk", ~u.step, ~u.found, u.level = 0, NEW r, u.thread = r.thread,
         NEW single, Rebinds(r, single), debug.base \in DOMAIN q.code \cup {None},
         asked' \in AskType \cup {None}
  PROVE  StepNext(q, u)
<1>1. debug'.base \in DOMAIN q.code \cup {None}
  BY DEF Rebinds
<1>2. AskedRun(q, u, debug', engine', singlestep', asked') /\ LeftRun(u, TRUE, debug', engine', singlestep', asked')
  BY DEF AskedRun, LeftRun
<1>3. EndingRun(q, u, debug', asked')
  BY DEF EndingRun
<1> QED BY <1>1, <1>2, <1>3 DEF StepNext

\* lua_debugstep: does nothing for a thread that is not stepped.
LEMMA StepPasses ==
  ASSUME NEW q, q = Programs[program], NEW meta, ShapeInv(meta), NEW first \in OSThreads, NEW silent, StopInv(first, silent),
         StepInv(first), Alone(first), Top(first).at = "step", StepDone(Top(first)),
         UNCHANGED <<engine, singlestep, debug, asked>>, NEW u, Stays(Top(first), u), u.at = "break"
  PROVE  StepNext(q, u)
<1> DEFINE r == Top(first)
<1>1. /\ asked \in AskType \cup {None} /\ debug.base \in DOMAIN q.code \cup {None}
      /\ asked # None /\ r.at \notin {"walk", "debug"} => asked.thread = debug.L
      /\ AskedRun(q, r, debug, engine, singlestep, asked)
  BY AskFacts
<1>2. singlestep \subseteq {debug.L}
  BY SingleFacts
<1>3. u.thread = r.thread /\ u.frames = r.frames
  BY DEF Stays
<1> HIDE DEF r
<1>4. asked # None => u.thread # asked.thread
  <2> SUFFICES ASSUME asked # None, u.thread = asked.thread PROVE FALSE
    OBVIOUS
  <2>1. r.at = "step" /\ StepDone(r)
    BY DEF r
  <2>2. asked.thread = debug.L /\ r.thread = debug.L
    BY <1>1, <1>3, <2>1
  <2>3. singlestep = {debug.L} /\ engine.lines_left = 1
    BY <1>1, <2>1, <2>2, AskedHere
  <2> QED BY <2>1, <2>2, <2>3 DEF StepDone
<1>5. ~(u.thread = debug.L /\ singlestep # {} /\ engine.lines_left > 0)
  <2> SUFFICES ASSUME u.thread = debug.L, singlestep # {}, engine.lines_left > 0 PROVE FALSE
    OBVIOUS
  <2>1. r.thread \in singlestep /\ debug.L = r.thread
    BY <1>2, <1>3
  <2>2. engine.lines_left \in {-1, 0, 1}
    BY DEF ShapeInv
  <2> QED BY <2>1, <2>2 DEF StepDone, r
<1>6. AskedRun(q, u, debug, engine, singlestep, asked) /\ LeftRun(u, TRUE, debug, engine, singlestep, asked)
      /\ EndingRun(q, u, debug, asked)
  BY <1>4, <1>5 DEF AskedRun, LeftRun, EndingRun
<1>7. (asked # None => asked.thread = debug.L) /\ u.at # "walk"
  BY <1>1 DEF r
<1>8. debug' = debug /\ engine' = engine /\ singlestep' = singlestep /\ asked' = asked
  OBVIOUS
<1> QED BY <1>1, <1>6, <1>7, <1>8 DEF StepNext

\* It counts: what is known of the thread and of what it counts.
LEMMA CountFacts ==
  ASSUME NEW q, q = Programs[program], NEW meta, ShapeInv(meta), NEW first \in OSThreads, NEW silent, StopInv(first, silent),
         StepInv(first), Alone(first), Top(first).at = "step", ~StepDone(Top(first)), StepsTo(q, Top(first))
  PROVE  LET r == Top(first)
             n == Len(r.frames)
             line == Ins(q, Last(r.frames)).line IN
         /\ r.thread = debug.L /\ singlestep = {debug.L} /\ engine.lines_left = 1 /\ n \in Nat
         /\ asked # None =>
              /\ asked.thread = debug.L /\ debug.depth = asked.depth /\ Len(debug.shown) >= 1 /\ debug.shown[1].line = asked.line
              /\ asked.depth \in Nat /\ (engine.depth >= 0 <=> asked.over)
              /\ \E k \in 1..n : k <= asked.depth /\ r.frames[k].f = debug.base
         /\ asked # None /\ engine'.lines_left > 0 =>
              /\ engine'.lines_left = 1 /\ (engine'.depth >= 0 <=> asked.over)
              /\ n >= asked.depth /\ ((asked.over => n <= asked.depth) => n = asked.depth /\ line = asked.line)
         /\ asked # None /\ ~(engine'.lines_left > 0) =>
              (n # asked.depth \/ line # asked.line) /\ (asked.over => n <= asked.depth)
         /\ asked = None => ~(engine'.lines_left > 0) /\ ~InBase(r.frames, debug)
<1> DEFINE r == Top(first)
           n == Len(r.frames)
           line == Ins(q, Last(r.frames)).line
           depth == IF engine.depth >= 0 THEN n - debug.depth ELSE engine.depth
           there == n # debug.depth \/ line # debug.shown[1].line
<1>1. /\ asked \in AskType \cup {None}
      /\ asked # None /\ r.at \notin {"walk", "debug"} => asked.thread = debug.L
      /\ AskedRun(q, r, debug, engine, singlestep, asked) /\ LeftRun(r, TRUE, debug, engine, singlestep, asked)
  BY AskFacts
<1>2. singlestep \subseteq {debug.L}
  BY SingleFacts
<1>3. n \in Nat
  <2>1. RunOK(q, meta, r, now, loaded)
    BY AloneFacts
  <2>2. r.frames \in Seq(FrameType(q)) /\ FramesOK(q, meta, r.frames)
    BY <2>1 DEF RunOK, RunType
  <2> QED BY <2>2, FrameFacts
<1>4. engine.lines_left \in {-1, 0, 1} /\ engine.depth \in Int /\ debug.depth \in Int
  BY DEF ShapeInv
<1>5. r.thread = debug.L /\ singlestep = {debug.L} /\ engine.lines_left = 1 /\ r.at = "step"
  BY <1>2, <1>4 DEF StepDone
<1>6. engine'.lines_left = (IF depth <= 0 /\ there THEN engine.lines_left - 1 ELSE engine.lines_left) /\ engine'.depth = depth
  BY DEF StepsTo
<1>7. depth \in Int
  BY <1>3, <1>4
<1>8. (engine'.lines_left > 0 <=> ~(depth <= 0 /\ there)) /\ (engine'.lines_left > 0 => engine'.lines_left = 1)
  BY <1>5, <1>6
<1> HIDE DEF r
<1>9. ASSUME asked # None
      PROVE  /\ asked.thread = debug.L /\ debug.depth = asked.depth /\ Len(debug.shown) >= 1 /\ debug.shown[1].line = asked.line
             /\ asked.depth \in Nat /\ (engine.depth >= 0 <=> asked.over)
             /\ \E k \in 1..n : k <= asked.depth /\ r.frames[k].f = debug.base
  <2>1. asked.thread = debug.L /\ asked.depth \in Nat
    BY <1>1, <1>5, <1>9 DEF AskType
  <2> QED BY <1>1, <1>5, <1>9, <2>1, AskedHere
<1>10. ASSUME asked = None PROVE ~(engine'.lines_left > 0) /\ ~InBase(r.frames, debug)
  <2>1. ~InBase(r.frames, debug) /\ n < debug.depth
    BY <1>1, <1>5, <1>10 DEF LeftRun
  <2>2. depth <= 0 /\ there
    BY <1>3, <1>4, <2>1
  <2> QED BY <1>8, <2>1, <2>2
<1>11. ASSUME asked # None, engine'.lines_left > 0
       PROVE  /\ engine'.depth >= 0 <=> asked.over
              /\ n >= asked.depth /\ ((asked.over => n <= asked.depth) => n = asked.depth /\ line = asked.line)
  <2>1. CASE asked.over
    <3>1. depth = n - asked.depth /\ ~(depth <= 0 /\ there)
      BY <1>8, <1>9, <1>11, <2>1
    <3>2. n # asked.depth => there
      BY <1>9, <1>11
    <3>3. line # asked.line => there
      BY <1>9, <1>11
    <3> HIDE DEF depth, there, n, line
    <3>4. n >= asked.depth
      BY <1>3, <1>9, <1>11, <3>1, <3>2
    <3> QED BY <1>3, <1>6, <1>9, <1>11, <2>1, <3>1, <3>3, <3>4
  <2>2. CASE ~asked.over
    <3>1. depth = engine.depth /\ depth < 0 /\ ~there
      BY <1>4, <1>8, <1>9, <1>11, <2>2
    <3>2. n = asked.depth /\ line = asked.line
      BY <1>9, <1>11, <3>1
    <3> HIDE DEF depth, there, n, line
    <3> QED BY <1>3, <1>6, <1>7, <2>2, <3>1, <3>2
  <2> QED BY <2>1, <2>2
<1>12. ASSUME asked # None, ~(engine'.lines_left > 0)
       PROVE  (n # asked.depth \/ line # asked.line) /\ (asked.over => n <= asked.depth)
  <2>1. depth <= 0 /\ there
    BY <1>8, <1>12
  <2>2. n # asked.depth \/ line # asked.line
    BY <1>9, <1>12, <2>1
  <2>3. asked.over => depth = n - asked.depth
    BY <1>9, <1>12
  <2> HIDE DEF depth, there, n, line
  <2>4. asked.over => n <= asked.depth
    BY <1>3, <1>9, <1>12, <2>1, <2>3
  <2> QED BY <2>2, <2>4
<1> HIDE DEF depth, there
<1> QED BY <1>3, <1>5, <1>8, <1>9, <1>10, <1>11, <1>12 DEF r
LEMMA StepCounts ==
  ASSUME NEW q, q = Programs[program], NEW meta, ShapeInv(meta), NEW first \in OSThreads, NEW silent, StopInv(first, silent),
         StepInv(first), Alone(first), Top(first).at = "step", ~StepDone(Top(first)), StepsTo(q, Top(first)),
         engine'.lines_left > 0, UNCHANGED <<singlestep, debug, asked>>, NEW u, Stays(Top(first), u), u.at = "break"
  PROVE  StepNext(q, u) /\ debug'.L = Top(first).thread
<1> DEFINE r == Top(first)
           n == Len(r.frames)
           line == Ins(q, Last(r.frames)).line
<1>1. asked \in AskType \cup {None} /\ debug.base \in DOMAIN q.code \cup {None}
  BY AskFacts
<1>2. /\ r.thread = debug.L /\ singlestep = {debug.L} /\ asked # None
      /\ asked.thread = debug.L /\ debug.depth = asked.depth /\ Len(debug.shown) >= 1 /\ debug.shown[1].line = asked.line
      /\ \E k \in 1..n : k <= asked.depth /\ r.frames[k].f = debug.base
      /\ engine'.lines_left = 1 /\ (engine'.depth >= 0 <=> asked.over)
      /\ n >= asked.depth /\ ((asked.over => n <= asked.depth) => n = asked.depth /\ line = asked.line)
  BY CountFacts
<1>3. u.thread = r.thread /\ u.frames = r.frames
  BY DEF Stays
<1>4. debug' = debug /\ singlestep' = singlestep /\ asked' = asked
  OBVIOUS
<1> HIDE DEF r
<1>5. PlacedAt(q, u, asked)
  BY <1>2, <1>3 DEF PlacedAt
<1>6. AskedRun(q, u, debug, engine', singlestep, asked)
  BY <1>2, <1>3, <1>5 DEF AskedRun
<1>7. LeftRun(u, TRUE, debug, engine', singlestep, asked) /\ EndingRun(q, u, debug, asked)
  BY <1>2 DEF LeftRun, EndingRun
<1> QED BY <1>1, <1>2, <1>4, <1>6, <1>7 DEF StepNext, r

\* The step ends, or it left the function of the breakpoint.
LEMMA StepStops ==
  ASSUME NEW q, q = Programs[program], NEW meta, ShapeInv(meta), NEW first \in OSThreads, NEW silent, StopInv(first, silent),
         StepInv(first), Alone(first), Top(first).at = "step", ~StepDone(Top(first)), StepsTo(q, Top(first)),
         ~(engine'.lines_left > 0), Rebinds(Top(first), singlestep \ {Top(first).thread}), UNCHANGED asked,
         NEW u, WalkStarts(Top(first), u, TRUE)
  PROVE  StepNext(q, u) /\ debug'.L = Top(first).thread
<1> DEFINE r == Top(first)
           n == Len(r.frames)
           line == Ins(q, Last(r.frames)).line
<1>1. asked \in AskType \cup {None} /\ debug.base \in DOMAIN q.code \cup {None}
  BY AskFacts
<1>2. /\ r.thread = debug.L /\ singlestep = {debug.L}
      /\ asked # None =>
           /\ asked.thread = debug.L /\ (\E k \in 1..n : k <= asked.depth /\ r.frames[k].f = debug.base)
           /\ (n # asked.depth \/ line # asked.line) /\ (asked.over => n <= asked.depth)
      /\ asked = None => ~InBase(r.frames, debug)
  BY CountFacts
<1>3. /\ u.thread = r.thread /\ u.frames = r.frames /\ u.at = "walk" /\ u.step = TRUE /\ u.level = 0 /\ ~u.found
  BY DEF WalkStarts, Stays
<1>4. debug'.L = r.thread /\ debug'.base = debug.base /\ singlestep' = {}
  BY <1>2 DEF Rebinds
<1> HIDE DEF r
<1>5. asked # None => InBase(u.frames, debug')
  BY <1>2, <1>3, <1>4 DEF InBase
<1>6. asked = None => ~InBase(u.frames, debug')
  BY <1>2, <1>3, <1>4 DEF InBase
<1>7. EndingRun(q, u, debug', asked)
  BY <1>2, <1>3, <1>5, <1>6 DEF EndingRun
<1>8. AskedRun(q, u, debug', engine', singlestep', asked) /\ LeftRun(u, TRUE, debug', engine', singlestep', asked)
  BY <1>3 DEF AskedRun, LeftRun
<1> QED BY <1>1, <1>3, <1>4, <1>7, <1>8 DEF StepNext, r

\* Where the step was not asked to end, the instruction is reached.
LEMMA StepGoesTo ==
  ASSUME NEW q, q = Programs[program], NEW meta, ShapeInv(meta), NEW first \in OSThreads, NEW silent, StopInv(first, silent),
         StepInv(first), Alone(first), Top(first).at \in {"break", "exec"}, UNCHANGED <<engine, singlestep, debug, asked>>,
         NEW u, Stays(Top(first), u), u.at \in {"exec", "dead", "wait"}
  PROVE  StepNext(q, u) /\ \A top : LeftRun(u, top, debug', engine', singlestep', asked')
<1> DEFINE r == Top(first)
<1>1. /\ asked \in AskType \cup {None} /\ debug.base \in DOMAIN q.code \cup {None}
      /\ asked # None /\ r.at \notin {"walk", "debug"} => asked.thread = debug.L
      /\ AskedRun(q, r, debug, engine, singlestep, asked) /\ LeftRun(r, TRUE, debug, engine, singlestep, asked)
  BY AskFacts
<1>2. u.thread = r.thread /\ u.frames = r.frames
  BY DEF Stays
<1>3. r.at \in {"break", "exec"}
  OBVIOUS
<1>4. debug' = debug /\ engine' = engine /\ singlestep' = singlestep /\ asked' = asked
  OBVIOUS
<1> HIDE DEF r
<1>5. ASSUME NEW top PROVE LeftRun(u, top, debug, engine, singlestep, asked)
  BY <1>1, <1>2, <1>3 DEF LeftRun
<1>6. AskedRun(q, u, debug, engine, singlestep, asked)
  <2> SUFFICES ASSUME asked # None, u.thread = asked.thread, debug.L = asked.thread
               PROVE  /\ debug.depth = asked.depth /\ Len(debug.shown) >= 1 /\ debug.shown[1].line = asked.line
                      /\ singlestep = {debug.L} /\ engine.lines_left = 1 /\ (engine.depth >= 0 <=> asked.over)
                      /\ \E k \in 1..Len(u.frames) : k <= asked.depth /\ u.frames[k].f = debug.base
                      /\ PlacedAt(q, u, asked)
    BY DEF AskedRun
  <2>1. r.thread = debug.L /\ asked.thread = debug.L /\ r.at \notin {"walk", "debug"} /\ r.at # "step" /\ asked # None
    BY <1>2, <1>3
  <2>2. /\ debug.depth = asked.depth /\ Len(debug.shown) >= 1 /\ debug.shown[1].line = asked.line
        /\ singlestep = {debug.L} /\ engine.lines_left = 1 /\ (engine.depth >= 0 <=> asked.over)
        /\ \E k \in 1..Len(r.frames) : k <= asked.depth /\ r.frames[k].f = debug.base
        /\ PlacedAt(q, r, asked)
    BY <1>1, <2>1, AskedHere
  <2>3. PlacedAt(q, u, asked)
    BY <1>2, <2>2 DEF PlacedAt
  <2> QED BY <1>2, <2>2, <2>3
<1>7. EndingRun(q, u, debug, asked)
  BY DEF EndingRun
<1>8. u.at # "walk" /\ (asked # None => asked.thread = debug.L)
  BY <1>1, <1>3
<1> QED BY <1>1, <1>4, <1>5, <1>6, <1>7, <1>8 DEF StepNext

\* The hooks before an instruction.
LEMMA StepHooks ==
  ASSUME NEW first \in OSThreads, NEW silent, NEW meta, ShapeInv(meta), StopInv(first, silent), StepInv(first), Alone(first),
         lua_debugstep(first) \/ lua_debugbreak(first) \/ NoBreakpoint(first)
  PROVE  StepInv(first)'
<1> DEFINE q == Programs[program]
           r == Top(first)
<1> HIDE DEF q
<1>1. q = Programs[program]
  BY DEF q
<1>2. debugging <=> r.at = "debug"
  BY <1>1, AloneFacts
<1>3. asked \in AskType \cup {None} /\ debug.base \in DOMAIN q.code \cup {None}
  BY <1>1, AskFacts
<1>4. CASE lua_debugstep(first)
  <2>1. /\ r.at = "step"
        /\ \/ /\ StepDone(r) /\ UNCHANGED <<engine, singlestep, debug>>
              /\ \E u : Retop(q, first, u) /\ Hooks(r, u, "break")
           \/ /\ ~StepDone(r) /\ StepsTo(q, r) /\ engine'.lines_left > 0 /\ UNCHANGED <<singlestep, debug>>
              /\ \E u : Retop(q, first, u) /\ Hooks(r, u, "break")
           \/ /\ ~StepDone(r) /\ StepsTo(q, r) /\ ~(engine'.lines_left > 0)
              /\ \/ debugging
                 \/ /\ \E u : Retop(q, first, u) /\ WalkStarts(r, u, TRUE)
                    /\ Rebinds(r, singlestep \ {r.thread})
    BY <1>1, <1>4, StepEffect
  <2>2. UNCHANGED <<program, asked>>
    BY <1>4 DEF lua_debugstep
  <2>3. CASE /\ StepDone(r) /\ UNCHANGED <<engine, singlestep, debug>>
             /\ \E u : Retop(q, first, u) /\ Hooks(r, u, "break")
    <3>1. PICK u : Retop(q, first, u) /\ Hooks(r, u, "break")
      BY <2>3
    <3>2. Stays(r, u) /\ u.at = "break" /\ u.thread = r.thread
      BY <3>1 DEF Hooks, Halts, Stays
    <3>3. StepNext(q, u)
      BY <1>1, <2>1, <2>2, <2>3, <3>2, StepPasses
    <3>4. BelowOK(r)
      BY <2>1, <2>2, <2>3 DEF BelowOK
    <3> QED BY <1>1, <2>2, <3>1, <3>2, <3>3, <3>4, StepRetop
  <2>4. CASE /\ ~StepDone(r) /\ StepsTo(q, r) /\ engine'.lines_left > 0 /\ UNCHANGED <<singlestep, debug>>
             /\ \E u : Retop(q, first, u) /\ Hooks(r, u, "break")
    <3>1. PICK u : Retop(q, first, u) /\ Hooks(r, u, "break")
      BY <2>4
    <3>2. Stays(r, u) /\ u.at = "break" /\ u.thread = r.thread
      BY <3>1 DEF Hooks, Halts, Stays
    <3>3. StepNext(q, u) /\ debug'.L = r.thread
      BY <1>1, <2>1, <2>2, <2>4, <3>2, StepCounts
    <3>4. BelowOK(r)
      BY <3>3 DEF BelowOK
    <3> QED BY <1>1, <2>2, <3>1, <3>2, <3>3, <3>4, StepRetop
  <2>5. CASE /\ ~StepDone(r) /\ StepsTo(q, r) /\ ~(engine'.lines_left > 0)
             /\ \E u : Retop(q, first, u) /\ WalkStarts(r, u, TRUE)
             /\ Rebinds(r, singlestep \ {r.thread})
    <3>1. PICK u : Retop(q, first, u) /\ WalkStarts(r, u, TRUE)
      BY <2>5
    <3>2. u.thread = r.thread
      BY <3>1 DEF WalkStarts, Stays
    <3>3. StepNext(q, u) /\ debug'.L = r.thread
      BY <1>1, <2>1, <2>2, <2>5, <3>1, StepStops
    <3>4. BelowOK(r)
      BY <3>3 DEF BelowOK
    <3> QED BY <1>1, <2>2, <3>1, <3>2, <3>3, <3>4, StepRetop
  <2> QED BY <1>2, <2>1, <2>3, <2>4, <2>5
<1>5. CASE lua_debugbreak(first)
  <2>1. /\ r.at = "break"
        /\ \/ UNCHANGED <<singlestep, debug>> /\ \E u : Retop(q, first, u) /\ Meets(r, u, "exec")
           \/ debugging
           \/ Rebinds(r, singlestep) /\ \E u : Retop(q, first, u) /\ Meets(r, u, "walk")
    BY <1>1, <1>5, HitEffect
  <2>2. UNCHANGED <<program, asked, engine>>
    BY <1>5 DEF lua_debugbreak
  <2>3. CASE UNCHANGED <<singlestep, debug>> /\ \E u : Retop(q, first, u) /\ Meets(r, u, "exec")
    <3>1. PICK u : Retop(q, first, u) /\ Meets(r, u, "exec")
      BY <2>3
    <3>2. Stays(r, u) /\ u.at = "exec" /\ u.thread = r.thread
      BY <3>1 DEF Meets, Stays
    <3>3. StepNext(q, u)
      BY <1>1, <2>1, <2>2, <2>3, <3>2, StepGoesTo
    <3>4. BelowOK(r)
      BY <2>1, <2>2, <2>3 DEF BelowOK
    <3> QED BY <1>1, <2>2, <3>1, <3>2, <3>3, <3>4, StepRetop
  <2>4. CASE Rebinds(r, singlestep) /\ \E u : Retop(q, first, u) /\ Meets(r, u, "walk")
    <3>1. PICK u : Retop(q, first, u) /\ Meets(r, u, "walk")
      BY <2>4
    <3>2. u.at = "walk" /\ ~u.step /\ ~u.found /\ u.level = 0 /\ u.thread = r.thread
      BY <3>1 DEF Meets, Stays
    <3>3. StepNext(q, u)
      BY <1>3, <2>2, <2>4, <3>2, BreakStarts
    <3>4. BelowOK(r)
      BY <2>4 DEF BelowOK, Rebinds
    <3> QED BY <1>1, <2>2, <3>1, <3>2, <3>3, <3>4, StepRetop
  <2> QED BY <1>2, <2>1, <2>3, <2>4
<1>6. CASE NoBreakpoint(first)
  <2>1. r.at = "break" /\ \E u : Retop(q, first, u) /\ Hooks(r, u, "exec")
    BY <1>1, <1>6, NoHitEffect
  <2>2. UNCHANGED <<program, asked, engine, singlestep, debug>>
    BY <1>6 DEF NoBreakpoint
  <2>3. PICK u : Retop(q, first, u) /\ Hooks(r, u, "exec")
    BY <2>1
  <2>4. Stays(r, u) /\ u.at = "exec" /\ u.thread = r.thread
    BY <2>3 DEF Hooks, Halts, Stays
  <2>5. StepNext(q, u)
    BY <1>1, <2>1, <2>2, <2>4, StepGoesTo
  <2>6. BelowOK(r)
    BY <2>1, <2>2 DEF BelowOK
  <2> QED BY <1>1, <2>2, <2>3, <2>4, <2>5, <2>6, StepRetop
<1> QED BY <1>4, <1>5, <1>6
\* The step goes on while its thread is within the function of the breakpoint.
LEMMA KeptOr ==
  ASSUME NEW o
  PROVE  Kept(o) = asked \/ (Kept(o) = None /\ asked # None /\ asked.thread = Top(o).thread)
<1> QED BY DEF Kept

LEMMA KeptAt ==
  ASSUME NEW q, NEW o, NEW z \in Seq(RunType(q)), z = runs'[o], asked # None, asked.thread = Top(o).thread,
         NEW j \in 1..Len(z), z[j].thread = asked.thread, \A i \in 1..Len(z) : z[i].thread = asked.thread => i = j
  PROVE  Kept(o) = IF InBase(z[j].frames, debug) THEN asked ELSE None
<1>1. DOMAIN z = 1..Len(z) /\ z[j] \in RunType(q)
  OBVIOUS
<1>2. z[j].frames \in Seq(FrameType(q))
  BY <1>1 DEF RunType
<1>3. DOMAIN z[j].frames = 1..Len(z[j].frames)
  BY <1>2
<1>4. \A x \in ToSet(runs'[o]) : x.thread = asked.thread => x = z[j]
  BY <1>1 DEF ToSet
<1>5. z[j] \in ToSet(runs'[o])
  BY <1>1 DEF ToSet
<1>6. (\A x \in ToSet(runs'[o]) : x.thread = asked.thread => \A i \in DOMAIN x.frames : x.frames[i].f # debug.base)
        <=> ~InBase(z[j].frames, debug)
  <2>1. (\A i \in DOMAIN z[j].frames : z[j].frames[i].f # debug.base) <=> ~InBase(z[j].frames, debug)
    BY <1>3 DEF InBase
  <2> QED BY <1>4, <1>5, <2>1
<1> HIDE DEF ToSet
<1> QED BY <1>6 DEF Kept

LEMMA KeptNone ==
  ASSUME NEW q, NEW o, NEW z \in Seq(RunType(q)), z = runs'[o], asked # None, asked.thread = Top(o).thread,
         \A i \in 1..Len(z) : z[i].thread # asked.thread
  PROVE  Kept(o) = None
<1>1. \A x \in ToSet(runs'[o]) : x.thread # asked.thread
  BY DEF ToSet
<1> QED BY <1>1 DEF Kept

\* Where the thread stays in its functions, so does the step.
LEMMA KeptStays ==
  ASSUME NEW q, q = Programs[program], NEW meta, ShapeInv(meta), NEW first \in OSThreads, NEW silent, StopInv(first, silent),
         StepInv(first), Alone(first), Top(first).at \in {"exec", "dead"}, NEW u, Stays(Top(first), u),
         NEW z \in Seq(RunType(q)), z = runs'[first], Len(runs[first]) \in 1..Len(z),
         \A i \in 1..(Len(runs[first]) - 1) : z[i] = runs[first][i], z[Len(runs[first])] = u,
         \A i \in 1..Len(z) : i > Len(runs[first]) => z[i].thread # debug.L
  PROVE  Kept(first) = asked
<1> DEFINE r == Top(first)
           s == runs[first]
           n == Len(s)
<1>1. /\ asked \in AskType \cup {None}
      /\ asked # None /\ r.at \notin {"walk", "debug"} => asked.thread = debug.L
      /\ AskedRun(q, r, debug, engine, singlestep, asked)
  BY AskFacts
<1>2. n \in Nat /\ n >= 1 /\ \A i \in 1..(n - 1) : s[i].thread # r.thread
  BY AloneFacts
<1>3. u.thread = r.thread /\ u.frames = r.frames /\ r.at \in {"exec", "dead"}
  BY DEF Stays
<1> SUFFICES ASSUME asked # None, asked.thread = r.thread PROVE Kept(first) = asked
  BY KeptOr
<1>4. asked.thread = debug.L
  BY <1>1, <1>3
<1>5. \A i \in 1..Len(z) : z[i].thread = asked.thread => i = n
  <2>1. \A i \in 1..Len(z) : i \in 1..(n - 1) \/ i = n \/ i > n
    BY <1>2
  <2> QED BY <1>2, <1>4, <2>1
<1>6. \E k \in 1..Len(r.frames) : k <= asked.depth /\ r.frames[k].f = debug.base
  <2>1. asked # None /\ asked.thread = debug.L /\ r.thread = debug.L /\ r.at \notin {"walk", "debug"}
    BY <1>3, <1>4
  <2> HIDE DEF r
  <2> QED BY <1>1, <2>1, AskedHere
<1>7. InBase(u.frames, debug)
  BY <1>3, <1>6 DEF InBase
<1>8. Kept(first) = IF InBase(z[n].frames, debug) THEN asked ELSE None
  BY <1>3, <1>5, KeptAt
<1> QED BY <1>7, <1>8

\* The thread goes on within its functions, calls one, or returns.
LEMMA StepGoes ==
  ASSUME NEW q, q = Programs[program], NEW meta, ShapeInv(meta), NEW first \in OSThreads, NEW silent, StopInv(first, silent),
         StepInv(first), Alone(first), Top(first).at = "exec", UNCHANGED <<engine, singlestep, debug>>, asked' = Kept(first),
         NEW u, Retop(q, first, u), Goes(q, Top(first), u)
  PROVE  StepNext(q, u)
<1> DEFINE r == Top(first)
           s == runs[first]
           n == Len(s)
           m == Len(r.frames)
<1>1. /\ asked \in AskType \cup {None} /\ debug.base \in DOMAIN q.code \cup {None}
      /\ asked # None /\ r.at \notin {"walk", "debug"} => asked.thread = debug.L
      /\ AskedRun(q, r, debug, engine, singlestep, asked) /\ LeftRun(r, TRUE, debug, engine, singlestep, asked)
  BY AskFacts
<1>2. n \in Nat /\ n >= 1 /\ (\A i \in 1..(n - 1) : s[i].thread # r.thread) /\ RunOK(q, meta, r, now, loaded)
  BY AloneFacts
<1>3. m \in Nat
  <2>1. r.frames \in Seq(FrameType(q)) /\ FramesOK(q, meta, r.frames)
    BY <1>2 DEF RunOK, RunType
  <2> QED BY <2>1, FrameFacts
<1>4. /\ u.thread = r.thread /\ u.at = "step" /\ r.at = "exec"
      /\ Len(u.frames) \in {m - 1, m, m + 1}
      /\ \A k \in 1..Len(u.frames) : k <= m => u.frames[k].f = r.frames[k].f
  BY DEF Goes, GoesOn, FramesGo
<1>5. PICK z \in Seq(RunType(q)) : z = runs'[first] /\ Len(z) = n /\ (\A i \in 1..(n - 1) : z[i] = s[i]) /\ z[n] = u
  BY DEF Retop
<1>6. debug' = debug /\ engine' = engine /\ singlestep' = singlestep /\ asked' = Kept(first)
  OBVIOUS
<1>7. asked # None => asked.thread = debug.L
  BY <1>1, <1>4
<1> HIDE DEF s, m, n
<1>8. asked # None /\ asked.thread = r.thread => asked' = IF InBase(u.frames, debug) THEN asked ELSE None
  <2> SUFFICES ASSUME asked # None, asked.thread = r.thread PROVE Kept(first) = IF InBase(u.frames, debug) THEN asked ELSE None
    BY <1>6
  <2>1. n \in 1..Len(z) /\ z[n].thread = asked.thread
    BY <1>2, <1>4, <1>5
  <2>2. \A i \in 1..Len(z) : z[i].thread = asked.thread => i = n
    <3>1. \A i \in 1..Len(z) : i \in 1..(n - 1) \/ i = n
      BY <1>2, <1>5
    <3> QED BY <1>2, <1>5, <3>1
  <2>3. Kept(first) = IF InBase(z[n].frames, debug) THEN asked ELSE None
    BY <1>5, <2>1, <2>2, KeptAt
  <2> QED BY <1>5, <2>3
<1>9. asked' = asked \/ (asked' = None /\ asked # None /\ asked.thread = r.thread)
  BY <1>6, KeptOr
<1> HIDE DEF r
<1>10. ASSUME asked # None, asked.thread = r.thread
       PROVE  /\ debug.depth = asked.depth /\ Len(debug.shown) >= 1 /\ debug.shown[1].line = asked.line
              /\ singlestep = {debug.L} /\ engine.lines_left = 1 /\ (engine.depth >= 0 <=> asked.over)
              /\ m >= asked.depth /\ asked.depth \in Nat
              /\ \E k \in 1..m : k <= asked.depth /\ r.frames[k].f = debug.base
  <2>1. asked.depth \in Nat
    BY <1>1, <1>10 DEF AskType
  <2>2. asked.thread = debug.L /\ r.thread = debug.L /\ r.at \notin {"walk", "debug"} /\ r.at # "step"
    BY <1>4, <1>7, <1>10
  <2>3. PlacedAt(q, r, asked)
    BY <1>1, <1>10, <2>2, AskedHere
  <2> QED BY <1>1, <1>10, <2>1, <2>2, <2>3, AskedHere DEF PlacedAt, m
<1>11. ASSUME asked' # None, u.thread = asked'.thread
       PROVE  \E k \in 1..Len(u.frames) : k <= asked.depth /\ u.frames[k].f = debug.base
  <2>1. asked' = asked /\ asked.thread = r.thread /\ InBase(u.frames, debug)
    BY <1>4, <1>8, <1>9, <1>11
  <2>2. PICK k \in 1..m : k <= asked.depth /\ r.frames[k].f = debug.base
    BY <1>10, <1>11, <2>1
  <2>3. CASE k <= Len(u.frames)
    <3>1. k \in 1..Len(u.frames) /\ k <= m
      BY <1>3, <1>4, <2>3
    <3> QED BY <1>4, <2>2, <3>1
  <2>4. CASE ~(k <= Len(u.frames))
    <3>1. Len(u.frames) = m - 1 /\ k = m
      BY <1>3, <1>4, <2>4
    <3>2. PICK i \in 1..Len(u.frames) : u.frames[i].f = debug.base
      BY <2>1 DEF InBase
    <3>3. asked.depth \in Nat
      BY <1>10, <1>11, <2>1
    <3>4. i <= asked.depth
      BY <1>3, <2>2, <3>1, <3>2, <3>3
    <3> QED BY <3>2, <3>4
  <2> QED BY <2>3, <2>4
<1>12. AskedRun(q, u, debug, engine, singlestep, asked')
  <2> SUFFICES ASSUME asked' # None, u.thread = asked'.thread, debug.L = asked'.thread
               PROVE  /\ debug.depth = asked'.depth /\ Len(debug.shown) >= 1 /\ debug.shown[1].line = asked'.line
                      /\ singlestep = {debug.L} /\ engine.lines_left = 1 /\ (engine.depth >= 0 <=> asked'.over)
                      /\ \E k \in 1..Len(u.frames) : k <= asked'.depth /\ u.frames[k].f = debug.base
    BY <1>4 DEF AskedRun
  <2>1. asked' = asked /\ asked.thread = r.thread /\ asked # None
    BY <1>4, <1>9
  <2>2. \E k \in 1..Len(u.frames) : k <= asked.depth /\ u.frames[k].f = debug.base
    BY <1>11
  <2> QED BY <1>10, <2>1, <2>2
<1>13. LeftRun(u, TRUE, debug, engine, singlestep, asked')
  <2> SUFFICES ASSUME asked' = None, u.thread = debug.L, singlestep # {}, engine.lines_left > 0
               PROVE  ~InBase(u.frames, debug) /\ Len(u.frames) < debug.depth
    BY <1>4 DEF LeftRun
  <2>1. asked # None
    BY <1>1, <1>4 DEF LeftRun
  <2>2. asked.thread = r.thread
    BY <1>4, <1>7, <2>1
  <2>3. ~InBase(u.frames, debug)
    BY <1>8, <2>1, <2>2
  <2>4. PICK k \in 1..m : k <= asked.depth /\ r.frames[k].f = debug.base
    BY <1>10, <2>1, <2>2
  <2>5. ~(k <= Len(u.frames))
    <3> SUFFICES ASSUME k <= Len(u.frames) PROVE FALSE
      OBVIOUS
    <3>1. k \in 1..Len(u.frames) /\ k <= m
      BY <1>3, <1>4
    <3> QED BY <1>4, <2>3, <2>4, <3>1 DEF InBase
  <2>6. debug.depth = asked.depth /\ asked.depth \in Nat
    BY <1>10, <2>1, <2>2
  <2>7. Len(u.frames) < debug.depth
    BY <1>3, <1>4, <2>4, <2>5, <2>6
  <2> QED BY <2>3, <2>7
<1>14. EndingRun(q, u, debug, asked')
  BY <1>4 DEF EndingRun
<1>15. asked' \in AskType \cup {None} /\ (asked' # None => asked'.thread = debug.L) /\ u.at # "walk"
  BY <1>1, <1>4, <1>7, <1>9
<1> QED BY <1>1, <1>6, <1>12, <1>13, <1>14, <1>15 DEF StepNext

\* What called the thread that is done goes on, or ends, and its step with it.
LEMMA StepReturns ==
  ASSUME NEW q, NEW y, NEW d, NEW u, Wakes(y, d, u), y.at = "wait",
         AskedRun(q, y, debug, engine, singlestep, asked), LeftRun(y, FALSE, debug, engine, singlestep, asked),
         UNCHANGED <<debug, engine, singlestep>>,
         asked \in AskType \cup {None}, debug.base \in DOMAIN q.code \cup {None}, asked # None => asked.thread = debug.L,
         NEW x, y.thread # x, asked' = asked \/ (asked' = None /\ asked # None /\ asked.thread = x)
  PROVE  StepNext(q, u)
<1>1. /\ u.thread = y.thread /\ u.at \in {"step", "dead"} /\ SameFunctions(y, u)
      /\ u.at = "dead" => u.frames = y.frames
  BY DEF Wakes, GoesOn, Ends, Halts, Stays, SameFunctions
<1>2. debug' = debug /\ engine' = engine /\ singlestep' = singlestep
  OBVIOUS
<1>3. AskedRun(q, u, debug, engine, singlestep, asked')
  <2> SUFFICES ASSUME asked' # None, u.thread = asked'.thread, debug.L = asked'.thread
               PROVE  /\ debug.depth = asked'.depth /\ Len(debug.shown) >= 1 /\ debug.shown[1].line = asked'.line
                      /\ singlestep = {debug.L} /\ engine.lines_left = 1 /\ (engine.depth >= 0 <=> asked'.over)
                      /\ \E k \in 1..Len(u.frames) : k <= asked'.depth /\ u.frames[k].f = debug.base
                      /\ u.at # "step" => PlacedAt(q, u, asked')
    BY <1>1 DEF AskedRun
  <2>1. asked' = asked /\ asked # None /\ asked.thread = debug.L /\ y.thread = debug.L /\ y.at \notin {"walk", "debug"}
    BY <1>1
  <2>2. /\ debug.depth = asked.depth /\ Len(debug.shown) >= 1 /\ debug.shown[1].line = asked.line
        /\ singlestep = {debug.L} /\ engine.lines_left = 1 /\ (engine.depth >= 0 <=> asked.over)
        /\ \E k \in 1..Len(y.frames) : k <= asked.depth /\ y.frames[k].f = debug.base
        /\ PlacedAt(q, y, asked)
    BY <2>1, AskedHere
  <2>3. \E k \in 1..Len(u.frames) : k <= asked.depth /\ u.frames[k].f = debug.base
    BY <1>1, <2>2 DEF SameFunctions
  <2>4. u.at # "step" => PlacedAt(q, u, asked)
    BY <1>1, <2>2 DEF PlacedAt
  <2> QED BY <2>1, <2>2, <2>3, <2>4
<1>4. LeftRun(u, TRUE, debug, engine, singlestep, asked')
  <2> SUFFICES ASSUME asked' = None, u.thread = debug.L, singlestep # {}, engine.lines_left > 0 PROVE FALSE
    BY DEF LeftRun
  <2>1. asked # None
    BY <1>1 DEF LeftRun
  <2> QED BY <1>1, <2>1
<1>5. EndingRun(q, u, debug, asked')
  BY <1>1 DEF EndingRun
<1> QED BY <1>1, <1>2, <1>3, <1>4, <1>5 DEF StepNext

\* The innermost thread is gone.
LEMMA StepDrop ==
  ASSUME NEW q, q = Programs[program], NEW meta, ShapeInv(meta), NEW first \in OSThreads, NEW silent, StopInv(first, silent),
         StepInv(first), Alone(first), Top(first).at \in {"exec", "dead"}, UNCHANGED <<program, debug, engine, singlestep>>,
         asked' = Kept(first), Drop(q, first)
  PROVE  StepInv(first)'
<1> DEFINE r == Top(first)
           s == runs[first]
           n == Len(s)
<1>1. /\ asked \in AskType \cup {None} /\ debug.base \in DOMAIN q.code \cup {None}
      /\ asked # None => \E i \in 1..n : s[i].thread = asked.thread
      /\ asked # None /\ r.at \notin {"walk", "debug"} => asked.thread = debug.L
  BY AskFacts
<1>2. /\ n \in Nat /\ n >= 1 /\ r = s[n]
      /\ \A i \in 1..(n - 1) : s[i].at = "wait" /\ RunOK(q, meta, s[i], now, loaded) /\ s[i].thread # r.thread
  BY AloneFacts
<1>3. IsProgram(q)
  BY ShapeFacts
<1>4. asked' = asked \/ (asked' = None /\ asked # None /\ asked.thread = r.thread)
  BY KeptOr
<1>5. asked # None => asked.thread = debug.L
  BY <1>1
<1>6. BelowOK(r)
  BY <1>4 DEF BelowOK
<1>7. \A i \in 1..(n - 1) : /\ AskedRun(q, s[i], debug', engine', singlestep', asked')
                            /\ LeftRun(s[i], FALSE, debug', engine', singlestep', asked')
  BY <1>6, BelowKept
<1>8. PICK z \in Seq(RunType(q)) : /\ z = runs'[first] /\ Len(z) = n - 1 /\ \A i \in 1..(n - 2) : z[i] = s[i]
                                   /\ n >= 2 => z[n - 1] = Woken(s[n - 1], r)
  BY <1>2 DEF Drop, DropOf
<1>8a. r \in RunType(q)
  <2>1. StacksOK(q, meta, runs, now, loaded)
    BY ShapeFacts
  <2> QED BY <1>2, <2>1 DEF StacksOK, StackOK
<1>9. asked # None /\ asked.thread = r.thread /\ (\A i \in 1..Len(z) : z[i].thread # r.thread) => asked' = None
  BY <1>8, KeptNone
<1> HIDE DEF s, n
<1>10. n = 1 \/ n >= 2
  BY ONLY <1>2
<1>11. CASE n = 1
  <2>1. Len(z) = 0
    BY ONLY <1>8, <1>11
  <2>2. \A i \in 1..Len(z) : FALSE
    BY ONLY <2>1
  <2>3. asked # None => asked.thread = r.thread
    <3>1. \A i \in 1..n : i = n
      BY ONLY <1>11
    <3> QED BY <1>1, <1>2, <3>1
  <2>4. asked' = None
    BY <1>4, <1>9, <2>2, <2>3
  <2> QED BY <1>1, <1>8, <2>1, <2>4, StepNone
<1>12. CASE n >= 2
  <2> DEFINE y == s[n - 1]
             u == z[n - 1]
             k == n - 2
  <2>1. k \in Nat /\ k + 1 = n - 1 /\ n - 1 \in 1..(n - 1) /\ \A i \in 1..k : i \in 1..(n - 1)
    BY ONLY <1>2, <1>12
  <2>2. y.at = "wait" /\ RunOK(q, meta, y, now, loaded) /\ y.thread # r.thread
    BY <1>2, <2>1
  <2>3. u = Woken(y, r) /\ r \in RunType(q)
    BY <1>8, <1>12, <1>8a
  <2>4. Wakes(y, r, u) /\ u.thread = y.thread
    BY <1>3, <2>2, <2>3, WokenFacts
  <2>5. AskedRun(q, y, debug, engine, singlestep, asked) /\ LeftRun(y, FALSE, debug, engine, singlestep, asked)
    BY <2>1, AskBelow DEF s, n
  <2> HIDE DEF y, u, r
  <2>6. StepNext(q, u)
    BY <1>1, <1>4, <1>5, <2>2, <2>4, <2>5, StepReturns
  <2>7. \A i \in 1..k : /\ z[i].at = "wait" /\ AskedRun(q, z[i], debug', engine', singlestep', asked')
                        /\ LeftRun(z[i], FALSE, debug', engine', singlestep', asked')
    BY <1>2, <1>7, <1>8, <2>1
  <2>8. \A i \in 1..(k + 1) : z[i].thread = s[i].thread /\ i \in 1..(n - 1)
    <3>1. \A i \in 1..(k + 1) : (i \in 1..k \/ i = n - 1) /\ i \in 1..(n - 1)
      BY ONLY <2>1
    <3>2. z[n - 1].thread = s[n - 1].thread
      BY <2>4 DEF u, y
    <3> QED BY <1>8, <3>1, <3>2 DEF k
  <2>9. asked' # None => \E i \in 1..(k + 1) : z[i].thread = asked'.thread
    <3> SUFFICES ASSUME asked' # None PROVE \E i \in 1..(k + 1) : z[i].thread = asked.thread
      BY <1>4
    <3>1. asked' = asked /\ asked # None
      BY <1>4
    <3>2. \A i \in 1..Len(z) : z[i].thread # r.thread
      BY <1>2, <1>8, <2>1, <2>8
    <3>3. asked.thread # r.thread
      BY <1>9, <3>1, <3>2
    <3>4. PICK i \in 1..n : s[i].thread = asked.thread
      BY <1>1, <3>1
    <3>5. i # n
      BY <1>2, <3>3, <3>4
    <3>6. i \in 1..(k + 1)
      BY <1>2, <2>1, <3>5
    <3> QED BY <2>8, <3>4, <3>6
  <2>10. Len(z) = k + 1 /\ z[k + 1] = u
    BY <1>8, <2>1 DEF u
  <2> HIDE DEF k
  <2> QED BY <1>8, <2>1, <2>6, <2>7, <2>9, <2>10, StepTop
<1> QED BY <1>10, <1>11, <1>12

\* An instruction.
LEMMA StepExec ==
  ASSUME NEW first \in OSThreads, NEW silent, NEW meta, Discipline(Programs[program], first, silent, meta),
         ShapeInv(meta), StopInv(first, silent), StepInv(first), Alone(first), Exec(first)
  PROVE  StepInv(first)'
<1> DEFINE q == Programs[program]
           r == Top(first)
           s == runs[first]
           n == Len(s)
<1>1. MetaCode(q, meta)
  BY DEF Discipline
<1> HIDE DEF q
<1>2. q = Programs[program]
  BY DEF q
<1>3. r.at = "exec" /\ Executed(q, meta, first, r)
  BY <1>1, <1>2, ExecEffect
<1>4. UNCHANGED <<program, singlestep, debug, engine>> /\ asked' = Kept(first)
  BY DEF Exec
<1>5. n \in Nat /\ n >= 1 /\ n \in 1..n
  BY <1>2, AloneFacts
<1>6. BelowOK(r)
  BY <1>3, <1>4, KeptOr DEF BelowOK
<1>7. asked' = asked \/ asked' = None
  BY <1>4, KeptOr
<1>8. CASE \E u : Retop(q, first, u) /\ Goes(q, r, u)
  <2>1. PICK u : Retop(q, first, u) /\ Goes(q, r, u)
    BY <1>8
  <2>2. StepNext(q, u) /\ u.thread = r.thread
    BY <1>2, <1>3, <1>4, <2>1, StepGoes DEF Goes, GoesOn
  <2> QED BY <1>2, <1>4, <1>6, <1>7, <2>1, <2>2, StepRetop
<1>9. CASE \E u : Retop(q, first, u) /\ Ends(r, u)
  <2>1. PICK u : Retop(q, first, u) /\ Ends(r, u)
    BY <1>9
  <2>2. Stays(r, u) /\ u.at = "dead" /\ u.thread = r.thread
    BY <2>1 DEF Ends, Halts, Stays
  <2>3. PICK z \in Seq(RunType(q)) : z = runs'[first] /\ Len(z) = n /\ (\A i \in 1..(n - 1) : z[i] = s[i]) /\ z[n] = u
    BY <2>1 DEF Retop
  <2>4. \A i \in 1..Len(z) : ~(i > n)
    BY <1>5, <2>3
  <2>5. Kept(first) = asked
    BY <1>2, <1>3, <1>5, <2>2, <2>3, <2>4, KeptStays
  <2>6. StepNext(q, u)
    BY <1>2, <1>3, <1>4, <2>2, <2>5, StepGoesTo
  <2> QED BY <1>2, <1>4, <1>6, <1>7, <2>1, <2>2, <2>6, StepRetop
<1>10. CASE \E u, m : Push(q, first, u, m) /\ Waits(r, u) /\ Makes(q, r, m)
  <2>1. PICK u, m : Push(q, first, u, m) /\ Waits(r, u) /\ Makes(q, r, m)
    BY <1>10
  <2>2. Stays(r, u) /\ u.at = "wait" /\ u.thread = r.thread /\ m.at = "step" /\ m.thread # debug.L
    BY <2>1 DEF Waits, Halts, Stays, Makes, Begins
  <2>3. PICK z \in Seq(RunType(q)) : /\ z = runs'[first] /\ Len(z) = n + 1 /\ (\A i \in 1..(n - 1) : z[i] = s[i])
                                     /\ z[n] = u /\ z[n + 1] = m
    BY <2>1 DEF Push
  <2>4. \A i \in 1..Len(z) : i > n => z[i].thread # debug.L
    <3>1. \A i \in 1..Len(z) : i > n => i = n + 1
      BY <1>5, <2>3
    <3> QED BY <2>2, <2>3, <3>1
  <2>5. Kept(first) = asked
    <3>1. n \in 1..Len(z)
      BY <1>5, <2>3
    <3> QED BY <1>2, <1>3, <2>2, <2>3, <2>4, <3>1, KeptStays
  <2>6. StepNext(q, u) /\ \A top : LeftRun(u, top, debug', engine', singlestep', asked')
    BY <1>2, <1>3, <1>4, <2>2, <2>5, StepGoesTo
  <2>7. /\ asked \in AskType \cup {None} /\ debug.base \in DOMAIN q.code \cup {None}
        /\ asked # None => \E i \in 1..n : s[i].thread = asked.thread
        /\ asked # None /\ r.at \notin {"walk", "debug"} => asked.thread = debug.L
    BY <1>2, AskFacts
  <2>8. debug' = debug /\ engine' = engine /\ singlestep' = singlestep /\ asked' = asked
    BY <1>4, <2>5
  <2>9. StepNext(q, m)
    <3>1. AskedRun(q, m, debug', engine', singlestep', asked') /\ LeftRun(m, TRUE, debug', engine', singlestep', asked')
          /\ EndingRun(q, m, debug', asked')
      BY <2>2, <2>8 DEF AskedRun, LeftRun, EndingRun
    <3>2. (asked' # None => asked'.thread = debug'.L) /\ m.at # "walk"
      BY <1>3, <2>2, <2>7, <2>8
    <3> QED BY <2>7, <2>8, <3>1, <3>2 DEF StepNext
  <2>10. \A i \in 1..(n - 1) : /\ AskedRun(q, s[i], debug', engine', singlestep', asked')
                               /\ LeftRun(s[i], FALSE, debug', engine', singlestep', asked')
    BY <1>2, <1>6, BelowKept
  <2>11. \A i \in 1..(n - 1) : s[i].at = "wait"
    BY DEF Alone
  <2>12. r = s[n]
    BY <1>2, AloneFacts
  <2> HIDE DEF s, n, r
  <2>13. \A i \in 1..n : i \in 1..(n - 1) \/ i = n
    BY <1>5
  <2>14. \A i \in 1..n : /\ z[i].at = "wait" /\ AskedRun(q, z[i], debug', engine', singlestep', asked')
                         /\ LeftRun(z[i], FALSE, debug', engine', singlestep', asked')
    <3>1. AskedRun(q, u, debug', engine', singlestep', asked')
      BY <2>6 DEF StepNext
    <3> QED BY <2>2, <2>3, <2>6, <2>10, <2>11, <2>13, <3>1
  <2>15. \A i \in 1..n : z[i].thread = s[i].thread /\ i \in 1..(n + 1)
    BY <1>5, <2>2, <2>3, <2>12, <2>13
  <2>16. asked' # None => \E i \in 1..(n + 1) : z[i].thread = asked'.thread
    BY <2>7, <2>8, <2>15
  <2> QED BY <1>2, <1>4, <1>5, <2>3, <2>9, <2>14, <2>16, StepTop
<1>11. CASE Drop(q, first)
  BY <1>2, <1>3, <1>4, <1>11, StepDrop
<1> QED BY <1>3, <1>8, <1>9, <1>10, <1>11 DEF Executed, Done

\* An error.
LEMMA StepError ==
  ASSUME NEW first \in OSThreads, NEW silent, NEW meta, ShapeInv(meta), StopInv(first, silent), StepInv(first),
         Alone(first), HandleError(first)
  PROVE  StepInv(first)'
<1> DEFINE q == Programs[program]
           r == Top(first)
<1> HIDE DEF q
<1>1. q = Programs[program]
  BY DEF q
<1>2. UNCHANGED <<program, engine>> /\ asked' = Kept(first)
  BY DEF HandleError
<1>3. debugging <=> r.at = "debug"
  BY <1>1, AloneFacts
<1>4. /\ r.at = "dead"
      /\ \/ Drop(q, first) /\ UNCHANGED <<singlestep, debug>>
         \/ Rebinds(r, singlestep) /\ \E u : Retop(q, first, u) /\ WalkStarts(r, u, FALSE)
  <2>1. /\ r.at = "dead"
        /\ \/ Drop(q, first) /\ UNCHANGED <<singlestep, debug>>
           \/ debugging
           \/ Rebinds(r, singlestep) /\ \E u : Retop(q, first, u) /\ WalkStarts(r, u, FALSE)
    BY <1>1, ErrorEffect
  <2> QED BY <1>3, <2>1
<1>5. CASE Drop(q, first) /\ UNCHANGED <<singlestep, debug>>
  BY <1>1, <1>2, <1>4, <1>5, StepDrop
<1>6. CASE Rebinds(r, singlestep) /\ \E u : Retop(q, first, u) /\ WalkStarts(r, u, FALSE)
  <2>1. PICK u : Retop(q, first, u) /\ WalkStarts(r, u, FALSE)
    BY <1>6
  <2>2. u.at = "walk" /\ ~u.step /\ ~u.found /\ u.level = 0 /\ u.thread = r.thread
    BY <2>1 DEF WalkStarts, Stays
  <2>3. asked \in AskType \cup {None} /\ debug.base \in DOMAIN q.code \cup {None}
    BY <1>1, AskFacts
  <2>4. asked' = asked \/ asked' = None
    BY <1>2, KeptOr
  <2>5. StepNext(q, u)
    BY <1>6, <2>2, <2>3, <2>4, BreakStarts
  <2>6. BelowOK(r)
    BY <1>6 DEF BelowOK, Rebinds
  <2> QED BY <1>1, <1>2, <2>1, <2>2, <2>4, <2>5, <2>6, StepRetop
<1> QED BY <1>4, <1>5, <1>6
\* A level of the stack is shown: the function of the breakpoint is found, or not.
LEMMA EndingOn ==
  ASSUME NEW q, NEW meta, NEW t, NEW ld, NEW r, RunOK(q, meta, r, t, ld), r.at = "walk", r.level < Len(r.frames),
         EndingRun(q, r, debug, asked), NEW u, WalksOn(r, u), u.level = r.level + 1,
         NEW fr, fr = r.frames[Len(r.frames) - r.level], u.found = (r.found \/ (r.step /\ fr.f = debug.base)),
         ShowsFrame(q, r, fr)
  PROVE  EndingRun(q, u, debug', asked)
<1> DEFINE F == r.frames
           n == Len(F)
           l == r.level
<1>1. /\ u.thread = r.thread /\ u.frames = F /\ u.at = "walk" /\ u.error = r.error /\ u.step = r.step
  BY DEF WalksOn, Stays
<1>2. l \in Nat /\ r.step \in BOOLEAN /\ r.found \in BOOLEAN
  BY DEF RunOK, RunType
<1>3. n \in Nat /\ Last(F) = F[n]
  <2>1. F \in Seq(FrameType(q)) /\ FramesOK(q, meta, F)
    BY DEF RunOK, RunType
  <2> QED BY <2>1, FrameFacts
<1>4. n - l \in 1..n
  BY <1>2, <1>3
<1>5. debug'.base = IF ~r.step /\ l = 0 THEN fr.f ELSE debug.base
  BY DEF ShowsFrame
<1>6. u.found <=> (r.found \/ (r.step /\ fr.f = debug.base))
  OBVIOUS
<1>7. r.step => debug'.base = debug.base
  BY <1>5
<1>8. InBase(F, debug') <=> \E k \in 1..n : F[k].f = debug'.base
  BY DEF InBase
<1>9. ASSUME r.step PROVE InBase(F, debug') <=> InBase(F, debug)
  BY <1>7, <1>9 DEF InBase
<1>10. u.step /\ asked # None => /\ asked.thread = u.thread /\ InBase(u.frames, debug')
                                 /\ Len(u.frames) # asked.depth \/ Ins(q, Last(u.frames)).line # asked.line
                                 /\ asked.over => Len(u.frames) <= asked.depth
  BY <1>1, <1>9 DEF EndingRun
<1>11. u.step /\ asked = None => ~InBase(u.frames, debug')
  BY <1>1, <1>9 DEF EndingRun
<1>12. u.found => u.step /\ InBase(u.frames, debug')
  <2>1. CASE r.found
    BY <1>1, <1>9, <2>1 DEF EndingRun
  <2>2. CASE r.step /\ fr.f = debug.base
    BY <1>1, <1>4, <1>7, <1>8, <2>2
  <2> QED BY <1>6, <2>1, <2>2
<1>13. u.step /\ ~u.found => \A k \in 1..u.level : u.frames[Len(u.frames) - k + 1].f # debug'.base
  <2> SUFFICES ASSUME u.step, ~u.found, NEW k \in 1..(l + 1) PROVE F[n - k + 1].f # debug.base
    BY <1>1, <1>7
  <2>1. CASE k \in 1..l
    BY <1>1, <1>6, <2>1 DEF EndingRun
  <2>2. CASE k = l + 1
    <3>1. n - k + 1 = n - l
      BY <1>2, <1>3, <2>2
    <3> QED BY <1>1, <1>6, <3>1
  <2> QED BY <1>2, <2>1, <2>2
<1>14. ~u.step => Last(u.frames).f = debug'.base
  <2> SUFFICES ASSUME ~r.step PROVE Last(F).f = debug'.base
    BY <1>1
  <2>1. CASE l = 0
    <3>1. n - l = n
      BY <1>3, <2>1
    <3> QED BY <1>3, <1>5, <2>1, <3>1
  <2>2. CASE l > 0
    BY <1>2, <1>5, <2>2 DEF EndingRun
  <2> QED BY <1>2, <2>1, <2>2
<1> HIDE DEF F, n, l
<1> QED BY <1>1, <1>10, <1>11, <1>12, <1>13, <1>14 DEF EndingRun

\* One level of the walk.
LEMMA StepWalk ==
  ASSUME NEW first \in OSThreads, NEW silent, NEW meta, Discipline(Programs[program], first, silent, meta),
         ShapeInv(meta), StopInv(first, silent), StepInv(first), Alone(first), WalkLevel(first)
  PROVE  StepInv(first)'
<1> DEFINE q == Programs[program]
           r == Top(first)
           s == runs[first]
           n == Len(s)
           fr == r.frames[Len(r.frames) - r.level]
<1>1. IsProgram(q) /\ (q.getter # None => q.getter \in silent["resume"])
  BY ShapeFacts DEF Discipline
<1> HIDE DEF q
<1>2. q = Programs[program]
  BY DEF q
<1>3. /\ RunOK(q, meta, r, now, loaded) /\ ShownRun(q, r, debug) /\ n \in Nat /\ n >= 1 /\ r = s[n]
  BY <1>2, AloneFacts
<1>4. UNCHANGED <<program, singlestep, engine, asked>>
  BY DEF WalkLevel
<1>5. /\ r.at = "walk" /\ r.level < Len(r.frames)
      /\ \/ \E u, m : /\ Push(q, first, u, m) /\ WalksOn(r, u) /\ u.level = r.level /\ u.found = r.found
                      /\ Begins(m, q.getter) /\ m.kind = "resume" /\ m.thread # debug.L
                      /\ q.getter # None /\ UNCHANGED debug
         \/ \E u : /\ Retop(q, first, u) /\ RunOK(q, meta, u, now, loaded) /\ WalksOn(r, u) /\ u.level = r.level + 1
                   /\ u.found = (r.found \/ (r.step /\ fr.f = debug.base)) /\ ShowsFrame(q, r, fr)
  BY <1>2, WalkLevelEffect
<1>6. /\ asked \in AskType \cup {None} /\ debug.base \in DOMAIN q.code \cup {None}
      /\ asked # None => \E i \in 1..n : s[i].thread = asked.thread
      /\ EndingRun(q, r, debug, asked)
      /\ r.at = "walk" /\ r.step => singlestep = {}
  BY <1>2, AskFacts
<1>7. debug.L = r.thread
  BY <1>3, <1>5 DEF ShownRun
<1>8. CASE \E u : /\ Retop(q, first, u) /\ RunOK(q, meta, u, now, loaded) /\ WalksOn(r, u) /\ u.level = r.level + 1
                  /\ u.found = (r.found \/ (r.step /\ fr.f = debug.base)) /\ ShowsFrame(q, r, fr)
  <2>1. fr.f \in DOMAIN q.code
    <3>1. r.frames \in Seq(FrameType(q)) /\ FramesOK(q, meta, r.frames) /\ r.level \in Nat
      BY <1>3 DEF RunOK, RunType
    <3>2. Len(r.frames) \in Nat
      BY <3>1, FrameFacts
    <3>3. Len(r.frames) - r.level \in 1..Len(r.frames)
      BY <1>5, <3>1, <3>2
    <3> QED BY <3>1, <3>3, FrameFacts
  <2> HIDE DEF r, fr
  <2>2. PICK u : /\ Retop(q, first, u) /\ RunOK(q, meta, u, now, loaded) /\ WalksOn(r, u) /\ u.level = r.level + 1
                 /\ u.found = (r.found \/ (r.step /\ fr.f = debug.base)) /\ ShowsFrame(q, r, fr)
    BY <1>8
  <2>3. u.at = "walk" /\ u.step = r.step /\ u.thread = r.thread
    BY <2>2 DEF WalksOn, Stays
  <2>4. EndingRun(q, u, debug', asked)
    BY <1>3, <1>5, <1>6, <2>2, EndingOn DEF fr
  <2>5. debug'.L = r.thread /\ debug'.base \in DOMAIN q.code \cup {None}
    BY <1>6, <1>7, <2>1, <2>2 DEF ShowsFrame
  <2>6. AskedRun(q, u, debug', engine', singlestep', asked') /\ LeftRun(u, TRUE, debug', engine', singlestep', asked')
    BY <2>3 DEF AskedRun, LeftRun
  <2>7. StepNext(q, u)
    BY <1>4, <1>5, <1>6, <2>3, <2>4, <2>5, <2>6 DEF StepNext
  <2>8. BelowOK(r)
    BY <2>5 DEF BelowOK
  <2> QED BY <1>2, <1>4, <2>2, <2>3, <2>7, <2>8, StepRetop DEF r
<1>9. CASE \E u, m : /\ Push(q, first, u, m) /\ WalksOn(r, u) /\ u.level = r.level /\ u.found = r.found
                     /\ Begins(m, q.getter) /\ m.kind = "resume" /\ m.thread # debug.L
                     /\ q.getter # None /\ UNCHANGED debug
  <2>1. PICK u, m : /\ Push(q, first, u, m) /\ WalksOn(r, u) /\ u.level = r.level /\ u.found = r.found
                    /\ Begins(m, q.getter) /\ m.kind = "resume" /\ m.thread # debug.L
                    /\ q.getter # None /\ UNCHANGED debug
    BY <1>9
  <2>2. Silent(silent, m, debug)
    BY <1>1, <2>1, GetterSilent
  <2>3. PICK z : z = runs'[first] /\ Len(z) = n + 1 /\ (\A i \in 1..(n - 1) : z[i] = s[i]) /\ z[n] = u /\ z[n + 1] = m
    BY <2>1 DEF Push
  <2>4. \A i \in 1..(n - 1) : /\ AskedRun(q, s[i], debug, engine, singlestep, asked)
                              /\ LeftRun(s[i], FALSE, debug, engine, singlestep, asked)
    BY <1>2, AskBelow
  <2>5. \A i \in 1..(n - 1) : s[i].at = "wait"
    BY DEF Alone
  <2>6. /\ AskedRun(q, m, debug, engine, singlestep, asked) /\ EndingRun(q, m, debug, asked)
        /\ LeftRun(m, TRUE, debug, engine, singlestep, asked) /\ m.at # "walk"
    <3>1. /\ AskedRun(q, m, debug, engine, singlestep, asked) /\ EndingRun(q, m, debug, asked)
          /\ LeftRun(m, TRUE, debug, engine, singlestep, asked) /\ m.at \notin {"walk", "debug"}
      BY <2>2, SilentRun
    <3> QED BY <3>1
  <2>7. u.at = "walk" /\ u.step = r.step /\ u.thread = r.thread
    BY <2>1 DEF WalksOn, Stays
  <2>8. EndingRun(q, u, debug, asked)
    BY <1>5, <1>6, <2>1, WalksSame
  <2>9. AskedRun(q, u, debug, engine, singlestep, asked) /\ LeftRun(u, FALSE, debug, engine, singlestep, asked)
    BY <2>7 DEF AskedRun, LeftRun
  <2> HIDE DEF s, n, r
  <2>10. \A i \in 1..(n + 1) : i \in 1..(n - 1) \/ i = n \/ i = n + 1
    BY <1>3
  <2>11. ASSUME NEW i \in 1..(n + 1)
         PROVE  /\ AskedRun(q, z[i], debug, engine, singlestep, asked)
                /\ EndingRun(q, z[i], debug, asked)
                /\ LeftRun(z[i], i = n + 1, debug, engine, singlestep, asked)
                /\ z[i].at = "walk" /\ z[i].step => singlestep = {}
    <3>1. CASE i \in 1..(n - 1)
      <4>1. (i = n + 1) = FALSE
        BY <1>3, <3>1
      <4>2. EndingRun(q, s[i], debug, asked) /\ s[i].at # "walk"
        BY <2>5, <3>1 DEF EndingRun
      <4> QED BY <2>3, <2>4, <3>1, <4>1, <4>2
    <3>2. CASE i = n
      <4>1. (i = n + 1) = FALSE
        BY <1>3, <3>2
      <4> QED BY <1>5, <1>6, <2>3, <2>7, <2>8, <2>9, <3>2, <4>1
    <3>3. CASE i = n + 1
      BY <2>3, <2>6, <3>3
    <3> QED BY <2>10, <3>1, <3>2, <3>3
  <2>12. n \in 1..(n + 1) /\ \A i \in 1..n : i \in 1..(n + 1) /\ \A j \in 1..(i - 1) : j \in 1..(n - 1)
    BY <1>3
  <2>13. \A i \in 1..n : z[i].thread = s[i].thread
    BY <1>3, <2>3, <2>7, <2>10, <2>12
  <2>14. asked # None => \E i \in 1..(n + 1) : z[i].thread = asked.thread /\ \A j \in 1..(i - 1) : z[j].at # "walk"
    <3>1. \A j \in 1..(n - 1) : z[j].at # "walk"
      BY <2>3, <2>5
    <3> QED BY <1>6, <2>12, <2>13, <3>1
  <2>15. \E i \in 1..(n + 1) : z[i].at \in {"walk", "debug"}
    BY <2>3, <2>7, <2>12
  <2>16. StepOf(q, z, debug, engine, singlestep, asked)
    BY <1>6, <2>3, <2>11, <2>14, <2>15 DEF StepOf
  <2>17. debug' = debug /\ engine' = engine /\ singlestep' = singlestep /\ asked' = asked
    BY <1>4, <2>1
  <2>18. StepOf(q, z, debug', engine', singlestep', asked')
    BY <2>16, <2>17
  <2> QED BY <1>2, <1>4, <2>3, <2>18 DEF StepInv
<1> QED BY <1>5, <1>8, <1>9
\* What the walk found, at its end.
LEMMA WalkedFacts ==
  ASSUME NEW q, NEW meta, NEW t, NEW ld, NEW r, RunOK(q, meta, r, t, ld), r.at = "walk", r.level = Len(r.frames),
         EndingRun(q, r, debug, asked)
  PROVE  /\ left_base(r) => asked = None
         /\ ~left_base(r) => InBase(r.frames, debug) /\ (r.step => asked # None) /\ (~r.step => Last(r.frames).f = debug.base)
<1> DEFINE F == r.frames
           n == Len(F)
<1>1. n \in Nat /\ n >= 1 /\ Last(F) = F[n]
  <2>1. F \in Seq(FrameType(q)) /\ FramesOK(q, meta, F)
    BY DEF RunOK, RunType
  <2> QED BY <2>1, FrameFacts
<1>2. r.found \in BOOLEAN /\ r.step \in BOOLEAN
  BY DEF RunOK, RunType
<1>3. ASSUME r.step, ~r.found PROVE asked = None
  <2>1. \A k \in 1..n : F[n - k + 1].f # debug.base
    BY <1>3 DEF EndingRun
  <2>2. ASSUME NEW i \in 1..n PROVE F[i].f # debug.base
    <3>1. n - i + 1 \in 1..n /\ n - (n - i + 1) + 1 = i
      BY <1>1
    <3> QED BY <2>1, <3>1
  <2>3. ~InBase(F, debug)
    BY <2>2 DEF InBase
  <2> QED BY <1>3, <2>3 DEF EndingRun
<1>4. ASSUME r.step, r.found PROVE InBase(F, debug) /\ asked # None
  BY <1>4 DEF EndingRun
<1>5. ASSUME ~r.step PROVE InBase(F, debug) /\ Last(F).f = debug.base
  <2>1. Last(F).f = debug.base
    BY <1>1, <1>5 DEF EndingRun
  <2>2. n \in 1..n
    BY <1>1
  <2> QED BY <1>1, <2>1, <2>2 DEF InBase
<1> QED BY <1>2, <1>3, <1>4, <1>5 DEF left_base

\* The walk is over.
LEMMA StepEnds ==
  ASSUME NEW first \in OSThreads, NEW silent, NEW meta, ShapeInv(meta), StopInv(first, silent), StepInv(first),
         Alone(first), WalkEnds(first)
  PROVE  StepInv(first)'
<1> DEFINE q == Programs[program]
           r == Top(first)
<1> HIDE DEF q
<1>1. q = Programs[program]
  BY DEF q
<1>2. RunOK(q, meta, r, now, loaded) /\ ShownRun(q, r, debug)
  BY <1>1, AloneFacts
<1>3. UNCHANGED <<program, singlestep, engine, asked>> /\ r.at = "walk"
  BY DEF WalkEnds, At
<1>4. ~InC(r) /\ debug.L = r.thread
  BY <1>2, <1>3 DEF ShownRun
<1>5. /\ r.level = Len(r.frames)
      /\ debug' = [debug EXCEPT !.depth = Len(r.frames)]
      /\ \E u : /\ Retop(q, first, u) /\ Stays(r, u)
                /\ left_base(r) => u.at = "break" /\ ~u.step
                /\ ~left_base(r) => u.at = "debug" /\ u.step = r.step
  BY <1>1, <1>4, WalkEndsEffect
<1>6. debug'.L = debug.L /\ debug'.base = debug.base
  <2>1. DOMAIN debug = {"L", "error", "shown", "depth", "base"}
    BY DEF ShapeInv
  <2> QED BY <1>5, <2>1
<1>7. /\ asked \in AskType \cup {None} /\ debug.base \in DOMAIN q.code \cup {None}
      /\ EndingRun(q, r, debug, asked)
      /\ r.at = "walk" /\ r.step => singlestep = {}
  BY <1>1, AskFacts
<1>8. /\ left_base(r) => asked = None
      /\ ~left_base(r) => InBase(r.frames, debug) /\ (r.step => asked # None) /\ (~r.step => Last(r.frames).f = debug.base)
  BY <1>2, <1>3, <1>5, <1>7, WalkedFacts
<1>9. PICK u : /\ Retop(q, first, u) /\ Stays(r, u)
               /\ left_base(r) => u.at = "break" /\ ~u.step
               /\ ~left_base(r) => u.at = "debug" /\ u.step = r.step
  BY <1>5
<1>10. u.thread = r.thread /\ u.frames = r.frames
  BY <1>9 DEF Stays
<1>11. BelowOK(r)
  BY <1>4, <1>6 DEF BelowOK
<1> HIDE DEF r
<1>12. CASE left_base(r)
  <2>1. r.step /\ singlestep = {} /\ asked = None /\ u.at = "break"
    BY <1>3, <1>7, <1>8, <1>9, <1>12 DEF left_base
  <2>2. /\ AskedRun(q, u, debug', engine', singlestep', asked') /\ LeftRun(u, TRUE, debug', engine', singlestep', asked')
        /\ EndingRun(q, u, debug', asked')
    BY <1>3, <2>1 DEF AskedRun, LeftRun, EndingRun
  <2>3. StepNext(q, u)
    BY <1>3, <1>6, <1>7, <2>1, <2>2 DEF StepNext
  <2> QED BY <1>1, <1>3, <1>9, <1>10, <1>11, <2>3, StepRetop DEF r
<1>13. CASE ~left_base(r)
  <2>1. u.at = "debug" /\ u.step = r.step
    BY <1>9, <1>13
  <2>2. InBase(u.frames, debug')
    BY <1>6, <1>8, <1>10, <1>13 DEF InBase
  <2>3. u.step /\ asked # None => /\ asked.thread = u.thread
                                  /\ Len(u.frames) # asked.depth \/ Ins(q, Last(u.frames)).line # asked.line
                                  /\ asked.over => Len(u.frames) <= asked.depth
    BY <1>3, <1>7, <1>10, <2>1 DEF EndingRun
  <2>4. (u.step => asked # None) /\ (~u.step => Last(u.frames).f = debug'.base)
    BY <1>6, <1>8, <1>10, <1>13, <2>1
  <2>5. EndingRun(q, u, debug', asked)
    BY <2>1, <2>2, <2>3, <2>4 DEF EndingRun
  <2>6. AskedRun(q, u, debug', engine', singlestep', asked') /\ LeftRun(u, TRUE, debug', engine', singlestep', asked')
    BY <2>1 DEF AskedRun, LeftRun
  <2>7. StepNext(q, u)
    BY <1>3, <1>6, <1>7, <2>1, <2>5, <2>6 DEF StepNext
  <2> QED BY <1>1, <1>3, <1>9, <1>10, <1>11, <2>7, StepRetop DEF r
<1> QED BY <1>12, <1>13

\* The user asked for a step, or for none.
Asks(q, r, c) ==
  /\ c \in q.commands /\ engine' = Commands[c]
  /\ singlestep' = IF c = "continue" THEN singlestep ELSE singlestep \cup {r.thread}
  /\ asked' = IF c = "continue" THEN None
              ELSE [thread |-> r.thread, depth |-> Len(r.frames), line |-> Ins(q, Last(r.frames)).line, over |-> c = "next"]

LEMMA StepAsked ==
  ASSUME NEW q, q = Programs[program], IsProgram(q), NEW meta, ShapeInv(meta), NEW r, RunOK(q, meta, r, now, loaded),
         ShownRun(q, r, debug), r.at = "debug", r.error = None, EndingRun(q, r, debug, asked),
         singlestep \subseteq {debug.L}, debug.base \in DOMAIN q.code \cup {None},
         NEW c, Asks(q, r, c), UNCHANGED debug, NEW u, Stays(r, u), u.at = "step"
  PROVE  StepNext(q, u) /\ (asked' # None => asked'.thread = r.thread)
<1> DEFINE n == Len(r.frames)
           line == Ins(q, Last(r.frames)).line
<1>1. n \in Nat /\ n >= 1 /\ Last(r.frames) = r.frames[n] /\ line \in Int /\ r.thread \in Threads
  <2>1. r.thread \in Threads
    BY DEF RunOK, RunType
  <2>2. n \in Nat /\ n >= 1 /\ Last(r.frames) = r.frames[n] /\ line \in Int
    BY InsFacts
  <2> QED BY <2>1, <2>2
<1>2. u.thread = r.thread /\ u.frames = r.frames
  BY DEF Stays
<1>3. debug.L = r.thread /\ debug.depth = n /\ Len(debug.shown) = n
      /\ \A k \in 1..n : debug.shown[k] = [f |-> r.frames[n - k + 1].f, line |-> Ins(q, r.frames[n - k + 1]).line]
  BY DEF ShownRun, Shows
<1>4. debug.shown[1].line = line
  <2>1. 1 \in 1..n /\ n - 1 + 1 = n
    BY <1>1
  <2> HIDE DEF n, line
  <2>2. debug.shown[1] = [f |-> r.frames[n - 1 + 1].f, line |-> Ins(q, r.frames[n - 1 + 1]).line]
    BY <1>3, <2>1, Zenon
  <2> QED BY <1>1, <2>1, <2>2 DEF line
<1>5. /\ engine' = Commands[c]
      /\ singlestep' = IF c = "continue" THEN singlestep ELSE singlestep \cup {r.thread}
      /\ asked' = IF c = "continue" THEN None
                  ELSE [thread |-> r.thread, depth |-> n, line |-> line, over |-> c = "next"]
  BY DEF Asks
<1>6. c \in {"continue", "step", "next"}
  <2>1. PICK p \in DOMAIN Programs : q = Programs[p]
    BY DEF IsProgram
  <2>2. Programs[p].commands \subseteq {"continue", "step", "next"}
    BY ProgramAssumption
  <2> QED BY <2>1, <2>2 DEF Asks
<1>7. EndingRun(q, u, debug, asked')
  BY DEF EndingRun
<1>8. debug' = debug
  OBVIOUS
<1>9. CASE c = "continue"
  <2>1. asked' = None /\ engine'.lines_left = -1
    BY <1>9, <1>5 DEF Commands
  <2>2. AskedRun(q, u, debug, engine', singlestep', asked') /\ LeftRun(u, TRUE, debug, engine', singlestep', asked')
    BY <2>1 DEF AskedRun, LeftRun
  <2> QED BY <1>7, <1>8, <2>1, <2>2 DEF StepNext
<1>10. CASE c # "continue"
  <2>1. PICK a : a = [thread |-> r.thread, depth |-> n, line |-> line, over |-> c = "next"]
    OBVIOUS
  <2>2. asked' = a /\ singlestep' = {debug.L}
    BY <1>3, <1>10, <1>5, <2>1
  <2>3. a \in AskType
    BY <1>1, <2>1 DEF AskType
  <2>4. a.thread = r.thread /\ a.depth = n /\ a.line = line /\ a.over = (c = "next")
    BY <2>1
  <2>5. a # None
    BY <2>3, NoneAssumption DEF AskType
  <2>6. engine'.lines_left = 1 /\ (engine'.depth >= 0 <=> c = "next")
    BY <1>6, <1>10, <1>5 DEF Commands
  <2>7. \E k \in 1..n : k <= n /\ r.frames[k].f = debug.base
    BY <1>1 DEF EndingRun, InBase
  <2> HIDE DEF n, line
  <2>8. AskedRun(q, u, debug, engine', singlestep', a)
    <3>1. engine'.depth >= 0 <=> a.over
      BY <2>4, <2>6
    <3>2. debug.depth = a.depth /\ Len(debug.shown) >= 1 /\ debug.shown[1].line = a.line
      BY <1>1, <1>3, <1>4, <2>4
    <3>3. \E k \in 1..Len(u.frames) : k <= a.depth /\ u.frames[k].f = debug.base
      BY <1>2, <2>4, <2>7 DEF n
    <3> QED BY <2>2, <2>6, <3>1, <3>2, <3>3 DEF AskedRun
  <2>9. LeftRun(u, TRUE, debug, engine', singlestep', a)
    BY <2>5 DEF LeftRun
  <2>10. a.thread = debug.L /\ u.at # "walk"
    BY <1>3, <2>4
  <2> QED BY <1>7, <1>8, <2>2, <2>3, <2>4, <2>8, <2>9, <2>10 DEF StepNext
<1> QED BY <1>9, <1>10

\* The user has looked at the thread.
LEMMA StepLooked ==
  ASSUME NEW first \in OSThreads, NEW silent, NEW meta, ShapeInv(meta), StopInv(first, silent), StepInv(first),
         Alone(first), DebugEnds(first)
  PROVE  StepInv(first)'
<1> DEFINE q == Programs[program]
           r == Top(first)
           s == runs[first]
           n == Len(s)
<1>1. IsProgram(q)
  BY ShapeFacts
<1> HIDE DEF q
<1>2. q = Programs[program]
  BY DEF q
<1>3. /\ RunOK(q, meta, r, now, loaded) /\ ShownRun(q, r, debug) /\ n \in Nat /\ n >= 1 /\ r = s[n]
      /\ \A i \in 1..(n - 1) : i \in 1..n /\ s[i].at = "wait" /\ s[i].thread # r.thread
  BY <1>2, AloneFacts
<1>4. r.at = "debug" /\ OnlyOf(first) /\ (Resumes(q, meta, first) \/ Unwinds(q, meta, first))
  BY <1>2, DebugEndsEffect
<1>5. /\ asked \in AskType \cup {None} /\ debug.base \in DOMAIN q.code \cup {None}
      /\ EndingRun(q, r, debug, asked)
  BY <1>2, AskFacts
<1>6. UNCHANGED <<program, debug>>
  BY DEF DebugEnds
<1>7. PICK c \in q.commands :
        /\ engine' = Commands[c]
        /\ singlestep' = IF c = "continue" THEN singlestep ELSE singlestep \cup {r.thread}
        /\ asked' = IF c = "continue" \/ r.error # None THEN None
                    ELSE [thread |-> r.thread, depth |-> Len(r.frames), line |-> Ins(q, Last(r.frames)).line, over |-> c = "next"]
  BY DEF DebugEnds, q, Depth, Line, Here, Instr, Code, Ins
<1>8. debug.L = r.thread /\ debug' = debug
  BY <1>3, <1>4, <1>6 DEF ShownRun
<1>9. singlestep \subseteq {debug.L}
  BY <1>2, SingleFacts
<1>10. PICK z : z = runs'[first]
  OBVIOUS
<1>11. ASSUME NEW x, x.at = "wait", x.thread # r.thread
       PROVE  x.at = "wait" /\ AskedRun(q, x, debug', engine', singlestep', asked')
              /\ LeftRun(x, FALSE, debug', engine', singlestep', asked')
  BY <1>8, <1>11 DEF AskedRun, LeftRun
<1> HIDE DEF r, s, n
<1>12. CASE Resumes(q, meta, first)
  <2> DEFINE u == z[n]
             k == n - 1
  <2>1. /\ r.error = None /\ Len(z) = n /\ \A i \in 1..(n - 1) : Alike(s[i], z[i])
        /\ u.at = "step" /\ Stays(r, u)
    BY <1>3, <1>10, <1>12 DEF Resumes, Halts, s, n, r
  <2>2. u.thread = r.thread
    BY <2>1 DEF Stays
  <2>3. Asks(q, r, c)
    BY <1>7, <2>1 DEF Asks
  <2> HIDE DEF u
  <2>4. StepNext(q, u) /\ (asked' # None => asked'.thread = r.thread)
    BY <1>1, <1>2, <1>3, <1>4, <1>5, <1>6, <1>9, <2>1, <2>3, StepAsked
  <2>5. k \in Nat /\ k + 1 = n /\ n \in 1..(k + 1)
    BY <1>3
  <2>6. ASSUME NEW i \in 1..k
        PROVE  z[i].at = "wait" /\ AskedRun(q, z[i], debug', engine', singlestep', asked')
               /\ LeftRun(z[i], FALSE, debug', engine', singlestep', asked')
    <3>1. z[i].at = "wait" /\ z[i].thread # r.thread
      BY <1>3, <2>1 DEF Alike, Halts, Stays
    <3> QED BY <1>11, <3>1
  <2>7. asked' # None => \E i \in 1..(k + 1) : z[i].thread = asked'.thread
    BY <2>2, <2>4, <2>5 DEF u
  <2>8. z[k + 1] = u /\ Len(z) = k + 1
    BY <2>1, <2>5 DEF u
  <2> HIDE DEF k
  <2> QED BY <1>2, <1>6, <1>10, <2>4, <2>5, <2>6, <2>7, <2>8, StepTop
<1>13. CASE Unwinds(q, meta, first)
  <2>1. /\ r.error # None /\ Len(z) = n - 1 /\ \A i \in 1..(n - 2) : Alike(s[i], z[i])
        /\ n >= 2 /\ s[n - 1].at = "wait" => Wakes(s[n - 1], s[n], z[n - 1])
    BY <1>10, <1>13 DEF Unwinds, s, n, r
  <2>2. asked' = None
    BY <1>7, <2>1
  <2>3. n = 1 \/ n >= 2
    BY ONLY <1>3
  <2>4. CASE n = 1
    <3>1. Len(z) = 0
      BY ONLY <2>1, <2>4
    <3> QED BY <1>2, <1>5, <1>6, <1>8, <1>10, <2>2, <3>1, StepNone
  <2>5. CASE n >= 2
    <3> DEFINE u == z[n - 1]
               k == n - 2
    <3>1. k \in Nat /\ k + 1 = n - 1 /\ n - 1 \in 1..(n - 1) /\ \A i \in 1..k : i \in 1..(n - 1)
      BY ONLY <1>3, <2>5
    <3>2. u.at \in {"step", "dead"} /\ u.thread # r.thread
      BY <1>3, <2>1, <2>5, <3>1 DEF Wakes, GoesOn, Ends, Halts, Stays
    <3>3. ASSUME NEW i \in 1..k
          PROVE  z[i].at = "wait" /\ AskedRun(q, z[i], debug', engine', singlestep', asked')
                 /\ LeftRun(z[i], FALSE, debug', engine', singlestep', asked')
      <4>1. z[i].at = "wait" /\ z[i].thread # r.thread
        BY <1>3, <2>1, <3>1 DEF Alike, Halts, Stays
      <4> QED BY <1>11, <4>1
    <3>4. StepNext(q, u)
      <4>1. AskedRun(q, u, debug', engine', singlestep', asked') /\ LeftRun(u, TRUE, debug', engine', singlestep', asked')
            /\ EndingRun(q, u, debug', asked')
        BY <1>8, <2>2, <3>2 DEF AskedRun, LeftRun, EndingRun
      <4> QED BY <1>5, <1>8, <2>2, <3>2, <4>1 DEF StepNext
    <3>5. z[k + 1] = u /\ Len(z) = k + 1
      BY <2>1, <3>1
    <3> HIDE DEF k, u
    <3> QED BY <1>2, <1>6, <1>10, <2>2, <3>1, <3>3, <3>4, <3>5, StepTop
  <2> QED BY <2>3, <2>4, <2>5
<1> QED BY <1>4, <1>12, <1>13

\* The OS thread begins.
LEMMA StepBegins ==
  ASSUME NEW first \in OSThreads, NEW silent, NEW meta, ShapeInv(meta), StopInv(first, silent), StepInv(first), Start(first)
  PROVE  StepInv(first)'
<1> DEFINE q == Programs[program]
<1> HIDE DEF q
<1>1. q = Programs[program]
  BY DEF q
<1>2. /\ runs[first] = << >>
      /\ \E m : runs' = [runs EXCEPT ![first] = <<m>>] /\ m.at = "step" /\ m.thread # debug.L
  <2>1. /\ runs[first] = << >>
        /\ \E e \in q.entries[first] : \E n : runs' = [runs EXCEPT ![first] = <<n>>] /\ Begins(n, e.f) /\ n.thread # debug.L
    BY <1>1, StartEffect
  <2> QED BY <2>1 DEF Begins
<1>3. UNCHANGED <<program, singlestep, debug, engine, asked>>
  BY DEF Start
<1>4. PICK m : runs' = [runs EXCEPT ![first] = <<m>>] /\ m.at = "step" /\ m.thread # debug.L
  BY <1>2
<1>5. PICK z : z = <<m>>
  OBVIOUS
<1>6. z = runs'[first] /\ Len(z) = 0 + 1 /\ z[0 + 1] = m
  BY <1>4, <1>5 DEF ShapeInv
<1>7. StepOf(q, runs[first], debug, engine, singlestep, asked)
  BY <1>1 DEF StepInv
<1>8. asked = None /\ debug.base \in DOMAIN q.code \cup {None}
  <2>1. \A i \in 1..Len(runs[first]) : FALSE
    BY <1>2
  <2> QED BY <1>7, <2>1 DEF StepOf
<1>9. debug' = debug /\ asked' = None
  BY <1>3, <1>8
<1>10. StepNext(q, m)
  <2>1. AskedRun(q, m, debug', engine', singlestep', asked') /\ LeftRun(m, TRUE, debug', engine', singlestep', asked')
        /\ EndingRun(q, m, debug', asked')
    BY <1>4, <1>9 DEF AskedRun, LeftRun, EndingRun
  <2> QED BY <1>4, <1>8, <1>9, <2>1 DEF StepNext
<1>11. /\ 0 \in Nat
       /\ \A i \in 1..0 : /\ z[i].at = "wait" /\ AskedRun(q, z[i], debug', engine', singlestep', asked')
                          /\ LeftRun(z[i], FALSE, debug', engine', singlestep', asked')
  OBVIOUS
<1> QED BY <1>1, <1>3, <1>6, <1>9, <1>10, <1>11, StepTop
LEMMA StepKept ==
  ASSUME NEW first \in OSThreads, NEW silent, NEW meta, Discipline(Programs[program], first, silent, meta),
         ShapeInv(meta), StopInv(first, silent), StepInv(first), Next
  PROVE  StepInv(first)'
<1>1. CASE Tick
  BY <1>1 DEF Tick, StepInv
<1>2. CASE \E v \in VMs : ref_thread(v)
  BY <1>2 DEF ref_thread, StepInv
<1>3. ASSUME NEW o \in OSThreads, Step(o) PROVE StepInv(first)'
  <2>1. CASE Quiet(o, first)
    <3>1. /\ QuietRuns(first, silent, o)
          /\ UNCHANGED <<program, singlestep, debug, engine>>
          /\ asked' # asked => Busy(o) /\ asked # None /\ asked' = None /\ asked.thread = Top(o).thread
      BY <1>3, <2>1, QuietEffect
    <3>2. o = first => Busy(o)
      <4> SUFFICES ASSUME o = first, ~Busy(o) PROVE FALSE
        OBVIOUS
      <4>1. \A i \in 1..(Len(<< >>) - 1) : FALSE
        OBVIOUS
      <4> QED BY <2>1, <4>1 DEF Busy, Quiet
    <3>3. PICK q : q = Programs[program]
      OBVIOUS
    <3> QED BY <2>1, <3>1, <3>2, <3>3, QuietStep
  <2>2. CASE ~Quiet(o, first) /\ ~Busy(first)
    BY <1>3, <2>2, QuietOrAlone, Starts, StepBegins
  <2>3. CASE ~Quiet(o, first) /\ Busy(first)
    <3>1. o = first /\ Alone(first)
      BY <2>3, QuietOrAlone
    <3>2. ~Start(first)
      BY <2>3 DEF Start
    <3>3. \/ lua_debugstep(first) \/ lua_debugbreak(first) \/ NoBreakpoint(first) \/ Exec(first)
          \/ WalkLevel(first) \/ WalkEnds(first) \/ DebugEnds(first) \/ HandleError(first)
      BY <1>3, <3>1, <3>2 DEF Step
    <3> QED BY <3>1, <3>3, StepHooks, StepExec, StepWalk, StepEnds, StepLooked, StepError
  <2> QED BY <2>1, <2>2, <2>3
<1> QED BY <1>1, <1>2, <1>3 DEF Next

----------------------------------------------------------------------------
(* The invariant holds, and says what the properties say.                      *)

LEMMA InitDebug ==
  ASSUME \A p \in DOMAIN Programs : Disciplined(Programs[p]), Init
  PROVE  DebugInv
<1> DEFINE q == Programs[program]
<1>1. PICK first \in OSThreads, silent \in [Kinds -> SUBSET DOMAIN q.code], meta \in SUBSET DOMAIN q.code :
        Discipline(q, first, silent, meta)
  BY DEF Init, Disciplined
<1>2. \A o \in OSThreads : runs[o] = << >>
  BY DEF Init
<1>3. \A o \in OSThreads : \A i \in 1..Len(runs[o]) : FALSE
  <2>1. \A i \in 1..Len(<< >>) : FALSE
    OBVIOUS
  <2> QED BY <1>2, <2>1
<1>4. ShapeInv(meta)
  <2>1. \A o \in OSThreads : StackOK(q, meta, runs[o], now, loaded)
    <3> SUFFICES ASSUME NEW o \in OSThreads PROVE StackOK(q, meta, << >>, now, loaded)
      BY <1>2
    <3>1. << >> \in Seq(RunType(q)) /\ (\A i \in 1..Len(<< >>) : FALSE) /\ \A i \in 1..(Len(<< >>) - 1) : FALSE
      <4>1. \A T : << >> \in Seq(T)
        OBVIOUS
      <4>2. Len(<< >>) = 0
        OBVIOUS
      <4> QED BY <4>1, <4>2
    <3> QED BY <3>1 DEF StackOK
  <2>2. Apart(runs)
    BY <1>3 DEF Apart
  <2>3. now = 1 /\ now \in 1..MaxTime /\ interrupt_reset \in 0..(MaxTime + Timeout)
    BY TimeAssumption DEF Init
  <2>4. DOMAIN runs = OSThreads /\ DOMAIN armed = VMs /\ (\A v \in VMs : armed[v] \subseteq breakpoints)
        /\ breakhits \in [VMs -> {0, 1}] /\ loaded \subseteq VMs /\ (\A l \in breakpoints : BreakLine(q, l))
    BY DEF Init
  <2>5. /\ debug.L \in Threads \cup {None} /\ DOMAIN debug = {"L", "error", "shown", "depth", "base"} /\ debug.depth \in Int
        /\ debugging \in BOOLEAN /\ engine \in [lines_left : {-1, 0, 1}, depth : Int]
    <3>1. debug = [L |-> None, error |-> None, shown |-> << >>, depth |-> -1, base |-> None]
      BY DEF Init, NoDebug
    <3>2. engine = [lines_left |-> -1, depth |-> -1] /\ debugging = FALSE
      BY DEF Init
    <3>3. engine \in [lines_left : {-1, 0, 1}, depth : Int]
      BY <3>2
    <3> QED BY <3>1, <3>2, <3>3
  <2>6. program \in DOMAIN Programs
    BY DEF Init
  <2> QED BY <2>1, <2>2, <2>3, <2>4, <2>5, <2>6 DEF ShapeInv
<1>5. StopInv(first, silent)
  <2>1. HookInv(runs[first], breakhits)
    BY DEF Init, HookInv
  <2>2. debugging = FALSE /\ singlestep = {}
    BY DEF Init
  <2> QED BY <1>3, <2>1, <2>2 DEF StopInv, StopOf
<1>6. StepInv(first)
  <2>1. asked = None /\ debug.base = None
    BY DEF Init, NoDebug
  <2> QED BY <1>3, <2>1 DEF StepInv, StepOf
<1> QED BY <1>1, <1>4, <1>5, <1>6 DEF DebugInv

LEMMA DebugKept ==
  ASSUME DebugInv, [Next]_vars
  PROVE  DebugInv'
<1> DEFINE q == Programs[program]
<1>1. PICK first \in OSThreads, silent \in [Kinds -> SUBSET DOMAIN q.code], meta \in SUBSET DOMAIN q.code :
        Discipline(q, first, silent, meta) /\ ShapeInv(meta) /\ StopInv(first, silent) /\ StepInv(first)
  BY DEF DebugInv
<1>2. CASE Next
  <2>1. program' = program
    BY <1>2 DEF Next, Tick, ref_thread, Step, Start, lua_debugstep, lua_debugbreak, NoBreakpoint, Exec, WalkLevel, WalkEnds,
                DebugEnds, HandleError
  <2>2. ShapeInv(meta)' /\ StopInv(first, silent)' /\ StepInv(first)'
    BY <1>1, <1>2, ShapeKept, StopKept, StepKept
  <2> QED BY <1>1, <2>1, <2>2 DEF DebugInv
<1>3. CASE UNCHANGED vars
  <2>1. ShapeInv(meta)' /\ StopInv(first, silent)' /\ StepInv(first)'
    BY <1>1, <1>3 DEF vars, ShapeInv, StopInv, StepInv
  <2>2. program' = program
    BY <1>3 DEF vars
  <2> QED BY <1>1, <2>1, <2>2 DEF DebugInv
<1> QED BY <1>2, <1>3
\* What DebugInv says, of the program and the innermost threads.
LEMMA DebugFacts ==
  ASSUME DebugInv
  PROVE  \E first \in OSThreads : \E silent, meta :
           /\ ShapeInv(meta) /\ StopInv(first, silent) /\ StepInv(first)
           /\ StacksOK(Programs[program], meta, runs, now, loaded)
           /\ \A o \in OSThreads : Busy(o) =>
                /\ Top(o) = runs[o][Len(runs[o])] /\ Len(runs[o]) \in 1..Len(runs[o])
                /\ RunOK(Programs[program], meta, Top(o), now, loaded)
                /\ o # first => Silent(silent, Top(o), debug)
                /\ o = first => /\ ShownRun(Programs[program], Top(o), debug)
                                /\ HookRun(Programs[program], Top(o), armed, breakhits)
                                /\ EndingRun(Programs[program], Top(o), debug, asked)
                                /\ AskedRun(Programs[program], Top(o), debug, engine, singlestep, asked)
                                /\ debugging <=> Top(o).at = "debug"
<1> DEFINE q == Programs[program]
<1>1. PICK first \in OSThreads, silent \in [Kinds -> SUBSET DOMAIN q.code], meta \in SUBSET DOMAIN q.code :
        ShapeInv(meta) /\ StopInv(first, silent) /\ StepInv(first)
  BY DEF DebugInv
<1>2. StacksOK(q, meta, runs, now, loaded)
  BY <1>1, ShapeFacts
<1> HIDE DEF q
<1>3. q = Programs[program]
  BY DEF q
<1>4. ASSUME NEW o \in OSThreads, Busy(o)
      PROVE  /\ Top(o) = runs[o][Len(runs[o])] /\ Len(runs[o]) \in 1..Len(runs[o])
             /\ RunOK(q, meta, Top(o), now, loaded)
             /\ o # first => Silent(silent, Top(o), debug)
             /\ o = first => /\ ShownRun(q, Top(o), debug)
                             /\ HookRun(q, Top(o), armed, breakhits)
                             /\ EndingRun(q, Top(o), debug, asked)
                             /\ AskedRun(q, Top(o), debug, engine, singlestep, asked)
                             /\ debugging <=> Top(o).at = "debug"
  <2>1. Top(o) = runs[o][Len(runs[o])] /\ Len(runs[o]) \in 1..Len(runs[o]) /\ RunOK(q, meta, Top(o), now, loaded)
    BY <1>2, <1>3, <1>4, TopFacts
  <2>2. StopOf(q, first, silent, runs, debug, armed, breakhits, debugging, singlestep)
    BY <1>1, <1>3 DEF StopInv
  <2>3. StepOf(q, runs[first], debug, engine, singlestep, asked)
    BY <1>1, <1>3 DEF StepInv
  <2>4. o # first => Silent(silent, Top(o), debug)
    BY <2>1, <2>2 DEF StopOf
  <2>5. o = first => ShownRun(q, Top(o), debug) /\ HookRun(q, Top(o), armed, breakhits) /\ (debugging <=> Top(o).at = "debug")
    BY <2>1, <2>2 DEF StopOf
  <2>6. o = first => EndingRun(q, Top(o), debug, asked) /\ AskedRun(q, Top(o), debug, engine, singlestep, asked)
    BY <2>1, <2>3 DEF StepOf
  <2> QED BY <2>1, <2>4, <2>5, <2>6
<1> QED BY <1>1, <1>2, <1>3, <1>4

LEMMA DebugTypeOK ==
  ASSUME DebugInv
  PROVE  TypeOK
<1> DEFINE q == Programs[program]
<1>1. PICK first \in OSThreads, silent \in [Kinds -> SUBSET DOMAIN q.code], meta \in SUBSET DOMAIN q.code :
        ShapeInv(meta) /\ StopInv(first, silent) /\ StepInv(first)
  BY DEF DebugInv
<1>2. StacksOK(q, meta, runs, now, loaded)
  BY <1>1, ShapeFacts
<1>3. now \in 1..MaxTime
  BY <1>1 DEF ShapeInv
<1>4. ASSUME NEW o \in OSThreads, NEW r \in ToSet(runs[o])
      PROVE  /\ r.thread \in Threads /\ r.vm \in loaded /\ r.kind \in {"resume", "coroutine"}
             /\ r.at \in {"step", "break", "exec", "wait", "walk", "debug", "dead"}
             /\ r.deadline \in 0..(MaxTime + Timeout) /\ r.level \in 0..Depth(r) /\ r.stops \in Nat
  <2>1. runs[o] \in Seq(RunType(q)) /\ \A i \in 1..Len(runs[o]) : RunOK(q, meta, runs[o][i], now, loaded)
    BY <1>2 DEF StacksOK, StackOK
  <2>2. PICK i \in DOMAIN runs[o] : r = runs[o][i]
    BY DEF ToSet
  <2>3. i \in 1..Len(runs[o])
    BY <2>1
  <2>4. RunOK(q, meta, r, now, loaded)
    BY <2>1, <2>2, <2>3
  <2>5. /\ r.thread \in Threads /\ r.kind \in Kinds /\ r.deadline \in Nat /\ r.level \in Nat /\ r.stops \in Nat
        /\ r.at \in {"step", "break", "exec", "wait", "walk", "debug", "dead"} /\ r.frames \in Seq(FrameType(q))
    BY <2>4 DEF RunOK, RunType
  <2>6. Len(r.frames) \in Nat
    BY <2>5
  <2>7. r.deadline \in 0..(MaxTime + Timeout)
    <3>1. r.deadline <= now + Timeout
      BY <2>4 DEF RunOK
    <3> QED BY <1>3, <2>5, <3>1, TimeAssumption
  <2>8. r.level \in 0..Depth(r)
    <3>1. r.level <= Len(r.frames)
      BY <2>4 DEF RunOK
    <3> QED BY <2>5, <2>6, <3>1 DEF Depth
  <2>9. r.vm \in loaded
    BY <2>4 DEF RunOK
  <2> QED BY <2>5, <2>7, <2>8, <2>9 DEF Kinds
<1>5. loaded \subseteq VMs /\ \A v \in VMs : breakhits[v] \in {0, 1} /\ armed[v] \subseteq breakpoints
  BY <1>1 DEF ShapeInv
<1>6. debug.L \in Threads \cup {None} /\ debugging \in BOOLEAN /\ interrupt_reset \in 0..(MaxTime + Timeout)
      /\ engine.lines_left \in {-1, 0, 1} /\ program \in DOMAIN Programs
  BY <1>1 DEF ShapeInv
<1>7. singlestep \subseteq {debug.L}
  BY <1>1 DEF StopInv, StopOf
<1> QED BY <1>3, <1>4, <1>5, <1>6, <1>7 DEF TypeOK

LEMMA DebugBreaksOnce ==
  ASSUME DebugInv
  PROVE  BreaksOnce
<1> DEFINE q == Programs[program]
<1>1. PICK first \in OSThreads : \E silent, meta : \A o \in OSThreads : Busy(o) =>
        /\ RunOK(q, meta, Top(o), now, loaded)
        /\ o # first => Silent(silent, Top(o), debug)
        /\ o = first => HookRun(q, Top(o), armed, breakhits)
  BY DebugFacts
<1>2. PICK silent, meta : \A o \in OSThreads : Busy(o) =>
        /\ RunOK(q, meta, Top(o), now, loaded)
        /\ o # first => Silent(silent, Top(o), debug)
        /\ o = first => HookRun(q, Top(o), armed, breakhits)
  BY <1>1
<1>3. ASSUME NEW o \in OSThreads, Busy(o)
      PROVE  Top(o).stops <= 1 /\ (Top(o).at = "exec" /\ Top(o).hooked => Top(o).stops = 1)
  <2>1. CASE o # first
    BY <1>2, <1>3, <2>1 DEF Silent
  <2>2. CASE o = first
    <3>1. RunOK(q, meta, Top(o), now, loaded) /\ HookRun(q, Top(o), armed, breakhits)
      BY <1>2, <1>3, <2>2
    <3> QED BY <3>1 DEF RunOK, HookRun
  <2> QED BY <2>1, <2>2
<1> QED BY <1>3 DEF BreaksOnce, At

\* The levels shown are those of the stack, innermost first.
LEMMA ShownReverse ==
  ASSUME NEW q, NEW frames \in Seq(FrameType(q)), NEW shown \in Seq([f : DOMAIN q.code, line : Int]),
         Shows(q, shown, frames, Len(frames))
  PROVE  shown = Reverse([i \in DOMAIN frames |-> [f |-> frames[i].f, line |-> Ins(q, frames[i]).line]])
<1> DEFINE n == Len(frames)
           G == [i \in DOMAIN frames |-> [f |-> frames[i].f, line |-> Ins(q, frames[i]).line]]
<1>1. n \in Nat /\ DOMAIN frames = 1..n
  OBVIOUS
<1>2. DOMAIN G = 1..n /\ \A i \in 1..n : G[i] = [f |-> frames[i].f, line |-> Ins(q, frames[i]).line]
  BY <1>1
<1>3. Len(shown) = n /\ \A k \in 1..n : shown[k] = [f |-> frames[n - k + 1].f, line |-> Ins(q, frames[n - k + 1]).line]
  BY DEF Shows
<1>4. shown = [i \in 1..n |-> shown[i]]
  BY <1>3
<1> HIDE DEF G, n
<1>5. Len(G) = n
  <2>1. G = [i \in 1..n |-> G[i]]
    BY <1>2, <1>1 DEF G
  <2>2. [i \in 1..n |-> G[i]] \in Seq({G[i] : i \in 1..n}) /\ Len([i \in 1..n |-> G[i]]) = n
    BY <1>1
  <2> QED BY <2>1, <2>2
<1>6. ASSUME NEW i \in 1..n PROVE shown[i] = G[(n - i) + 1]
  <2>1. (n - i) + 1 \in 1..n
    BY <1>1
  <2> QED BY <1>2, <1>3, <2>1
<1>7. shown = [i \in 1..n |-> G[(n - i) + 1]]
  BY <1>4, <1>6
<1> QED BY <1>5, <1>7 DEF Reverse, G

LEMMA DebugShownTrue ==
  ASSUME DebugInv
  PROVE  ShownTrue
<1> DEFINE q == Programs[program]
<1>1. PICK first \in OSThreads : \E silent, meta :
        /\ StopInv(first, silent)
        /\ \A o \in OSThreads : Busy(o) =>
             /\ RunOK(q, meta, Top(o), now, loaded)
             /\ o # first => Silent(silent, Top(o), debug)
             /\ o = first => ShownRun(q, Top(o), debug) /\ (debugging <=> Top(o).at = "debug")
  BY DebugFacts
<1>2. PICK silent, meta :
        /\ StopInv(first, silent)
        /\ \A o \in OSThreads : Busy(o) =>
             /\ RunOK(q, meta, Top(o), now, loaded)
             /\ o # first => Silent(silent, Top(o), debug)
             /\ o = first => ShownRun(q, Top(o), debug) /\ (debugging <=> Top(o).at = "debug")
  BY <1>1
<1>3. \A o \in OSThreads : At(o, "debug") => o = first
  BY <1>2 DEF At, Silent
<1>4. debugging => Busy(first)
  <2> SUFFICES ASSUME ~Busy(first) PROVE ~debugging
    OBVIOUS
  <2>1. \A i \in 1..Len(<< >>) : FALSE
    OBVIOUS
  <2>2. \A i \in 1..Len(runs[first]) : FALSE
    BY <2>1 DEF Busy
  <2>3. StopOf(q, first, silent, runs, debug, armed, breakhits, debugging, singlestep)
    BY <1>2 DEF StopInv
  <2> QED BY <2>2, <2>3 DEF StopOf
<1>5. debugging <=> \E o \in OSThreads : At(o, "debug")
  BY <1>2, <1>3, <1>4 DEF At
<1>6. ASSUME At(first, "debug")
      PROVE  LET r == Top(first) IN
             /\ debug.L = r.thread /\ debug.depth = Depth(r)
             /\ debug.shown = Reverse([i \in DOMAIN r.frames |-> [f |-> r.frames[i].f, line |-> Instr(r.frames[i]).line]])
             /\ debug.error = IF r.error = None THEN "Breakpoint" ELSE r.error
  <2> DEFINE r == Top(first)
  <2>1. RunOK(q, meta, r, now, loaded) /\ ShownRun(q, r, debug) /\ r.at = "debug"
    BY <1>2, <1>6 DEF At
  <2> HIDE DEF r
  <2>2. r.frames \in Seq(FrameType(q))
    BY <2>1 DEF RunOK, RunType
  <2>3. /\ debug.L = r.thread /\ debug.error = (IF r.error = None THEN "Breakpoint" ELSE r.error)
        /\ debug.shown \in Seq([f : DOMAIN q.code, line : Int])
        /\ Shows(q, debug.shown, r.frames, Len(r.frames)) /\ debug.depth = Len(r.frames)
    BY <2>1 DEF ShownRun
  <2>4. debug.shown = Reverse([i \in DOMAIN r.frames |-> [f |-> r.frames[i].f, line |-> Ins(q, r.frames[i]).line]])
    BY <2>2, <2>3, ShownReverse
  <2>5. \A fr : Instr(fr) = Ins(q, fr)
    BY DEF Instr, Ins, Code
  <2> QED BY <2>3, <2>4, <2>5 DEF Depth, r
<1> QED BY <1>3, <1>5, <1>6 DEF ShownTrue

LEMMA DebugStepsRight ==
  ASSUME DebugInv
  PROVE  StepsRight
<1> DEFINE q == Programs[program]
<1>1. PICK first \in OSThreads : \E silent, meta :
        /\ StepInv(first) /\ StacksOK(q, meta, runs, now, loaded)
        /\ \A o \in OSThreads : Busy(o) =>
             /\ Top(o) = runs[o][Len(runs[o])] /\ Len(runs[o]) \in 1..Len(runs[o])
             /\ o # first => Silent(silent, Top(o), debug)
             /\ o = first => /\ EndingRun(q, Top(o), debug, asked)
                             /\ AskedRun(q, Top(o), debug, engine, singlestep, asked)
  BY DebugFacts
<1>2. PICK silent, meta :
        /\ StepInv(first) /\ StacksOK(q, meta, runs, now, loaded)
        /\ \A o \in OSThreads : Busy(o) =>
             /\ Top(o) = runs[o][Len(runs[o])] /\ Len(runs[o]) \in 1..Len(runs[o])
             /\ o # first => Silent(silent, Top(o), debug)
             /\ o = first => /\ EndingRun(q, Top(o), debug, asked)
                             /\ AskedRun(q, Top(o), debug, engine, singlestep, asked)
  BY <1>1
<1>3. \A r : Depth(r) = Len(r.frames) /\ Line(r) = Ins(q, Last(r.frames)).line
  BY DEF Depth, Line, Here, Instr, Ins, Code
<1>4. ASSUME NEW o \in OSThreads, At(o, "debug"), Top(o).step
      PROVE  LET r == Top(o) IN
             /\ asked # None /\ asked.thread = r.thread
             /\ <<Depth(r), Line(r)>> # <<asked.depth, asked.line>>
             /\ asked.over => Depth(r) <= asked.depth
  <2> DEFINE r == Top(o)
  <2>1. o = first
    BY <1>2, <1>4 DEF At, Silent
  <2>2. EndingRun(q, r, debug, asked) /\ r.at = "debug"
    BY <1>2, <1>4, <2>1 DEF At
  <2>3. asked # None /\ asked.thread = r.thread
    BY <1>4, <2>2 DEF EndingRun
  <2>4. (Len(r.frames) # asked.depth \/ Ins(q, Last(r.frames)).line # asked.line) /\ (asked.over => Len(r.frames) <= asked.depth)
    BY <1>4, <2>2, <2>3 DEF EndingRun
  <2> HIDE DEF r
  <2> QED BY <1>3, <2>3, <2>4 DEF r
<1>5. ASSUME NEW o \in OSThreads, At(o, "exec"), asked # None, Top(o).thread = asked.thread,
             asked.over => Depth(Top(o)) <= asked.depth
      PROVE  <<Depth(Top(o)), Line(Top(o))>> = <<asked.depth, asked.line>>
  <2> DEFINE s == runs[first]
             r == Top(o)
  <2>1. StepOf(q, s, debug, engine, singlestep, asked)
    BY <1>2 DEF StepInv
  <2>2. PICK i \in 1..Len(s) : s[i].thread = asked.thread /\ \A j \in 1..(i - 1) : s[j].at # "walk"
    BY <1>5, <2>1 DEF StepOf
  <2>3. r = runs[o][Len(runs[o])] /\ Len(runs[o]) \in 1..Len(runs[o]) /\ r.at = "exec"
    BY <1>2, <1>5 DEF At
  <2>4. o = first /\ i = Len(s)
    BY <1>2, <1>5, <2>2, <2>3 DEF StacksOK, Apart
  <2>5. debug.L = asked.thread
    <3> SUFFICES ASSUME asked.thread # debug.L PROVE FALSE
      OBVIOUS
    <3>1. PICK j \in 1..Len(s) : s[j].at \in {"walk", "debug"}
      BY <1>5, <2>1 DEF StepOf
    <3>2. j # Len(s)
      BY <2>3, <2>4, <3>1
    <3>3. j \in 1..(Len(s) - 1)
      BY <2>4, <3>2
    <3>4. s[j].at \in {"wait", "walk"}
      BY <1>2, <3>3 DEF StacksOK, StackOK
    <3> QED BY <2>2, <2>4, <3>1, <3>3, <3>4
  <2>6. AskedRun(q, r, debug, engine, singlestep, asked)
    BY <1>2, <1>5, <2>4 DEF At
  <2> HIDE DEF r
  <2>7. PlacedAt(q, r, asked)
    <3>1. asked # None /\ asked.thread = debug.L /\ r.thread = debug.L /\ r.at \notin {"walk", "debug"} /\ r.at # "step"
      BY <1>5, <2>3, <2>5 DEF r
    <3> QED BY <2>6, <3>1, AskedHere
  <2>8. Len(r.frames) = asked.depth /\ Ins(q, Last(r.frames)).line = asked.line
    BY <1>3, <1>5, <2>7 DEF PlacedAt, r
  <2> QED BY <1>3, <2>8 DEF r
<1>6. StepEndsElsewhere
  BY <1>4 DEF StepEndsElsewhere
<1>7. StepEndsNext
  BY <1>5 DEF StepEndsNext
<1> QED BY <1>6, <1>7 DEF StepsRight

----------------------------------------------------------------------------
(* The theorems: of every program of the discipline, on any OS threads and VMs. *)

\* The invariant of the debugger holds.
THEOREM DebugInvHolds ==
  ASSUME \A p \in DOMAIN Programs : Disciplined(Programs[p])
  PROVE  Spec => []DebugInv
<1>1. Init => DebugInv
  BY InitDebug
<1>2. DebugInv /\ [Next]_vars => DebugInv'
  BY DebugKept
<1> QED BY <1>1, <1>2, PTL DEF Spec

\* The state of the debugger is of its types; the innermost threads run in VMs that
\* have the script, and only the thread last shown is stepped.
THEOREM TypeOKHolds ==
  ASSUME \A p \in DOMAIN Programs : Disciplined(Programs[p])
  PROVE  Spec => []TypeOK
<1>1. Spec => []DebugInv
  BY DebugInvHolds
<1>2. DebugInv => TypeOK
  BY DebugTypeOK
<1> QED BY <1>1, <1>2, PTL

\* A breakpoint stops its thread each time it is reached, and once: of the two hits
\* that Luau reports, lua_debugbreak takes the first to be the breakpoint's and the
\* second that of the thread resumed, whatever other threads of its VM meet between.
THEOREM BreaksOnceHolds ==
  ASSUME \A p \in DOMAIN Programs : Disciplined(Programs[p])
  PROVE  Spec => []BreaksOnce
<1>1. Spec => []DebugInv
  BY DebugInvHolds
<1>2. DebugInv => BreaksOnce
  BY DebugBreaksOnce
<1> QED BY <1>1, <1>2, PTL

\* While the user looks at a thread, what debug_break collected is that thread's
\* stack, all of it and innermost first, with its error; and debugging is set then only.
THEOREM ShownTrueHolds ==
  ASSUME \A p \in DOMAIN Programs : Disciplined(Programs[p])
  PROVE  Spec => []ShownTrue
<1>1. Spec => []DebugInv
  BY DebugInvHolds
<1>2. DebugInv => ShownTrue
  BY DebugShownTrue
<1> QED BY <1>1, <1>2, PTL

\* A step ends in the thread it was asked for, at another place, one over calls not
\* within one; and until the function of the breakpoint has returned that thread
\* executes nothing at another place (lua_debugstep).
THEOREM StepsRightHolds ==
  ASSUME \A p \in DOMAIN Programs : Disciplined(Programs[p])
  PROVE  Spec => []StepsRight
<1>1. Spec => []DebugInv
  BY DebugInvHolds
<1>2. DebugInv => StepsRight
  BY DebugStepsRight
<1> QED BY <1>1, <1>2, PTL
=============================================================================
