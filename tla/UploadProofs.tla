---------------------------- MODULE UploadProofs ----------------------------
(***************************************************************************)
(* LocalStorage under the Manager and an application, for any number of    *)
(* callers, paths, texts and files, and texts of any length.               *)
(***************************************************************************)
EXTENDS Upload, TLAPS

-----------------------------------------------------------------------------
(* The inductive invariant of the storage. *)

\* What a call has at each of its points.
Shape(c) ==
  LET r == call[c]
  IN /\ r.pc = "idle" => r = Idle
     /\ r.pc # "idle" => /\ r.op # "none" /\ r.src \in Paths /\ r.dst \in Paths
                         /\ r.op \notin {"copy", "move"} => r.src = r.dst
                         /\ r.op \in Putting => r.text \in Texts
     /\ r.pc = "open" => r.op \in Reading
     /\ r.pc = "create" => r.op \in Writing
     /\ r.pc \in {"write", "remove"} => r.op \in Putting
     /\ r.pc = "copying" => r.op \in {"copy", "move"}
     /\ r.pc = "reading" => r.op = "get"
     /\ r.pc = "delete" => r.op \in {"delete", "move"}
     /\ r.in # NoFile <=> r.op \in Reading /\ r.pc \in {"create", "copying", "reading"}
     /\ r.out # NoFile <=> r.pc \in {"write", "remove", "copying"}
     /\ r.pc \in {"open", "create"} => r.off = 0
     /\ r.pc # "reading" => r.got = <<>>

\* A file belongs to one path: it has that name or none, and whoever has it
\* open has opened that path.
FilesApart ==
  /\ \A p, q \in Paths : dir[p] = dir[q] /\ dir[p] # NoFile => p = q
  /\ \A c \in Callers, p \in Paths :
       /\ call[c].in # NoFile /\ dir[p] = call[c].in => p = call[c].src
       /\ call[c].out # NoFile /\ dir[p] = call[c].out => p = call[c].dst
  /\ \A b, c \in Callers :
       /\ call[b].in # NoFile /\ call[b].in = call[c].out => call[b].src = call[c].dst
       /\ call[b].out # NoFile /\ call[b].out = call[c].out => call[b].dst = call[c].dst

\* A claim is about the call's own paths, and no other call gets in its way.
ClaimShape(c) ==
  LET r == call[c]
      k == claim[c]
  IN k.ok =>
     /\ r.pc # "idle" => /\ r.op # "delete"
                         /\ r.op \in {"copy", "move"} => r.src # r.dst
                         /\ r.op = "move" => k.at = {r.src, r.dst}
                         /\ r.op \in {"put", "upload", "copy"} => k.at = {r.dst}
                         /\ r.op = "get" => k.at = {}
     /\ \A b \in Callers \ {c} : ~Disturbs(call[b], r.src, k.at)

Stored(p, s) == dir[p] \in Files /\ data[dir[p]] = s
Prefix(s, t) == Len(s) <= Len(t) /\ \A k \in 1..Len(s) : s[k] = t[k]

\* What a claim says of the files.
Kept(c) ==
  LET r == call[c]
      k == claim[c]
  IN k.ok =>
     /\ r.pc = "idle" => \E p \in k.at : Stored(p, k.content)
     /\ r.op \in Putting => k.content = Whole(r.text)
     /\ r.pc \in {"write", "copying"} =>
          /\ dir[r.dst] = r.out
          /\ Len(data[r.out]) = r.off /\ Prefix(data[r.out], k.content)
     /\ r.in # NoFile => /\ data[r.in] = k.content
                         /\ r.op = "move" => dir[r.src] = r.in
     /\ r.pc = "delete" => Stored(r.dst, k.content)
     /\ r.pc = "reading" => Prefix(r.got, k.content)

Types ==
  /\ dir \in [Paths -> Files \cup {NoFile}]
  /\ data \in [Files -> Seq(Block)]
  /\ call \in [Callers -> Call]
  /\ claim \in [Callers -> [ok : BOOLEAN, at : SUBSET Paths, content : Seq(Block)]]

CallInv(c) == Shape(c) /\ ClaimShape(c) /\ Kept(c)

SInv == Types /\ FilesApart /\ \A c \in Callers : CallInv(c)

-----------------------------------------------------------------------------
(* Sequences of blocks *)

LEMMA EmptyType == <<>> \in Seq(Block) /\ Len(<<>>) = 0
  OBVIOUS

LEMMA WholeType ==
  ASSUME NEW text \in Texts
  PROVE  /\ Whole(text) \in Seq(Block) /\ Len(Whole(text)) = Blocks
         /\ \A k \in 1..Blocks : Whole(text)[k] = text
  BY StorageAssumption DEF Whole, Block

LEMMA OverwrittenType ==
  ASSUME NEW s \in Seq(Block), NEW n \in Nat \ {0}, NEW block \in Block
  PROVE  Overwritten(s, n, block) \in Seq(Block)
<1>1. PICK m \in Nat : /\ m = IF n > Len(s) THEN n ELSE Len(s)
  OBVIOUS
<1>2. Overwritten(s, n, block) =
        [k \in 1..m |-> IF k = n THEN block ELSE IF k <= Len(s) THEN s[k] ELSE Hole]
  BY <1>1 DEF Overwritten
<1>3. \A k \in 1..m : (IF k = n THEN block ELSE IF k <= Len(s) THEN s[k] ELSE Hole) \in Block
  BY DEF Block
<1> QED
  BY <1>1, <1>2, <1>3

\* At the end of a sequence a write appends.
LEMMA WriteAppends ==
  ASSUME NEW s \in Seq(Block), NEW t \in Seq(Block), Prefix(s, t), Len(s) < Len(t)
  PROVE  LET u == Overwritten(s, Len(s) + 1, t[Len(s) + 1])
         IN Len(u) = Len(s) + 1 /\ Prefix(u, t)
<1> DEFINE n == Len(s) + 1
           u == Overwritten(s, n, t[n])
<1>1. n \in Nat /\ Len(s) \in Nat /\ Len(t) \in Nat
  OBVIOUS
<1>2. u = [k \in 1..n |-> IF k = n THEN t[n] ELSE IF k <= Len(s) THEN s[k] ELSE Hole]
  <2>1. (IF n > Len(s) THEN n ELSE Len(s)) = n
    BY <1>1
  <2> QED
    BY <2>1 DEF Overwritten
<1>3. u \in Seq(Block)
  <2>1. n \in Nat \ {0} /\ t[n] \in Block
    BY <1>1
  <2> QED
    BY <2>1, OverwrittenType
<1>4. Len(u) = n
  BY <1>1, <1>2, <1>3
<1>5. \A k \in 1..n : u[k] = t[k]
  BY <1>1, <1>2 DEF Prefix
<1> QED
  BY <1>1, <1>4, <1>5 DEF Prefix

LEMMA PrefixIsAll ==
  ASSUME NEW s \in Seq(Block), NEW t \in Seq(Block), Prefix(s, t), Len(s) >= Len(t)
  PROVE  s = t
<1>1. Len(s) = Len(t) /\ \A k \in 1..Len(s) : s[k] = t[k]
  BY DEF Prefix
<1> QED
  BY <1>1

LEMMA PrefixAppend ==
  ASSUME NEW s \in Seq(Block), NEW t \in Seq(Block), Prefix(s, t), Len(s) < Len(t)
  PROVE  Prefix(Append(s, t[Len(s) + 1]), t)
  BY DEF Prefix

-----------------------------------------------------------------------------
(* The calls that take no step *)

\* The step is b's: the others' calls and claims stay as they are, and b ends
\* its call or goes on with it.
StepOf(b) ==
  /\ \A c \in Callers \ {b} : call'[c] = call[c] /\ claim'[c] = claim[c]
  /\ \/ call'[b] = Idle
     \/ /\ call'[b].op = call[b].op
        /\ call'[b].src = call[b].src
        /\ call'[b].dst = call[b].dst

\* The step leaves what c counts on.
FilesKept(c) ==
  claim[c].ok =>
    /\ \A p \in claim[c].at :
         dir'[p] = dir[p] /\ (dir[p] # NoFile => data'[dir[p]] = data[dir[p]])
    /\ \A f \in {call[c].in, call[c].out} \ {NoFile} : data'[f] = data[f]

LEMMA IdleDisturbsNobody ==
  ASSUME NEW p, NEW at PROVE ~Disturbs(Idle, p, at)
  BY DEF Disturbs, Truncates, Removes, Idle, Writing, Putting

LEMMA SameDisturbs ==
  ASSUME NEW r, NEW s, NEW p, NEW at,
         r.op = s.op, r.src = s.src, r.dst = s.dst
  PROVE  Disturbs(r, p, at) <=> Disturbs(s, p, at)
  BY DEF Disturbs, Truncates, Removes

\* What c counts on stays when its own call and claim do and its files do.
LEMMA KeptFrame ==
  ASSUME SInv, NEW c \in Callers, FilesKept(c),
         call'[c] = call[c], claim'[c] = claim[c]
  PROVE  Kept(c)'
<1>1. CASE ~claim[c].ok
  BY <1>1 DEF Kept
<1>2. CASE claim[c].ok
  <2> DEFINE r == call[c]
             k == claim[c]
  <2>1. Shape(c) /\ ClaimShape(c) /\ Kept(c) /\ r \in Call /\ k.at \subseteq Paths
    BY DEF SInv, CallInv, Types
  <2>2. NoFile \notin Files
    BY StorageAssumption
  <2>3. \A p \in k.at : \A s : Stored(p, s) => Stored(p, s)'
    BY <1>2, <2>1, <2>2 DEF FilesKept, Stored
  <2>4. r.pc \in {"write", "copying", "delete"} => r.dst \in k.at
    BY <1>2, <2>1 DEF Shape, ClaimShape, Putting
  <2>5. r.pc = "idle" => \E p \in k.at : Stored(p, k.content)'
    BY <1>2, <2>1, <2>3 DEF Kept
  <2>6. r.pc \in {"write", "copying"} => dir'[r.dst] = r.out /\ data'[r.out] = data[r.out]
    BY <1>2, <2>1, <2>4 DEF Kept, Shape, FilesKept
  <2>7. r.in # NoFile => data'[r.in] = data[r.in] /\ (r.op = "move" => dir'[r.src] = dir[r.src])
    <3>1. r.in # NoFile /\ r.op = "move" => r.src \in k.at
      BY <1>2, <2>1 DEF Shape, ClaimShape
    <3> QED
      BY <1>2, <3>1 DEF FilesKept
  <2>8. r.pc = "delete" => Stored(r.dst, k.content)'
    BY <1>2, <2>1, <2>3, <2>4 DEF Kept
  <2> QED
    BY <1>2, <2>1, <2>5, <2>6, <2>7, <2>8 DEF Kept
<1> QED
  BY <1>1, <1>2

LEMMA OtherCalls ==
  ASSUME SInv, NEW b \in Callers, StepOf(b), NEW c \in Callers \ {b}, FilesKept(c)
  PROVE  CallInv(c)'
<1>1. call'[c] = call[c] /\ claim'[c] = claim[c]
  BY DEF StepOf
<1>2. Shape(c) /\ ClaimShape(c)
  BY DEF SInv, CallInv
<1>3. Shape(c)'
  BY <1>1, <1>2 DEF Shape
<1>4. ClaimShape(c)'
  <2>1. ASSUME NEW d \in Callers \ {c}, claim[c].ok
        PROVE  ~Disturbs(call'[d], call[c].src, claim[c].at)
    <3>1. ~Disturbs(call[d], call[c].src, claim[c].at)
      BY <1>2, <2>1 DEF ClaimShape
    <3>2. CASE call'[d] = call[d] \/ call'[d] = Idle
      BY <3>1, <3>2, IdleDisturbsNobody
    <3>3. CASE d = b /\ call'[d] # Idle
      BY <3>1, <3>3, SameDisturbs DEF StepOf
    <3> QED
      BY <3>2, <3>3 DEF StepOf
  <2> QED
    BY <1>1, <1>2, <2>1 DEF ClaimShape
<1>5. Kept(c)'
  BY <1>1, KeptFrame
<1> QED
  BY <1>3, <1>4, <1>5 DEF CallInv

-----------------------------------------------------------------------------
(* What a step does to the files of the others *)

\* KeepFiles only takes away the files that nobody can reach.
LEMMA KeptByKeepFiles ==
  ASSUME SInv, NEW b \in Callers, StepOf(b), KeepFiles, Removes(call[b]) \subseteq Paths,
         \A p \in Paths : dir'[p] = dir[p] \/ p \in Removes(call[b]),
         NEW c \in Callers \ {b}
  PROVE  FilesKept(c)
<1> SUFFICES ASSUME claim[c].ok PROVE FilesKept(c)
  BY DEF FilesKept
<1>1. Types /\ ClaimShape(c) /\ call'[c] = call[c]
  BY DEF SInv, CallInv, StepOf
<1>2. ~Disturbs(call[b], call[c].src, claim[c].at)
  BY <1>1 DEF ClaimShape
<1>3. \A p \in claim[c].at : p \in Paths /\ dir'[p] = dir[p]
  BY <1>1, <1>2 DEF Types, Disturbs
<1>4. ASSUME NEW p \in claim[c].at, dir[p] # NoFile PROVE data'[dir[p]] = data[dir[p]]
  <2>1. PICK f \in Files : f = dir[p]
    BY <1>1, <1>3, <1>4 DEF Types
  <2>2. Linked(f)'
    BY <1>3, <2>1 DEF Linked
  <2> QED
    BY <2>1, <2>2 DEF KeepFiles
<1>5. ASSUME NEW f \in {call[c].in, call[c].out} \ {NoFile} PROVE data'[f] = data[f]
  <2>1. f \in Files
    BY <1>1, <1>5 DEF Types, Call
  <2>2. Held(f)'
    BY <1>1, <1>5 DEF Held
  <2> QED
    BY <2>1, <2>2 DEF KeepFiles
<1> QED
  BY <1>3, <1>4, <1>5 DEF FilesKept

\* A call writes to the file of its own destination, which nobody counts on.
LEMMA KeptByWrite ==
  ASSUME SInv, NEW b \in Callers, call[b].out # NoFile, dir' = dir,
         \A f \in Files : data'[f] = data[f] \/ f = call[b].out,
         NEW c \in Callers \ {b}
  PROVE  FilesKept(c)
<1> SUFFICES ASSUME claim[c].ok PROVE FilesKept(c)
  BY DEF FilesKept
<1>1. Types /\ FilesApart /\ ClaimShape(c) /\ Shape(b) /\ Shape(c)
  BY DEF SInv, CallInv
<1>2. call[b] \in Call /\ call[c] \in Call /\ claim[c].at \subseteq Paths
  BY <1>1 DEF Types
<1>3. call[b].op \in Writing
  BY <1>1 DEF Shape, Writing, Putting
<1>4. call[b].dst \notin claim[c].at \cup {call[c].src}
  BY <1>1, <1>3 DEF ClaimShape, Disturbs, Truncates
<1>5. \A p \in claim[c].at : dir[p] # call[b].out
  BY <1>1, <1>2, <1>4 DEF FilesApart
<1>6. call[c].in # NoFile => call[c].in # call[b].out
  BY <1>1, <1>2, <1>4 DEF FilesApart
<1>7. call[c].out # NoFile => call[c].dst \in claim[c].at \/ call[c].pc = "remove"
  BY <1>1 DEF ClaimShape, Shape, Putting
<1>8. call[c].out # NoFile => call[c].out # call[b].out
  BY <1>1, <1>2, <1>4, <1>7 DEF FilesApart, ClaimShape, Shape, Putting
<1>9. \A p \in claim[c].at : dir[p] # NoFile => dir[p] \in Files
  BY <1>1, <1>2 DEF Types
<1>10. \A f \in {call[c].in, call[c].out} \ {NoFile} : f \in Files
  BY <1>2 DEF Call
<1> QED
  BY <1>5, <1>6, <1>8, <1>9, <1>10 DEF FilesKept

\* So does Create, which may take a file that nobody can reach.
LEMMA KeptByCreate ==
  ASSUME SInv, NEW b \in Callers, Create(b), NEW c \in Callers \ {b}
  PROVE  FilesKept(c)
<1> SUFFICES ASSUME claim[c].ok PROVE FilesKept(c)
  BY DEF FilesKept
<1> DEFINE p == call[b].dst
<1>1. Types /\ FilesApart /\ ClaimShape(c) /\ Shape(b) /\ Shape(c)
  BY DEF SInv, CallInv
<1>2. call[b] \in Call /\ call[c] \in Call /\ claim[c].at \subseteq Paths /\ p \in Paths
  BY <1>1 DEF Types, Shape, Create, At
<1>3. call[b].op \in Writing
  BY <1>1 DEF Shape, Create, At
<1>4. p \notin claim[c].at \cup {call[c].src}
  BY <1>1, <1>3 DEF ClaimShape, Disturbs, Truncates
<1>5. PICK f \in Files :
        /\ IF dir[p] # NoFile THEN f = dir[p] ELSE ~Linked(f) /\ ~Held(f)
        /\ dir' = [dir EXCEPT ![p] = f]
        /\ data' = [data EXCEPT ![f] = <<>>]
  BY DEF Create
<1>6. \A q \in claim[c].at : dir'[q] = dir[q]
  BY <1>1, <1>2, <1>4, <1>5 DEF Types
<1>7. \A q \in claim[c].at : dir[q] # NoFile => dir[q] \in Files /\ dir[q] # f
  BY <1>1, <1>2, <1>4, <1>5 DEF Types, FilesApart, Linked
<1>8. \A g \in {call[c].in, call[c].out} \ {NoFile} : g \in Files /\ g # f
  <2>1. call[c].out # NoFile => call[c].dst # p
    BY <1>1, <1>4 DEF ClaimShape, Shape, Putting
  <2>2. \A g \in {call[c].in, call[c].out} : Held(g)
    BY DEF Held
  <2>3. CASE dir[p] = NoFile
    BY <1>2, <1>5, <2>2, <2>3 DEF Call
  <2>4. CASE dir[p] # NoFile
    BY <1>1, <1>2, <1>4, <1>5, <2>1, <2>4 DEF FilesApart, Call
  <2> QED
    BY <2>3, <2>4
<1> QED
  BY <1>1, <1>5, <1>6, <1>7, <1>8 DEF FilesKept, Types

-----------------------------------------------------------------------------
(* Types and files, for the steps that open no file *)

LEMMA KeepFilesType ==
  ASSUME Types, KeepFiles PROVE data' \in [Files -> Seq(Block)]
  BY EmptyType DEF Types, KeepFiles

\* Paths lose their files and calls close theirs; no file comes to be named or
\* opened.
FilesShrink ==
  /\ \A p \in Paths : dir'[p] \in {dir[p], NoFile}
  /\ \A c \in Callers :
       /\ call'[c].in # NoFile => call'[c].in = call[c].in /\ call'[c].src = call[c].src
       /\ call'[c].out # NoFile => call'[c].out = call[c].out /\ call'[c].dst = call[c].dst

LEMMA ApartWhenShrinking ==
  ASSUME FilesApart, FilesShrink PROVE FilesApart'
<1>1. \A p, q \in Paths : dir'[p] = dir'[q] /\ dir'[p] # NoFile => p = q
  BY DEF FilesApart, FilesShrink
<1>2. ASSUME NEW c \in Callers, NEW p \in Paths
      PROVE  /\ call'[c].in # NoFile /\ dir'[p] = call'[c].in => p = call'[c].src
             /\ call'[c].out # NoFile /\ dir'[p] = call'[c].out => p = call'[c].dst
  BY DEF FilesApart, FilesShrink
<1>3. ASSUME NEW b \in Callers, NEW c \in Callers
      PROVE  /\ call'[b].in # NoFile /\ call'[b].in = call'[c].out
                  => call'[b].src = call'[c].dst
             /\ call'[b].out # NoFile /\ call'[b].out = call'[c].out
                  => call'[b].dst = call'[c].dst
  BY DEF FilesApart, FilesShrink
<1> QED
  BY <1>1, <1>2, <1>3 DEF FilesApart

-----------------------------------------------------------------------------
(* A call ends *)

\* A call that ends keeps a claim only on its own paths, and only with what one
\* of them then has.
EndsWell(c) ==
  claim'[c].ok =>
    /\ claim[c].ok /\ claim'[c].at \subseteq claim[c].at
    /\ \E p \in claim'[c].at :
         dir'[p] \in Files /\ data'[dir'[p]] = claim'[c].content

LEMMA EndedCall ==
  ASSUME SInv, NEW c \in Callers, call'[c] = Idle, EndsWell(c),
         \A d \in Callers \ {c} : call'[d] \in {call[d], Idle}
  PROVE  CallInv(c)'
<1>1. Shape(c)'
  BY DEF Shape, Idle
<1>2. ClaimShape(c)'
  <2>1. ASSUME claim'[c].ok, NEW d \in Callers \ {c}
        PROVE  ~Disturbs(call'[d], NoFile, claim'[c].at)
    <3>1. ~Disturbs(call[d], call[c].src, claim[c].at)
      BY <2>1 DEF SInv, CallInv, ClaimShape, EndsWell
    <3>2. Shape(d) /\ call[d] \in Call /\ claim[c] \in [ok : BOOLEAN, at : SUBSET Paths, content : Seq(Block)]
      BY DEF SInv, CallInv, Types
    <3>3. NoFile \notin Truncates(call[d])
      BY <3>2, StorageAssumption DEF Shape, Truncates, Idle, Writing, Putting
    <3>4. ~Disturbs(call[d], NoFile, claim'[c].at)
      BY <2>1, <3>1, <3>3 DEF Disturbs, EndsWell
    <3> QED
      BY <3>4, IdleDisturbsNobody
  <2> QED
    BY <2>1 DEF ClaimShape, Idle
<1>3. Kept(c)'
  <2>1. claim'[c].ok => (\E p \in claim[c].at : Stored(p, claim[c].content))'
    BY DEF EndsWell, Stored
  <2>2. Idle.pc = "idle" /\ Idle.op \notin Putting /\ Idle.in = NoFile
    BY DEF Idle, Putting
  <2> QED
    BY <2>1, <2>2 DEF Kept
<1> QED
  BY <1>1, <1>2, <1>3 DEF CallInv

LEMMA KeptStored ==
  ASSUME Types, KeepFiles, NEW p \in Paths, NEW s, Stored(p, s), dir'[p] = dir[p]
  PROVE  dir'[p] \in Files /\ data'[dir'[p]] = s
<1>1. PICK f \in Files : f = dir[p]
  BY DEF Stored
<1>2. Linked(f)'
  BY <1>1 DEF Linked
<1> QED
  BY <1>1, <1>2 DEF KeepFiles, Stored

LEMMA EndingStep ==
  ASSUME SInv, NEW b \in Callers, ~At(b, "idle"), call' = [call EXCEPT ![b] = Idle],
         KeepFiles, dir' \in [Paths -> Files \cup {NoFile}],
         \A p \in Paths : dir'[p] = dir[p] \/ (p \in Removes(call[b]) /\ dir'[p] = NoFile),
         NEW k, k \in [ok : BOOLEAN, at : SUBSET Paths, content : Seq(Block)],
         claim' = [claim EXCEPT ![b] = k], EndsWell(b)
  PROVE  SInv'
<1>1. Types /\ FilesApart /\ Shape(b)
  BY DEF SInv, CallInv
<1>2. Idle \in Call
  BY EmptyType, StorageAssumption DEF Idle, Call, Block
<1>3. Types'
  <2>1. data' \in [Files -> Seq(Block)]
    BY <1>1, KeepFilesType
  <2>2. call' \in [Callers -> Call]
    BY <1>1, <1>2 DEF Types
  <2>3. claim' \in [Callers -> [ok : BOOLEAN, at : SUBSET Paths, content : Seq(Block)]]
    BY <1>1 DEF Types
  <2> QED
    BY <2>1, <2>2, <2>3 DEF Types
<1>4. FilesShrink
  <2>1. \A c \in Callers : call'[c] = call[c] \/ call'[c] = Idle
    BY <1>1 DEF Types
  <2>2. Idle.in = NoFile /\ Idle.out = NoFile
    BY DEF Idle
  <2>3. \A p \in Paths : dir'[p] \in {dir[p], NoFile}
    OBVIOUS
  <2>4. ASSUME NEW c \in Callers
        PROVE  /\ call'[c].in # NoFile => call'[c].in = call[c].in /\ call'[c].src = call[c].src
               /\ call'[c].out # NoFile => call'[c].out = call[c].out /\ call'[c].dst = call[c].dst
    BY <2>1, <2>2
  <2> QED
    BY <2>3, <2>4 DEF FilesShrink
<1>5. FilesApart'
  BY <1>1, <1>4, ApartWhenShrinking
<1>6. Removes(call[b]) \subseteq Paths
  BY <1>1 DEF Shape, Removes, At
<1>7. StepOf(b)
  BY <1>1 DEF StepOf, Types
<1>8. ASSUME NEW c \in Callers \ {b} PROVE CallInv(c)'
  BY <1>6, <1>7, KeptByKeepFiles, OtherCalls
<1>9. CallInv(b)'
  BY <1>1, EndedCall DEF Types
<1> QED
  BY <1>3, <1>5, <1>8, <1>9 DEF SInv

LEMMA NoClaimType ==
  NoClaim \in [ok : BOOLEAN, at : SUBSET Paths, content : Seq(Block)] /\ ~NoClaim.ok
  BY EmptyType DEF NoClaim

\* A Move that does not get to its end leaves what it had opened.
LEMMA UnfinishedKeeps ==
  ASSUME SInv, NEW c \in Callers, Unfinished(c).ok, KeepFiles,
         \A p \in Paths : dir'[p] = dir[p]
  PROVE  /\ claim[c].ok /\ Unfinished(c) = claim[c]
         /\ \E p \in claim[c].at :
              dir'[p] \in Files /\ data'[dir'[p]] = claim[c].content
<1>1. /\ Types /\ Shape(c) /\ ClaimShape(c) /\ Kept(c) /\ call[c] \in Call
      /\ claim[c].at \subseteq Paths
  BY DEF SInv, CallInv, Types
<1>2. claim[c].ok /\ Unfinished(c) = claim[c] /\ call[c].op = "move" /\ call[c].pc # "open"
  BY NoClaimType DEF Unfinished, At
<1>3. \E p \in claim[c].at : Stored(p, claim[c].content)
  <2>1. CASE call[c].pc \in {"create", "copying"}
    <3>1. call[c].in # NoFile /\ call[c].in \in Files
      BY <1>1, <1>2, <2>1 DEF Shape, Reading, Call
    <3> QED
      BY <1>1, <1>2, <2>1, <3>1 DEF ClaimShape, Kept, Stored
  <2>2. CASE call[c].pc = "delete"
    BY <1>1, <1>2, <2>2 DEF ClaimShape, Kept
  <2> QED
    BY <1>1, <1>2, <2>1, <2>2 DEF Shape, Call, Idle, Putting
<1> QED
  BY <1>1, <1>2, <1>3, KeptStored

LEMMA FailsKeeps ==
  ASSUME SInv, NEW b \in Callers, Fails(b) PROVE SInv'
<1>1. Types /\ ~At(b, "idle") /\ KeepFiles /\ dir' = dir
  BY DEF SInv, Fails, At
<1>2. Unfinished(b) \in [ok : BOOLEAN, at : SUBSET Paths, content : Seq(Block)]
  BY <1>1, NoClaimType DEF Types, Unfinished
<1>3. claim' = [claim EXCEPT ![b] = Unfinished(b)] /\ call' = [call EXCEPT ![b] = Idle]
  BY DEF Fails, Errs
<1>4. EndsWell(b)
  BY <1>1, <1>3, UnfinishedKeeps DEF EndsWell, Types
<1> QED
  BY <1>1, <1>2, <1>3, <1>4, EndingStep DEF Types

LEMMA PutRemovesKeeps ==
  ASSUME SInv, NEW b \in Callers, PutRemoves(b) PROVE SInv'
<1>1. Types /\ Shape(b) /\ ~At(b, "idle") /\ KeepFiles /\ call[b].op \in Putting
  BY DEF SInv, CallInv, PutRemoves, At, Shape
<1>2. claim' = [claim EXCEPT ![b] = NoClaim] /\ call' = [call EXCEPT ![b] = Idle]
  BY <1>1 DEF PutRemoves, Errs, Unfinished, Putting
<1>3. EndsWell(b)
  BY <1>1, <1>2, NoClaimType DEF EndsWell, Types
<1>4. \A p \in Paths : dir'[p] = dir[p] \/ (p \in Removes(call[b]) /\ dir'[p] = NoFile)
  BY <1>1 DEF PutRemoves, Types, Removes, Putting
<1>5. dir' \in [Paths -> Files \cup {NoFile}]
  BY <1>1 DEF PutRemoves, Types
<1> QED
  BY <1>1, <1>2, <1>3, <1>4, <1>5, EndingStep, NoClaimType

\* The claim of a call that has returned, when its destination has the content.
LEMMA ReturnedClaim ==
  ASSUME SInv, NEW b \in Callers, Returns(b), call[b].pc # "idle",
         claim[b].ok /\ call[b].op # "get" =>
           dir'[call[b].dst] \in Files /\ data'[dir'[call[b].dst]] = claim[b].content
  PROVE  /\ EndsWell(b) /\ call' = [call EXCEPT ![b] = Idle]
         /\ \E k \in [ok : BOOLEAN, at : SUBSET Paths, content : Seq(Block)] :
              claim' = [claim EXCEPT ![b] = k]
<1> DEFINE K == [ok : BOOLEAN, at : SUBSET Paths, content : Seq(Block)]
           k == IF ~claim[b].ok \/ call[b].op = "get"
                THEN NoClaim ELSE [claim[b] EXCEPT !.at = {call[b].dst}]
<1>1. claim \in [Callers -> K] /\ Shape(b) /\ ClaimShape(b)
  BY DEF SInv, Types, CallInv
<1>2. claim' = [claim EXCEPT ![b] = k] /\ call' = [call EXCEPT ![b] = Idle]
  BY DEF Returns
<1>3. k \in K
  BY <1>1, NoClaimType DEF Shape
<1>4. k.ok => /\ claim[b].ok /\ call[b].op # "get"
              /\ k.at = {call[b].dst} /\ k.content = claim[b].content
  BY <1>1, NoClaimType
<1>5. claim[b].ok /\ call[b].op # "get" => call[b].dst \in claim[b].at
  BY <1>1 DEF Shape, ClaimShape, Call, Reading, Writing, Putting, SInv, Types
<1>6. claim'[b] = k
  BY <1>1, <1>2
<1>7. EndsWell(b)
  BY <1>4, <1>5, <1>6 DEF EndsWell
<1> QED
  BY <1>2, <1>3, <1>7

LEMMA PutReturnsKeeps ==
  ASSUME SInv, NEW b \in Callers, PutReturns(b) PROVE SInv'
<1>1. /\ Types /\ Shape(b) /\ ClaimShape(b) /\ Kept(b) /\ KeepFiles /\ Returns(b)
      /\ dir' = dir /\ call[b].pc = "write" /\ call[b].off = Blocks
  BY DEF SInv, CallInv, PutReturns, At
<1>2. /\ call[b].op \in Putting /\ call[b].dst \in Paths /\ call[b].out \in Files
      /\ call[b].text \in Texts
  BY <1>1 DEF Shape, Types, Call
<1>3. claim[b].ok => Stored(call[b].dst, claim[b].content)
  <2>1. HAVE claim[b].ok
  <2>2. data[call[b].out] \in Seq(Block) /\ claim[b].content \in Seq(Block)
    BY <1>1, <1>2 DEF Types
  <2>3. data[call[b].out] = claim[b].content
    BY <1>1, <1>2, <2>1, <2>2, WholeType, PrefixIsAll, StorageAssumption DEF Kept
  <2> QED
    BY <1>1, <1>2, <2>1, <2>3 DEF Kept, Stored
<1>4. claim[b].ok => dir'[call[b].dst] \in Files
                     /\ data'[dir'[call[b].dst]] = claim[b].content
  BY <1>1, <1>2, <1>3, KeptStored
<1> QED
  BY <1>1, <1>4, ReturnedClaim, EndingStep DEF At, Types

LEMMA CopyReturnsKeeps ==
  ASSUME SInv, NEW b \in Callers, CopyReturns(b) PROVE SInv'
<1>1. /\ Types /\ Shape(b) /\ Kept(b) /\ KeepFiles /\ Returns(b)
      /\ dir' = dir /\ call[b].pc = "copying" /\ call[b].op = "copy"
      /\ call[b].off >= Len(data[call[b].in])
  BY DEF SInv, CallInv, CopyReturns, At
<1>2. /\ call[b].dst \in Paths /\ call[b].out \in Files /\ call[b].in \in Files
      /\ call[b].in # NoFile
  BY <1>1 DEF Shape, Types, Call, Reading
<1>3. claim[b].ok => Stored(call[b].dst, claim[b].content)
  <2>1. HAVE claim[b].ok
  <2>2. data[call[b].out] \in Seq(Block) /\ claim[b].content \in Seq(Block)
    BY <1>1, <1>2 DEF Types
  <2>3. data[call[b].out] = claim[b].content
    BY <1>1, <1>2, <2>1, <2>2, PrefixIsAll DEF Kept
  <2> QED
    BY <1>1, <1>2, <2>1, <2>3 DEF Kept, Stored
<1>4. claim[b].ok => dir'[call[b].dst] \in Files
                     /\ data'[dir'[call[b].dst]] = claim[b].content
  BY <1>1, <1>2, <1>3, KeptStored
<1> QED
  BY <1>1, <1>4, ReturnedClaim, EndingStep DEF At, Types

LEMMA ReadEndsKeeps ==
  ASSUME SInv, NEW b \in Callers, ReadEnds(b) PROVE SInv'
<1>1. /\ Types /\ Shape(b) /\ KeepFiles /\ Returns(b) /\ dir' = dir
      /\ call[b].pc = "reading" /\ call[b].op = "get"
  BY DEF SInv, CallInv, ReadEnds, At, Shape
<1> QED
  BY <1>1, ReturnedClaim, EndingStep DEF At, Types

LEMMA DeleteKeeps ==
  ASSUME SInv, NEW b \in Callers, Delete(b) PROVE SInv'
<1>1. /\ Types /\ Shape(b) /\ ClaimShape(b) /\ Kept(b) /\ KeepFiles /\ Returns(b)
      /\ dir' = [dir EXCEPT ![call[b].src] = NoFile] /\ call[b].pc = "delete"
  BY DEF SInv, CallInv, Delete, At
<1>2. call[b].op \in {"delete", "move"} /\ call[b].src \in Paths /\ call[b].dst \in Paths
  BY <1>1 DEF Shape
<1>3. claim[b].ok => dir'[call[b].dst] \in Files
                     /\ data'[dir'[call[b].dst]] = claim[b].content
  <2>1. HAVE claim[b].ok
  <2>2. Stored(call[b].dst, claim[b].content) /\ call[b].src # call[b].dst
    BY <1>1, <1>2, <2>1 DEF Kept, ClaimShape
  <2>3. dir'[call[b].dst] = dir[call[b].dst]
    BY <1>1, <1>2, <2>2 DEF Types
  <2> QED
    BY <1>1, <1>2, <2>2, <2>3, KeptStored
<1>4. \A p \in Paths : dir'[p] = dir[p] \/ (p \in Removes(call[b]) /\ dir'[p] = NoFile)
  <2>1. Removes(call[b]) = {call[b].src}
    BY <1>2 DEF Removes, Putting
  <2>2. \A p \in Paths : dir'[p] = IF p = call[b].src THEN NoFile ELSE dir[p]
    BY <1>1, <1>2 DEF Types
  <2> QED
    BY <2>1, <2>2
<1>5. dir' \in [Paths -> Files \cup {NoFile}]
  BY <1>1 DEF Types
<1>6. PICK k \in [ok : BOOLEAN, at : SUBSET Paths, content : Seq(Block)] :
        claim' = [claim EXCEPT ![b] = k]
  BY <1>1, <1>3, ReturnedClaim
<1>7. EndsWell(b) /\ call' = [call EXCEPT ![b] = Idle]
  BY <1>1, <1>3, ReturnedClaim
<1> QED
  BY <1>1, <1>4, <1>5, <1>6, <1>7, EndingStep DEF At

LEMMA CrashKeeps ==
  ASSUME SInv, Crash PROVE SInv'
<1>1. Types /\ FilesApart /\ KeepFiles /\ dir' = dir /\ call' = [c \in Callers |-> Idle]
  BY DEF SInv, Crash
<1>2. Idle \in Call /\ Idle.in = NoFile /\ Idle.out = NoFile
  BY EmptyType, StorageAssumption DEF Idle, Call, Block
<1>3. Types'
  <2>1. \A c \in Callers :
          Unfinished(c) \in [ok : BOOLEAN, at : SUBSET Paths, content : Seq(Block)]
    BY <1>1, NoClaimType DEF Types, Unfinished
  <2>2. claim' \in [Callers -> [ok : BOOLEAN, at : SUBSET Paths, content : Seq(Block)]]
    BY <1>1, <2>1 DEF Crash, Types
  <2> QED
    BY <1>1, <1>2, <2>2, KeepFilesType DEF Types
<1>4. FilesApart'
  <2>1. \A p \in Paths : dir'[p] \in {dir[p], NoFile}
    BY <1>1
  <2>2. \A c \in Callers : call'[c].in = NoFile /\ call'[c].out = NoFile
    BY <1>1, <1>2
  <2>3. FilesShrink
    BY <2>1, <2>2 DEF FilesShrink
  <2> QED
    BY <1>1, <2>3, ApartWhenShrinking
<1>5. ASSUME NEW c \in Callers PROVE CallInv(c)'
  <2>1. claim'[c] = IF At(c, "idle") THEN claim[c] ELSE Unfinished(c)
    BY DEF Crash
  <2>2. Shape(c) /\ Kept(c) /\ claim[c].at \subseteq Paths
    BY <1>1 DEF SInv, CallInv, Types
  <2>3. EndsWell(c)
    <3>1. CASE At(c, "idle")
      <4>1. claim[c].ok => \E p \in claim[c].at : Stored(p, claim[c].content)
        BY <2>2, <3>1 DEF Kept, At
      <4> QED
        BY <1>1, <2>1, <2>2, <3>1, <4>1, KeptStored DEF EndsWell
    <3>2. CASE ~At(c, "idle")
      BY <1>1, <2>1, <3>2, UnfinishedKeeps DEF EndsWell
    <3> QED
      BY <3>1, <3>2
  <2> QED
    BY <1>1, <2>3, EndedCall
<1> QED
  BY <1>3, <1>4, <1>5 DEF SInv

-----------------------------------------------------------------------------
(* A call goes on *)

\* The call goes on to another of its points, with the claim it had.
CallGoesOn(b) ==
  /\ \A c \in Callers \ {b} : call'[c] = call[c] /\ claim'[c] = claim[c]
  /\ call'[b].op = call[b].op
  /\ call'[b].src = call[b].src
  /\ call'[b].dst = call[b].dst
  /\ call[b].pc # "idle"
  /\ claim'[b].ok => claim[b].ok /\ claim'[b].at = claim[b].at

LEMMA GoesOnStep ==
  ASSUME SInv, NEW b \in Callers, CallGoesOn(b), Types', FilesApart',
         Shape(b)', Kept(b)', \A c \in Callers \ {b} : FilesKept(c)
  PROVE  SInv'
<1>1. StepOf(b)
  BY DEF CallGoesOn, StepOf
<1>2. ASSUME NEW c \in Callers \ {b} PROVE CallInv(c)'
  BY <1>1, OtherCalls
<1>3. ClaimShape(b)'
  <2>1. ClaimShape(b)
    BY DEF SInv, CallInv
  <2> QED
    BY <2>1 DEF ClaimShape, CallGoesOn
<1> QED
  BY <1>2, <1>3 DEF SInv, CallInv

LEMMA UnchangedFilesKept ==
  ASSUME dir' = dir, data' = data, NEW c \in Callers PROVE FilesKept(c)
  BY DEF FilesKept

LEMMA OpenKeeps ==
  ASSUME SInv, NEW b \in Callers, Open(b) PROVE SInv'
<1> DEFINE r == call[b]
           f == dir[r.src]
<1>1. Types /\ FilesApart /\ Shape(b) /\ ClaimShape(b) /\ Kept(b) /\ r \in Call
  BY DEF SInv, CallInv, Types
<1>2. r.pc = "open" /\ r.op \in Reading /\ r.src \in Paths /\ r.dst \in Paths
      /\ f # NoFile /\ f \in Files /\ r.out = NoFile /\ r.off = 0 /\ r.got = <<>>
      /\ dir' = dir /\ data' = data
  BY <1>1 DEF Open, At, Shape, Types
<1>3. call' = [call EXCEPT ![b] = [r EXCEPT !.in = f,
                 !.pc = IF r.op = "get" THEN "reading" ELSE "create"]]
  BY <1>1 DEF Open, Types
<1>4. claim' = [claim EXCEPT ![b] = IF @.ok THEN [@ EXCEPT !.content = data[f]] ELSE @]
  BY DEF Open
<1>5. \A c \in Callers : call'[c] = IF c = b
        THEN [r EXCEPT !.in = f, !.pc = IF r.op = "get" THEN "reading" ELSE "create"]
        ELSE call[c]
  BY <1>1, <1>3 DEF Types
<1>6. /\ call'[b].op = r.op /\ call'[b].src = r.src /\ call'[b].dst = r.dst
      /\ call'[b].in = f /\ call'[b].out = NoFile /\ call'[b].off = 0
      /\ call'[b].got = <<>> /\ call'[b].text = r.text
      /\ call'[b].pc = IF r.op = "get" THEN "reading" ELSE "create"
  BY <1>1, <1>2, <1>5 DEF Call
<1>7. claim'[b] = IF claim[b].ok THEN [claim[b] EXCEPT !.content = data[f]] ELSE claim[b]
  BY <1>1, <1>4 DEF Types
<1>8. Types'
  <2>1. call' \in [Callers -> Call]
    BY <1>1, <1>2, <1>3 DEF Types, Call
  <2>2. data[f] \in Seq(Block)
    BY <1>1, <1>2 DEF Types
  <2>3. claim' \in [Callers -> [ok : BOOLEAN, at : SUBSET Paths, content : Seq(Block)]]
    BY <1>1, <1>4, <2>2 DEF Types
  <2> QED
    BY <1>1, <1>2, <2>1, <2>3 DEF Types
<1>9. FilesApart'
  <2>1. \A p, q \in Paths : dir'[p] = dir'[q] /\ dir'[p] # NoFile => p = q
    BY <1>1, <1>2 DEF FilesApart
  <2>2. ASSUME NEW c \in Callers, NEW p \in Paths
        PROVE  /\ call'[c].in # NoFile /\ dir'[p] = call'[c].in => p = call'[c].src
               /\ call'[c].out # NoFile /\ dir'[p] = call'[c].out => p = call'[c].dst
    <3>1. CASE c = b
      BY <1>1, <1>2, <1>6, <3>1 DEF FilesApart
    <3>2. CASE c # b
      BY <1>1, <1>2, <1>5, <3>2 DEF FilesApart
    <3> QED
      BY <3>1, <3>2
  <2>3. ASSUME NEW c \in Callers, NEW d \in Callers
        PROVE  /\ call'[c].in # NoFile /\ call'[c].in = call'[d].out
                    => call'[c].src = call'[d].dst
               /\ call'[c].out # NoFile /\ call'[c].out = call'[d].out
                    => call'[c].dst = call'[d].dst
    <3>1. call'[c].out = call[c].out /\ call'[d].out = call[d].out
          /\ call'[c].src = call[c].src /\ call'[d].dst = call[d].dst
          /\ call'[c].dst = call[c].dst
      BY <1>2, <1>5, <1>6
    <3>2. CASE c = b
      BY <1>1, <1>2, <1>6, <3>1, <3>2 DEF FilesApart
    <3>3. CASE c # b
      BY <1>1, <1>5, <3>1, <3>3 DEF FilesApart
    <3> QED
      BY <3>2, <3>3
  <2> QED
    BY <2>1, <2>2, <2>3 DEF FilesApart
<1>10. Shape(b)'
  BY <1>1, <1>2, <1>6, StorageAssumption DEF Shape, Reading, Writing, Putting
<1>11. Kept(b)'
  <2>1. claim'[b].ok => claim'[b].content = data[f] /\ claim[b].ok
    BY <1>1, <1>7 DEF Types
  <2>2. r.op \notin Putting
    BY <1>2 DEF Reading, Putting
  <2>3. Prefix(<<>>, data[f])
    BY <1>1, <1>2 DEF Types, Prefix
  <2> QED
    BY <1>2, <1>6, <2>1, <2>2, <2>3 DEF Kept
<1>12. CallGoesOn(b)
  BY <1>1, <1>2, <1>4, <1>5, <1>6, <1>7 DEF CallGoesOn, Types
<1> QED
  BY <1>2, <1>8, <1>9, <1>10, <1>11, <1>12, GoesOnStep, UnchangedFilesKept

\* The steps that open no file need not look at whose files are whose.
LEMMA GoesOnClosing ==
  ASSUME SInv, NEW b \in Callers, CallGoesOn(b), Types', dir' = dir,
         call'[b].in # NoFile => call'[b].in = call[b].in,
         call'[b].out # NoFile => call'[b].out = call[b].out
  PROVE  FilesApart'
<1>1. FilesApart
  BY DEF SInv
<1>2. ASSUME NEW c \in Callers
      PROVE  /\ call'[c].in # NoFile => call'[c].in = call[c].in /\ call'[c].src = call[c].src
             /\ call'[c].out # NoFile => call'[c].out = call[c].out /\ call'[c].dst = call[c].dst
  BY DEF CallGoesOn
<1>3. FilesShrink
  BY <1>2 DEF FilesShrink
<1> QED
  BY <1>1, <1>3, ApartWhenShrinking

LEMMA PutFailsKeeps ==
  ASSUME SInv, NEW b \in Callers, PutFails(b) PROVE SInv'
<1> DEFINE r == call[b]
<1>1. /\ Types /\ Shape(b) /\ Kept(b) /\ r \in Call /\ r.pc = "write" /\ r.op \in Putting
      /\ dir' = dir /\ data' = data /\ claim' = claim
  BY DEF SInv, CallInv, Types, PutFails, At, Shape
<1>2. call' = [call EXCEPT ![b] = [r EXCEPT !.pc = "remove"]]
  BY <1>1 DEF PutFails, Types
<1>3. \A c \in Callers : call'[c] = IF c = b THEN [r EXCEPT !.pc = "remove"] ELSE call[c]
  BY <1>1, <1>2 DEF Types
<1>4. /\ call'[b].op = r.op /\ call'[b].src = r.src /\ call'[b].dst = r.dst
      /\ call'[b].in = r.in /\ call'[b].out = r.out /\ call'[b].off = r.off
      /\ call'[b].got = r.got /\ call'[b].text = r.text /\ call'[b].pc = "remove"
  BY <1>1, <1>3 DEF Call
<1>5. Types'
  BY <1>1, <1>2 DEF Types, Call
<1>6. CallGoesOn(b)
  BY <1>1, <1>3, <1>4 DEF CallGoesOn
<1>7. Shape(b)'
  BY <1>1, <1>4 DEF Shape, Reading, Putting
<1>8. Kept(b)'
  <2>1. r.in = NoFile
    BY <1>1 DEF Shape, Reading, Putting
  <2> QED
    BY <1>1, <1>4, <2>1 DEF Kept
<1> QED
  BY <1>1, <1>4, <1>5, <1>6, <1>7, <1>8, GoesOnStep, GoesOnClosing, UnchangedFilesKept

LEMMA ReadKeeps ==
  ASSUME SInv, NEW b \in Callers, Read(b) PROVE SInv'
<1> DEFINE r == call[b]
           s == data[r.in]
           n == Len(r.got) + 1
           got == Append(r.got, s[n])
<1>1. /\ Types /\ Shape(b) /\ Kept(b) /\ r \in Call /\ r.pc = "reading" /\ r.op = "get"
      /\ n <= Len(s) /\ dir' = dir /\ data' = data /\ claim' = claim
  BY DEF SInv, CallInv, Types, Read, At, Shape
<1>2. call' = [call EXCEPT ![b] = [r EXCEPT !.got = got]]
  BY <1>1 DEF Read, Types
<1>3. \A c \in Callers : call'[c] = IF c = b THEN [r EXCEPT !.got = got] ELSE call[c]
  BY <1>1, <1>2 DEF Types
<1>4. r.in # NoFile /\ r.in \in Files /\ s \in Seq(Block) /\ r.got \in Seq(Block)
  BY <1>1 DEF Shape, Reading, Types, Call
<1>5. got \in Seq(Block)
  <2>1. Len(r.got) \in Nat /\ Len(s) \in Nat
    BY <1>4
  <2>2. n \in 1..Len(s)
    BY <1>1, <2>1
  <2> QED
    BY <1>4, <2>2
<1>6. /\ call'[b].op = r.op /\ call'[b].src = r.src /\ call'[b].dst = r.dst
      /\ call'[b].in = r.in /\ call'[b].out = r.out /\ call'[b].off = r.off
      /\ call'[b].got = got /\ call'[b].text = r.text /\ call'[b].pc = r.pc
  BY <1>1, <1>3 DEF Call
<1>7. Types'
  BY <1>1, <1>2, <1>5 DEF Types, Call
<1>8. CallGoesOn(b)
  BY <1>1, <1>3, <1>6 DEF CallGoesOn
<1>9. Shape(b)'
  BY <1>1, <1>6 DEF Shape, Reading, Putting
<1>10. Kept(b)'
  <2>1. claim[b].ok => Prefix(got, claim[b].content)
    <3>1. HAVE claim[b].ok
    <3>2. Prefix(r.got, s) /\ s = claim[b].content
      BY <1>1, <1>4, <3>1 DEF Kept
    <3>3. Len(r.got) < Len(s)
      BY <1>1, <1>4
    <3> QED
      BY <1>4, <3>2, <3>3, PrefixAppend
  <2> QED
    BY <1>1, <1>6, <2>1 DEF Kept, Putting
<1> QED
  BY <1>1, <1>6, <1>7, <1>8, <1>9, <1>10, GoesOnStep, GoesOnClosing, UnchangedFilesKept

LEMMA MoveCopiedKeeps ==
  ASSUME SInv, NEW b \in Callers, MoveCopied(b) PROVE SInv'
<1> DEFINE r == call[b]
           s == [r EXCEPT !.pc = "delete", !.in = NoFile, !.out = NoFile, !.off = 0]
<1>1. /\ Types /\ Shape(b) /\ ClaimShape(b) /\ Kept(b) /\ r \in Call /\ KeepFiles
      /\ r.pc = "copying" /\ r.op = "move" /\ r.off >= Len(data[r.in])
      /\ dir' = dir /\ claim' = claim /\ call' = [call EXCEPT ![b] = s]
  BY DEF SInv, CallInv, Types, MoveCopied, At
<1>2. /\ r.src \in Paths /\ r.dst \in Paths /\ r.in # NoFile /\ r.in \in Files
      /\ r.out # NoFile /\ r.out \in Files
  BY <1>1 DEF Shape, Reading, Call
<1>3. \A c \in Callers : call'[c] = IF c = b THEN s ELSE call[c]
  BY <1>1 DEF Types
<1>4. /\ call'[b].op = r.op /\ call'[b].src = r.src /\ call'[b].dst = r.dst
      /\ call'[b].in = NoFile /\ call'[b].out = NoFile /\ call'[b].off = 0
      /\ call'[b].got = r.got /\ call'[b].text = r.text /\ call'[b].pc = "delete"
  <2>1. /\ s.op = r.op /\ s.src = r.src /\ s.dst = r.dst /\ s.in = NoFile /\ s.out = NoFile
        /\ s.off = 0 /\ s.got = r.got /\ s.text = r.text /\ s.pc = "delete"
    BY <1>1 DEF Call
  <2>2. call'[b] = s
    BY <1>3
  <2> HIDE DEF s
  <2> QED
    BY <2>1, <2>2
<1>5. Types'
  <2>1. s \in Call
    BY <1>1 DEF Call
  <2>2. call' \in [Callers -> Call]
    BY <1>1, <2>1 DEF Types
  <2> QED
    BY <1>1, <2>2, KeepFilesType DEF Types
<1>6. CallGoesOn(b)
  BY <1>1, <1>3, <1>4 DEF CallGoesOn
<1>7. Shape(b)'
  BY <1>1, <1>4 DEF Shape, Reading, Putting
<1>8. Kept(b)'
  <2>1. ASSUME claim[b].ok
        PROVE  dir'[r.dst] \in Files /\ data'[dir'[r.dst]] = claim[b].content
    <3>1. data[r.out] \in Seq(Block) /\ claim[b].content \in Seq(Block)
      BY <1>1, <1>2 DEF Types
    <3>2. Stored(r.dst, claim[b].content)
      BY <1>1, <1>2, <2>1, <3>1, PrefixIsAll DEF Kept, Stored
    <3> QED
      BY <1>1, <1>2, <3>2, KeptStored
  <2>2. claim[b].ok => Stored(r.dst, claim[b].content)'
    BY <1>1, <1>4, <2>1 DEF Stored
  <2> QED
    BY <1>1, <1>4, <2>2 DEF Kept, Stored, Putting
<1>9. ASSUME NEW c \in Callers \ {b} PROVE FilesKept(c)
  <2>1. StepOf(b) /\ Removes(call[b]) \subseteq Paths
    BY <1>1, <1>2, <1>6 DEF CallGoesOn, StepOf, Removes
  <2> QED
    BY <1>1, <2>1, KeptByKeepFiles
<1> QED
  BY <1>1, <1>4, <1>5, <1>6, <1>7, <1>8, <1>9, GoesOnStep, GoesOnClosing

\* A write that appends the next block of what the call counts on.
LEMMA WriteKeeps ==
  ASSUME SInv, NEW b \in Callers, NEW block \in Block, Write(b, block),
         call[b].pc \in {"write", "copying"},
         claim[b].ok => /\ call[b].off < Len(claim[b].content)
                        /\ block = claim[b].content[call[b].off + 1]
  PROVE  SInv'
<1> DEFINE r == call[b]
           n == r.off + 1
           f == r.out
           s == Overwritten(data[f], n, block)
<1>1. /\ Types /\ FilesApart /\ Shape(b) /\ ClaimShape(b) /\ Kept(b) /\ r \in Call
      /\ dir' = dir /\ claim' = claim
  BY DEF SInv, CallInv, Types, Write
<1>2. data' = [data EXCEPT ![f] = s] /\ call' = [call EXCEPT ![b] = [r EXCEPT !.off = n]]
  BY <1>1 DEF Write, Types
<1>3. /\ f # NoFile /\ f \in Files /\ r.off \in Nat /\ n \in Nat \ {0}
      /\ r.src \in Paths /\ r.dst \in Paths
  BY <1>1 DEF Shape, Call
<1>4. \A c \in Callers : call'[c] = IF c = b THEN [r EXCEPT !.off = n] ELSE call[c]
  BY <1>1, <1>2 DEF Types
<1>5. /\ call'[b].op = r.op /\ call'[b].src = r.src /\ call'[b].dst = r.dst
      /\ call'[b].in = r.in /\ call'[b].out = r.out /\ call'[b].off = n
      /\ call'[b].got = r.got /\ call'[b].text = r.text /\ call'[b].pc = r.pc
  BY <1>1, <1>4 DEF Call
<1>6. data[f] \in Seq(Block) /\ s \in Seq(Block)
  BY <1>1, <1>3, OverwrittenType DEF Types
<1>7. Types'
  <2>1. data' \in [Files -> Seq(Block)]
    BY <1>1, <1>2, <1>6 DEF Types
  <2>2. call' \in [Callers -> Call]
    BY <1>1, <1>2, <1>3 DEF Types, Call
  <2> QED
    BY <1>1, <2>1, <2>2 DEF Types
<1>8. CallGoesOn(b)
  BY <1>1, <1>4, <1>5 DEF CallGoesOn
<1>9. Shape(b)'
  BY <1>1, <1>5 DEF Shape, Reading, Putting
<1>10. Kept(b)'
  <2>1. SUFFICES ASSUME claim[b].ok PROVE Kept(b)'
    BY <1>1 DEF Kept
  <2> DEFINE t == claim[b].content
  <2>2. t \in Seq(Block) /\ Len(data[f]) = r.off /\ Prefix(data[f], t) /\ dir[r.dst] = f
    BY <1>1, <2>1 DEF Kept, Types
  <2>3. data'[f] = s
    BY <1>1, <1>2, <1>3 DEF Types
  <2>4. Len(s) = n /\ Prefix(s, t)
    BY <1>6, <2>1, <2>2, WriteAppends
  <2>5. r.in # NoFile => r.in # f /\ r.in \in Files
    <3>1. r.in # NoFile => r.op \in {"copy", "move"}
      BY <1>1 DEF Shape, Reading, Putting
    <3>2. r.in # NoFile => r.src # r.dst
      BY <1>1, <2>1, <3>1 DEF ClaimShape
    <3> QED
      BY <1>1, <3>2 DEF FilesApart, Call
  <2>6. r.in # NoFile => data'[r.in] = data[r.in]
    BY <1>1, <1>2, <2>5 DEF Types
  <2>7. /\ r.op \in Putting => t = Whole(r.text)
        /\ r.in # NoFile => data[r.in] = t /\ (r.op = "move" => dir[r.src] = r.in)
    BY <1>1, <2>1 DEF Kept
  <2> QED
    BY <1>1, <1>5, <2>2, <2>3, <2>4, <2>6, <2>7 DEF Kept
<1>11. ASSUME NEW c \in Callers \ {b} PROVE FilesKept(c)
  BY <1>1, <1>2, <1>3, KeptByWrite DEF Types
<1> QED
  BY <1>1, <1>5, <1>7, <1>8, <1>9, <1>10, <1>11, GoesOnStep, GoesOnClosing

LEMMA PutBlockKeeps ==
  ASSUME SInv, NEW b \in Callers, PutBlock(b) PROVE SInv'
<1>1. /\ Types /\ Shape(b) /\ Kept(b) /\ call[b] \in Call /\ call[b].pc = "write"
      /\ call[b].off < Blocks /\ Write(b, call[b].text)
  BY DEF SInv, CallInv, Types, PutBlock, At
<1>2. call[b].op \in Putting /\ call[b].text \in Texts /\ call[b].off \in Nat
  BY <1>1 DEF Shape, Call
<1>3. call[b].text \in Block
  BY <1>2 DEF Block
<1>4. claim[b].ok => /\ call[b].off < Len(claim[b].content)
                     /\ call[b].text = claim[b].content[call[b].off + 1]
  BY <1>1, <1>2, WholeType, StorageAssumption DEF Kept
<1> QED
  BY <1>1, <1>3, <1>4, WriteKeeps

LEMMA CopyBlockKeeps ==
  ASSUME SInv, NEW b \in Callers, CopyBlock(b) PROVE SInv'
<1> DEFINE s == data[call[b].in]
           n == call[b].off + 1
<1>1. /\ Types /\ Shape(b) /\ Kept(b) /\ call[b] \in Call /\ call[b].pc = "copying"
      /\ n <= Len(s) /\ Write(b, s[n])
  BY DEF SInv, CallInv, Types, CopyBlock, At
<1>2. call[b].in # NoFile /\ call[b].in \in Files /\ s \in Seq(Block) /\ call[b].off \in Nat
  BY <1>1 DEF Shape, Call, Types, Reading
<1>3. s[n] \in Block
  BY <1>1, <1>2
<1>4. claim[b].ok => s = claim[b].content
  BY <1>1, <1>2 DEF Kept
<1>5. claim[b].ok => /\ call[b].off < Len(claim[b].content)
                     /\ s[n] = claim[b].content[call[b].off + 1]
  BY <1>1, <1>2, <1>4
<1> QED
  BY <1>1, <1>3, <1>5, WriteKeeps

LEMMA CreateKeeps ==
  ASSUME SInv, NEW b \in Callers, Create(b) PROVE SInv'
<1> DEFINE r == call[b]
           p == r.dst
           pc == IF r.op \in Reading THEN "copying" ELSE "write"
<1>1. Types /\ FilesApart /\ Shape(b) /\ ClaimShape(b) /\ Kept(b) /\ r \in Call
  BY DEF SInv, CallInv, Types
<1>2. /\ r.pc = "create" /\ claim' = claim /\ r.op \in Writing /\ r.src \in Paths
      /\ p \in Paths /\ r.out = NoFile /\ r.off = 0 /\ r.got = <<>>
  BY <1>1 DEF Create, At, Shape
<1>3. PICK f \in Files :
        /\ IF dir[p] # NoFile THEN f = dir[p] ELSE ~Linked(f) /\ ~Held(f)
        /\ dir' = [dir EXCEPT ![p] = f] /\ data' = [data EXCEPT ![f] = <<>>]
        /\ call' = [call EXCEPT ![b] = [r EXCEPT !.out = f, !.pc = pc]]
  BY <1>1 DEF Create, Types
<1>4. \A c \in Callers : call'[c] = IF c = b THEN [r EXCEPT !.out = f, !.pc = pc] ELSE call[c]
  BY <1>1, <1>3 DEF Types
<1>5. /\ call'[b].op = r.op /\ call'[b].src = r.src /\ call'[b].dst = r.dst
      /\ call'[b].in = r.in /\ call'[b].out = f /\ call'[b].off = 0
      /\ call'[b].got = <<>> /\ call'[b].text = r.text /\ call'[b].pc = pc
  BY <1>1, <1>2, <1>4 DEF Call
<1>6. f # NoFile /\ \A q \in Paths : dir'[q] = IF q = p THEN f ELSE dir[q]
  BY <1>1, <1>2, <1>3, StorageAssumption DEF Types
<1>7. \A q \in Paths : dir[q] = f => q = p
  BY <1>1, <1>2, <1>3, <1>6 DEF FilesApart, Linked
<1>8. \A c \in Callers : /\ call[c].in = f => call[c].src = p
                         /\ call[c].out = f => call[c].dst = p
  BY <1>1, <1>2, <1>3, <1>6 DEF FilesApart, Held
<1>9. Types'
  <2>1. data' \in [Files -> Seq(Block)]
    BY <1>1, <1>3, EmptyType DEF Types
  <2>2. call' \in [Callers -> Call]
    BY <1>1, <1>3 DEF Types, Call
  <2> QED
    BY <1>1, <1>2, <1>3, <2>1, <2>2 DEF Types
<1>10. \A c \in Callers :
         /\ call'[c].in = call[c].in /\ call'[c].src = call[c].src /\ call'[c].dst = call[c].dst
         /\ call'[c].out = IF c = b THEN f ELSE call[c].out
  BY <1>4, <1>5
<1>11. FilesApart'
  <2>1. \A q, s \in Paths : dir'[q] = dir'[s] /\ dir'[q] # NoFile => q = s
    BY <1>1, <1>6, <1>7 DEF FilesApart
  <2>2. ASSUME NEW c \in Callers, NEW q \in Paths
        PROVE  /\ call'[c].in # NoFile /\ dir'[q] = call'[c].in => q = call'[c].src
               /\ call'[c].out # NoFile /\ dir'[q] = call'[c].out => q = call'[c].dst
    BY <1>1, <1>6, <1>7, <1>8, <1>10 DEF FilesApart
  <2>3. ASSUME NEW c \in Callers, NEW d \in Callers
        PROVE  /\ call'[c].in # NoFile /\ call'[c].in = call'[d].out
                    => call'[c].src = call'[d].dst
               /\ call'[c].out # NoFile /\ call'[c].out = call'[d].out
                    => call'[c].dst = call'[d].dst
    BY <1>1, <1>6, <1>8, <1>10 DEF FilesApart
  <2> QED
    BY <2>1, <2>2, <2>3 DEF FilesApart
<1>12. Shape(b)'
  BY <1>1, <1>2, <1>5, <1>6 DEF Shape, Reading, Writing, Putting
<1>13. Kept(b)'
  <2>1. SUFFICES ASSUME claim[b].ok PROVE Kept(b)'
    BY <1>2 DEF Kept
  <2> DEFINE t == claim[b].content
  <2>2. data'[f] = <<>> /\ Prefix(<<>>, t)
    BY <1>1, <1>3 DEF Types, Prefix
  <2>3. r.in # NoFile => r.src # p /\ r.in \in Files /\ r.in # f
    <3>1. r.in # NoFile => r.op \in {"copy", "move"}
      BY <1>1, <1>2 DEF Shape, Reading, Writing, Putting
    <3> QED
      BY <1>1, <1>2, <1>8, <2>1, <3>1 DEF ClaimShape, Call
  <2>4. r.in # NoFile => data'[r.in] = data[r.in] /\ dir'[r.src] = dir[r.src]
    BY <1>1, <1>2, <1>3, <1>6, <2>3 DEF Types
  <2>5. /\ r.op \in Putting => t = Whole(r.text)
        /\ r.in # NoFile => data[r.in] = t /\ (r.op = "move" => dir[r.src] = r.in)
    BY <1>1, <2>1 DEF Kept
  <2>6. call'[b].pc \in {"write", "copying"} /\ dir'[p] = f
    BY <1>2, <1>5, <1>6
  <2> QED
    BY <1>2, <1>5, <2>2, <2>4, <2>5, <2>6, EmptyType DEF Kept
<1>14. CallGoesOn(b)
  BY <1>2, <1>4, <1>5 DEF CallGoesOn
<1>15. ASSUME NEW c \in Callers \ {b} PROVE FilesKept(c)
  BY KeptByCreate
<1> QED
  BY <1>9, <1>11, <1>12, <1>13, <1>14, <1>15, GoesOnStep

-----------------------------------------------------------------------------
(* A call begins *)

\* It ends the claims it gets in the way of, and has one when nobody is in its.
LEMMA BeginKeeps ==
  ASSUME SInv, NEW c \in Callers, NEW op \in Reading \cup Writing \cup {"delete"},
         NEW p \in Paths, NEW q \in Paths, NEW text \in Block,
         op \notin {"copy", "move"} => p = q, op \in Putting => text \in Texts,
         Begin(c, op, p, q, text)
  PROVE  SInv'
<1> DEFINE pc == CASE op \in Reading -> "open"
                   [] op = "delete" -> "delete"
                   [] OTHER -> "create"
           new == [Idle EXCEPT !.op = op, !.src = p, !.dst = q, !.text = text, !.pc = pc]
           at == CASE op = "move" -> {p, q}
                   [] op \in {"put", "upload", "copy"} -> {q}
                   [] OTHER -> {}
           alone == \A b \in Callers \ {c} : ~Disturbs(call[b], p, at)
           own == [ok |-> TRUE, at |-> at,
                   content |-> IF op \in Putting THEN Whole(text) ELSE <<>>]
<1>1. Types /\ FilesApart /\ At(c, "idle") /\ dir' = dir /\ data' = data
      /\ call' = [call EXCEPT ![c] = new]
  BY DEF SInv, Begin
<1>2. claim' = [d \in Callers |->
         CASE d # c /\ ~Disturbs(new, call[d].src, claim[d].at) -> claim[d]
           [] d = c /\ alone /\ op # "delete" /\ (op \in {"copy", "move"} => p # q) -> own
           [] OTHER -> NoClaim]
  BY DEF Begin
<1>3. /\ new.op = op /\ new.src = p /\ new.dst = q /\ new.text = text /\ new.pc = pc
      /\ new.in = NoFile /\ new.out = NoFile /\ new.off = 0 /\ new.got = <<>>
  BY DEF Idle
<1>4. new \in Call
  BY EmptyType, StorageAssumption DEF Idle, Call, Block, Reading, Writing
<1> HIDE DEF new
<1>5. \A d \in Callers : call'[d] = IF d = c THEN new ELSE call[d]
  BY <1>1 DEF Types
<1>6. claim'[c].ok => claim'[c] = own /\ alone /\ op # "delete"
                      /\ (op \in {"copy", "move"} => p # q)
  BY <1>2, NoClaimType
<1>7. ASSUME NEW d \in Callers \ {c}, claim'[d].ok
      PROVE  claim'[d] = claim[d] /\ ~Disturbs(new, call[d].src, claim[d].at)
  BY <1>2, <1>7, NoClaimType
<1>8. Types'
  <2>1. call' \in [Callers -> Call]
    BY <1>1, <1>4 DEF Types
  <2>2. own \in [ok : BOOLEAN, at : SUBSET Paths, content : Seq(Block)]
    BY WholeType, EmptyType
  <2>3. claim' \in [Callers -> [ok : BOOLEAN, at : SUBSET Paths, content : Seq(Block)]]
    BY <1>1, <1>2, <2>2, NoClaimType DEF Types
  <2> QED
    BY <1>1, <2>1, <2>3 DEF Types
<1>9. FilesApart'
  <2>1. \A p_1 \in Paths : dir'[p_1] \in {dir[p_1], NoFile}
    BY <1>1
  <2>2. ASSUME NEW d \in Callers
        PROVE  /\ call'[d].in # NoFile => call'[d].in = call[d].in /\ call'[d].src = call[d].src
               /\ call'[d].out # NoFile => call'[d].out = call[d].out /\ call'[d].dst = call[d].dst
    BY <1>3, <1>5
  <2>3. FilesShrink
    BY <2>1, <2>2 DEF FilesShrink
  <2> QED
    BY <1>1, <2>3, ApartWhenShrinking
<1>10. ASSUME NEW d \in Callers \ {c} PROVE CallInv(d)'
  <2>1. call'[d] = call[d] /\ Shape(d) /\ ClaimShape(d)
    BY <1>5 DEF SInv, CallInv
  <2>2. Shape(d)'
    BY <2>1 DEF Shape
  <2>3. CASE ~claim'[d].ok
    BY <2>2, <2>3 DEF CallInv, ClaimShape, Kept
  <2>4. CASE claim'[d].ok
    <3>1. claim'[d] = claim[d] /\ ~Disturbs(new, call[d].src, claim[d].at)
      BY <1>7, <2>4
    <3>2. ASSUME NEW b \in Callers \ {d} PROVE ~Disturbs(call'[b], call[d].src, claim[d].at)
      BY <1>5, <2>1, <2>4, <3>1 DEF ClaimShape
    <3>3. ClaimShape(d)'
      BY <2>1, <3>1, <3>2 DEF ClaimShape
    <3>4. Kept(d)'
      BY <1>1, <2>1, <3>1, KeptFrame, UnchangedFilesKept
    <3> QED
      BY <2>2, <3>3, <3>4 DEF CallInv
  <2> QED
    BY <2>3, <2>4
<1>11. call'[c] = new
  BY <1>5
<1>12. pc # "idle" /\ pc \in {"open", "delete", "create"}
  OBVIOUS
<1>13. Shape(c)'
  BY <1>3, <1>11, <1>12 DEF Shape, Reading, Writing, Putting
<1>14. ClaimShape(c)'
  <2>1. SUFFICES ASSUME claim'[c].ok PROVE ClaimShape(c)'
    BY DEF ClaimShape
  <2>2. claim'[c] = own /\ alone
    BY <1>6, <2>1
  <2>3. \A d \in Callers \ {c} : ~Disturbs(call'[d], p, at)
    BY <1>5, <2>2
  <2>4. claim'[c].at = at
    BY <2>2
  <2>5. /\ op = "move" => at = {p, q}
        /\ op \in {"put", "upload", "copy"} => at = {q}
        /\ op = "get" => at = {}
    OBVIOUS
  <2> HIDE DEF alone, at
  <2> QED
    BY <1>3, <1>6, <1>11, <2>1, <2>3, <2>4, <2>5 DEF ClaimShape
<1>15. Kept(c)'
  <2>1. SUFFICES ASSUME claim'[c].ok PROVE Kept(c)'
    BY DEF Kept
  <2>2. op \in Putting => claim'[c].content = Whole(text)
    BY <1>6, <2>1
  <2> QED
    BY <1>3, <1>6, <1>11, <1>12, <2>1, <2>2 DEF Kept
<1> QED
  BY <1>8, <1>9, <1>10, <1>13, <1>14, <1>15 DEF SInv, CallInv

LEMMA BeginOneKeeps ==
  ASSUME SInv, NEW c \in Callers, BeginOne(c) PROVE SInv'
<1>1. Hole \in Block /\ Texts \subseteq Block
  BY DEF Block
<1>2. ASSUME NEW p \in Paths, NEW text \in Texts, Begin(c, "put", p, p, text) PROVE SInv'
  BY <1>1, <1>2, BeginKeeps DEF Writing
<1>3. ASSUME NEW p \in Paths, NEW q \in Paths, NEW op \in {"copy", "move"},
             Begin(c, op, p, q, Hole)
      PROVE  SInv'
  BY <1>1, <1>3, BeginKeeps DEF Reading, Putting
<1>4. ASSUME NEW p \in Paths, NEW op \in {"delete", "get"}, Begin(c, op, p, p, Hole)
      PROVE  SInv'
  BY <1>1, <1>4, BeginKeeps DEF Reading, Putting
<1> QED
  BY <1>2, <1>3, <1>4 DEF BeginOne

LEMMA ContinueKeeps ==
  ASSUME SInv, NEW c \in Callers, Continue(c) PROVE SInv'
  BY PutReturnsKeeps, DeleteKeeps, FailsKeeps, OpenKeeps, CreateKeeps, PutBlockKeeps,
     PutFailsKeeps, PutRemovesKeeps, CopyBlockKeeps, CopyReturnsKeeps, MoveCopiedKeeps,
     ReadKeeps, ReadEndsKeeps DEF Continue, GoesOn

\* The steps of the Manager and the application are steps of the storage.
LEMMA UploadStep ==
  ASSUME UploadNext
  PROVE  \/ Crash \/ UNCHANGED storage
         \/ \E c \in Callers :
              \/ BeginOne(c) \/ Continue(c)
              \/ \E p \in Paths, text \in Texts : Begin(c, "upload", p, p, text)
<1>1. CASE Restart
  BY <1>1 DEF Restart
<1>2. CASE \E f \in Incoming : Refuse(f)
  BY <1>2 DEF Refuse
<1>3. ASSUME NEW c \in Callers, Handle(c)
      PROVE  \/ BeginOne(c) \/ Continue(c)
             \/ \E p \in Paths, text \in Texts : Begin(c, "upload", p, p, text)
  <2>1. CASE Use(c)
    BY <2>1 DEF Use
  <2>2. CASE Step(c)
    BY <2>2 DEF Step, Continue
  <2>3. CASE \E f \in Incoming, p \in Paths, text \in Texts : Upload(c, f, p, text)
    BY <2>3 DEF Upload, UploadTo
  <2>4. CASE \E f \in Incoming, p \in Paths, text \in Texts : UploadReader(c, f, p, text)
    BY <2>4 DEF UploadReader, UploadTo, UploadOver, BeginOne
  <2> QED
    BY <1>3, <2>1, <2>2, <2>3, <2>4 DEF Handle
<1> QED
  BY <1>1, <1>2, <1>3 DEF UploadNext

LEMMA SInvInit ==
  ASSUME Init PROVE SInv
<1>1. Idle \in Call /\ Idle.in = NoFile /\ Idle.out = NoFile /\ Idle.op = "none"
  BY EmptyType, StorageAssumption DEF Idle, Call, Block
<1>2. Types /\ FilesApart
  BY <1>1, NoClaimType, EmptyType DEF Init, Types, FilesApart
<1>3. ASSUME NEW c \in Callers PROVE CallInv(c)
  <2>1. call[c] = Idle /\ ~claim[c].ok
    BY NoClaimType DEF Init
  <2>2. Shape(c)
    BY <2>1 DEF Shape, Idle
  <2> QED
    BY <2>1, <2>2 DEF CallInv, ClaimShape, Kept
<1> QED
  BY <1>2, <1>3 DEF SInv

LEMMA SInvNext ==
  ASSUME SInv, [UploadNext]_vars PROVE SInv'
<1>1. CASE UNCHANGED storage
  BY <1>1 DEF SInv, Types, FilesApart, CallInv, Shape, ClaimShape, Kept, Stored, storage
<1>2. ASSUME NEW c \in Callers, NEW p \in Paths, NEW text \in Texts,
             Begin(c, "upload", p, p, text)
      PROVE  SInv'
  BY <1>2, BeginKeeps DEF Writing, Block
<1> QED
  BY <1>1, <1>2, UploadStep, BeginOneKeeps, ContinueKeeps, CrashKeeps DEF vars

-----------------------------------------------------------------------------
(* The properties of the storage *)

\* The storage keeps its invariant under the Manager and the application.
THEOREM StorageInvariant == UploadSpec => []SInv
<1>1. UploadInit => SInv
  BY SInvInit DEF UploadInit
<1>2. SInv /\ [UploadNext]_vars => SInv'
  BY SInvNext
<1> QED
  BY <1>1, <1>2, PTL DEF UploadSpec

\* Types; no two paths name one file, and a call has files open only while it
\* copies or reads (local.go:49-51, 134-144).
THEOREM StorageTypes == UploadSpec => []StorageTypeOK
<1>1. SInv => StorageTypeOK
  <2>1. SUFFICES ASSUME SInv PROVE StorageTypeOK
    OBVIOUS
  <2>2. Types /\ FilesApart
    BY <2>1 DEF SInv
  <2>3. ASSUME NEW c \in Callers
        PROVE  /\ call[c].in # NoFile => call[c].op \in Reading
                    /\ call[c].pc \in {"create", "copying", "reading"}
               /\ call[c].out # NoFile => call[c].op \in Writing
                    /\ call[c].pc \in {"write", "remove", "copying"}
    <3>1. Shape(c)
      BY <2>1 DEF SInv, CallInv
    <3> QED
      BY <3>1 DEF Shape, Writing, Putting
  <2> QED
    BY <2>2, <2>3 DEF StorageTypeOK, Types, FilesApart
<1> QED
  BY <1>1, StorageInvariant, PTL

\* What a Put, Copy or Move that returned nil has stored is whole, and stays so
\* until somebody writes or removes at its destination (local.go:41-74, 117-146).
THEOREM SuccessIsAlwaysWhole == UploadSpec => []SuccessIsWhole
<1>1. SInv => SuccessIsWhole
  <2>1. SUFFICES ASSUME SInv, NEW c \in Callers, NEW p \in Paths,
                        At(c, "idle"), claim[c].ok, claim[c].at = {p}
                 PROVE  Content(p) = claim[c].content
    BY DEF SuccessIsWhole
  <2>2. Stored(p, claim[c].content)
    BY <2>1 DEF SInv, CallInv, Kept, At
  <2> QED
    BY <2>2, StorageAssumption DEF Stored, Content
<1> QED
  BY <1>1, StorageInvariant, PTL

\* A Move keeps the content at one of its two paths through every step, failure
\* and crash (local.go:126-131).
THEOREM MovesLoseNothing == UploadSpec => []MoveLosesNothing
<1>1. SInv => MoveLosesNothing
  <2>1. SUFFICES ASSUME SInv, NEW c \in Callers, NEW p \in Paths, NEW q \in Paths,
                        p # q, claim[c].ok, claim[c].at = {p, q}, ~At(c, "open")
                 PROVE  claim[c].content \in {Content(p), Content(q)}
    BY DEF MoveLosesNothing
  <2>2. Shape(c) /\ ClaimShape(c) /\ Kept(c) /\ call[c] \in Call
    BY <2>1 DEF SInv, CallInv, Types
  <2>3. \E s \in {p, q} : Stored(s, claim[c].content)
    <3>1. CASE call[c].pc = "idle"
      BY <2>1, <2>2, <3>1 DEF Kept
    <3>2. CASE call[c].pc # "idle"
      <4>1. call[c].op = "move" /\ call[c].src \in {p, q} /\ call[c].dst \in {p, q}
        <5>1. call[c].op \notin {"put", "upload", "copy", "get", "delete", "none"}
          <6>1. claim[c].at # {} /\ \A s : claim[c].at # {s}
            BY <2>1
          <6>2. call[c].op \notin {"put", "upload", "copy", "get"}
            BY <2>1, <2>2, <3>2, <6>1 DEF ClaimShape
          <6> QED
            BY <2>1, <2>2, <3>2, <6>2 DEF ClaimShape, Shape
        <5>2. call[c].op = "move"
          BY <2>2, <5>1 DEF Call, Reading, Writing, Putting
        <5> QED
          BY <2>1, <2>2, <3>2, <5>2 DEF ClaimShape
      <4>2. CASE call[c].pc \in {"create", "copying"}
        <5>1. call[c].in # NoFile /\ call[c].in \in Files
          BY <2>2, <4>1, <4>2 DEF Shape, Reading, Call
        <5> QED
          BY <2>1, <2>2, <4>1, <5>1 DEF Kept, Stored
      <4>3. CASE call[c].pc = "delete"
        BY <2>1, <2>2, <4>1, <4>3 DEF Kept
      <4> QED
        BY <2>1, <2>2, <3>2, <4>1, <4>2, <4>3 DEF Shape, Call, At, Putting
    <3> QED
      BY <3>1, <3>2
  <2> QED
    BY <2>3, StorageAssumption DEF Stored, Content
<1> QED
  BY <1>1, StorageInvariant, PTL

\* A Get that has opened its file reads all of it (local.go:76-78).
THEOREM ReadersAlwaysSeeWhole == UploadSpec => ReadersSeeWhole
<1>1. SInv => \A c \in Callers : claim[c].ok /\ ReadEnds(c) => call[c].got = claim[c].content
  <2>1. SUFFICES ASSUME SInv, NEW c \in Callers, claim[c].ok, ReadEnds(c)
                 PROVE  call[c].got = claim[c].content
    OBVIOUS
  <2>2. Types /\ Shape(c) /\ Kept(c) /\ call[c] \in Call
    BY <2>1 DEF SInv, CallInv, Types
  <2>3. call[c].pc = "reading" /\ call[c].op = "get" /\ Len(call[c].got) >= Len(data[call[c].in])
    BY <2>1, <2>2 DEF ReadEnds, At, Shape
  <2>4. data[call[c].in] = claim[c].content /\ Prefix(call[c].got, claim[c].content)
    BY <2>1, <2>2, <2>3 DEF Kept, Shape, Reading
  <2>5. call[c].got \in Seq(Block) /\ claim[c].content \in Seq(Block)
    BY <2>2 DEF Call, Types
  <2> QED
    BY <2>3, <2>4, <2>5, PrefixIsAll
<1>2. SInv => [\A c \in Callers : claim[c].ok /\ ReadEnds(c)
                 => call[c].got = claim[c].content]_storage
  BY <1>1
<1> QED
  BY <1>2, StorageInvariant, PTL DEF ReadersSeeWhole

-----------------------------------------------------------------------------
(* The Manager implements UploadStore *)

\* Nobody has used a fresh path; a hidden one is that of an upload.
PathUse ==
  /\ path \in [Paths -> {"fresh", "hidden", "published", "known"}]
  /\ \A p \in Paths : path[p] = "fresh" =>
       dir[p] = NoFile /\ \A c \in Callers : p \notin {call[c].src, call[c].dst}
  /\ \A p \in Paths : path[p] = "hidden" =>
       \A c \in Callers : p \in {call[c].src, call[c].dst} => call[c].op = "upload"

\* Nobody gets in the way of an upload.
UploadsAlone ==
  \A c \in Callers : call[c].op = "upload" =>
    path[call[c].dst] = "hidden" /\ claim[c].ok

\* A published path has a text, and no call is about to truncate it.
PublishedWhole ==
  \A p \in Paths : path[p] = "published" =>
    /\ \E text \in Texts : Stored(p, Whole(text))
    /\ \A c \in Callers : p \notin Truncates(call[c])

UInv == SInv /\ PathUse /\ UploadsAlone /\ PublishedWhole

LEMMA NamesOnly ==
  ASSUME NEW r
  PROVE  Truncates(r) \subseteq {r.dst} /\ Removes(r) \subseteq {r.src, r.dst}
  BY DEF Truncates, Removes

\* What a step of a call that is going on does to the calls.
LEMMA ContinueIsStep ==
  ASSUME SInv, NEW b \in Callers, Continue(b)
  PROVE  /\ StepOf(b) /\ call[b].pc # "idle"
         /\ call'[b].op = "upload" => claim'[b].ok = claim[b].ok
<1>1. Types /\ call[b] \in Call /\ Idle.op = "none"
  BY DEF SInv, Types, Idle
<1>2. CASE PutReturns(b) \/ Delete(b) \/ CopyReturns(b) \/ ReadEnds(b)
  <2>1. Returns(b) /\ call[b].pc # "idle"
    BY <1>2 DEF PutReturns, Delete, CopyReturns, ReadEnds, At
  <2>2. /\ \A c \in Callers \ {b} : call'[c] = call[c] /\ claim'[c] = claim[c]
        /\ call'[b] = Idle
    BY <1>1, <2>1 DEF Returns, Types
  <2> QED
    BY <1>1, <2>1, <2>2 DEF StepOf
<1>3. CASE Fails(b) \/ PutRemoves(b)
  <2>1. Errs(b) /\ call[b].pc # "idle"
    BY <1>3 DEF Fails, PutRemoves, At
  <2>2. /\ \A c \in Callers \ {b} : call'[c] = call[c] /\ claim'[c] = claim[c]
        /\ call'[b] = Idle
    BY <1>1, <2>1 DEF Errs, Types
  <2> QED
    BY <1>1, <2>1, <2>2 DEF StepOf
<1>4. CASE Open(b)
  <2>1. call[b].pc # "idle"
    BY <1>4 DEF Open, At
  <2>2. /\ \A c \in Callers \ {b} : call'[c] = call[c] /\ claim'[c] = claim[c]
        /\ call'[b].op = call[b].op /\ call'[b].src = call[b].src /\ call'[b].dst = call[b].dst
    BY <1>1, <1>4 DEF Open, Types, Call
  <2>3. claim'[b].ok = claim[b].ok
    BY <1>1, <1>4 DEF Open, Types
  <2> QED
    BY <2>1, <2>2, <2>3 DEF StepOf
<1>5. CASE Create(b) \/ PutBlock(b) \/ CopyBlock(b) \/ PutFails(b) \/ MoveCopied(b) \/ Read(b)
  <2>1. call[b].pc # "idle" /\ claim' = claim
    BY <1>5 DEF Create, PutBlock, CopyBlock, PutFails, MoveCopied, Read, Write, At
  <2>2. CASE Create(b)
    BY <1>1, <2>1, <2>2 DEF Create, Types, Call, StepOf
  <2>3. CASE PutBlock(b) \/ CopyBlock(b)
    BY <1>1, <2>1, <2>3 DEF PutBlock, CopyBlock, Write, Types, Call, StepOf
  <2>4. CASE PutFails(b)
    BY <1>1, <2>1, <2>4 DEF PutFails, Types, Call, StepOf
  <2>5. CASE MoveCopied(b)
    BY <1>1, <2>1, <2>5 DEF MoveCopied, Types, Call, StepOf
  <2>6. CASE Read(b)
    BY <1>1, <2>1, <2>6 DEF Read, Types, Call, StepOf
  <2> QED
    BY <1>5, <2>2, <2>3, <2>4, <2>5, <2>6
<1> QED
  BY <1>2, <1>3, <1>4, <1>5 DEF Continue, GoesOn

\* A path keeps its file, and the file its content, through a step of a call
\* that does not truncate or remove it.
PathKept(p) == dir[p] # NoFile => dir'[p] = dir[p] /\ data'[dir[p]] = data[dir[p]]

LEMMA KeepFilesKeepsPath ==
  ASSUME Types, NEW p \in Paths, KeepFiles, dir'[p] = dir[p]
  PROVE  PathKept(p)
<1> SUFFICES ASSUME dir[p] # NoFile PROVE data'[dir[p]] = data[dir[p]]
  BY DEF PathKept
<1>1. PICK f \in Files : f = dir[p]
  BY DEF Types
<1>2. Linked(f)'
  BY <1>1 DEF Linked
<1> QED
  BY <1>1, <1>2 DEF KeepFiles

LEMMA ContinueKeepsPath ==
  ASSUME SInv, NEW b \in Callers, GoesOn(b) \/ PutReturns(b),
         NEW p \in Paths, p \notin Truncates(call[b])
  PROVE  PathKept(p)
<1>1. Types /\ FilesApart /\ Shape(b) /\ call[b] \in Call
  BY DEF SInv, CallInv, Types
<1>2. CASE Open(b) \/ PutFails(b) \/ Read(b)
  BY <1>2 DEF Open, PutFails, Read, PathKept
<1>3. CASE Fails(b) \/ PutReturns(b) \/ CopyReturns(b) \/ MoveCopied(b) \/ ReadEnds(b)
  <2>1. KeepFiles /\ dir' = dir
    BY <1>3 DEF Fails, PutReturns, CopyReturns, MoveCopied, ReadEnds
  <2> QED
    BY <1>1, <2>1, KeepFilesKeepsPath
<1>4. CASE PutRemoves(b)
  <2>1. call[b].op \in Putting /\ KeepFiles
    BY <1>1, <1>4 DEF PutRemoves, At, Shape
  <2>2. p # call[b].dst
    BY <2>1 DEF Truncates, Writing, Putting
  <2>3. dir'[p] = dir[p]
    BY <1>1, <1>4, <2>2 DEF PutRemoves, Types
  <2> QED
    BY <1>1, <2>1, <2>3, KeepFilesKeepsPath
<1>5. CASE Create(b)
  <2>1. call[b].op \in Writing
    BY <1>1, <1>5 DEF Create, At, Shape
  <2>2. p # call[b].dst /\ call[b].dst \in Paths
    BY <1>1, <1>5, <2>1 DEF Truncates, Create, At, Shape
  <2>3. PICK f \in Files :
          /\ IF dir[call[b].dst] # NoFile THEN f = dir[call[b].dst] ELSE ~Linked(f) /\ ~Held(f)
          /\ dir' = [dir EXCEPT ![call[b].dst] = f]
          /\ data' = [data EXCEPT ![f] = <<>>]
    BY <1>5 DEF Create
  <2>4. dir[p] # NoFile => dir[p] # f /\ dir[p] \in Files
    BY <1>1, <2>2, <2>3 DEF FilesApart, Linked, Types
  <2> QED
    BY <1>1, <2>2, <2>3, <2>4 DEF Types, PathKept
<1>6. CASE PutBlock(b) \/ CopyBlock(b)
  <2>1. call[b].op \in Writing /\ call[b].out # NoFile
    BY <1>1, <1>6 DEF PutBlock, CopyBlock, At, Shape, Writing, Putting
  <2>2. p # call[b].dst
    BY <2>1 DEF Truncates
  <2>3. PICK s : data' = [data EXCEPT ![call[b].out] = s] /\ dir' = dir
    BY <1>6 DEF PutBlock, CopyBlock, Write
  <2>4. dir[p] # call[b].out
    BY <1>1, <2>1, <2>2 DEF FilesApart
  <2> QED
    BY <1>1, <2>3, <2>4 DEF Types, PathKept
<1> QED
  BY <1>2, <1>3, <1>4, <1>5, <1>6 DEF GoesOn

LEMMA DeleteKeepsPath ==
  ASSUME SInv, NEW b \in Callers, Delete(b), NEW p \in Paths, p # call[b].src
  PROVE  PathKept(p)
<1>1. Types /\ KeepFiles
  BY DEF SInv, Delete
<1>2. dir'[p] = dir[p]
  BY <1>1 DEF Delete, Types
<1> QED
  BY <1>1, <1>2, KeepFilesKeepsPath

\* A path that a call does not name gets no file from it.
LEMMA ContinueNamesNoOther ==
  ASSUME SInv, NEW b \in Callers, Continue(b), NEW p \in Paths,
         p \notin {call[b].src, call[b].dst}
  PROVE  dir'[p] = dir[p]
<1>1. Types /\ Shape(b) /\ call[b] \in Call
  BY DEF SInv, CallInv, Types
<1>2. CASE Create(b)
  <2>1. call[b].dst \in Paths
    BY <1>1, <1>2 DEF Create, At, Shape
  <2> QED
    BY <1>1, <1>2, <2>1 DEF Create, Types
<1>3. CASE PutRemoves(b)
  BY <1>1, <1>3 DEF PutRemoves, Types
<1>4. CASE Delete(b)
  BY <1>1, <1>4 DEF Delete, Types
<1>5. CASE UNCHANGED dir
  BY <1>5
<1> QED
  BY <1>2, <1>3, <1>4, <1>5 DEF Continue, GoesOn, PutReturns, Fails, Open, PutBlock, Write,
     PutFails, CopyBlock, CopyReturns, MoveCopied, Read, ReadEnds

\* The invariant of the Manager through a step of a call that is going on.
LEMMA StepKeepsUses ==
  ASSUME UInv, NEW b \in Callers, Step(b)
  PROVE  UInv'
<1>1. SInv /\ Types /\ PathUse /\ UploadsAlone /\ PublishedWhole /\ Shape(b) /\ call[b] \in Call
      /\ ClaimShape(b) /\ Kept(b)
  BY DEF UInv, SInv, CallInv, Types
<1>2. Continue(b)
  BY DEF Step, Continue
<1>3. SInv'
  BY <1>1, <1>2, ContinueKeeps
<1>4. /\ StepOf(b) /\ call[b].pc # "idle"
      /\ call'[b].op = "upload" => claim'[b].ok = claim[b].ok
  BY <1>1, <1>2, ContinueIsStep
<1>5. call[b].src \in Paths /\ call[b].dst \in Paths /\ Idle.op = "none"
      /\ Idle.src = NoFile /\ Idle.dst = NoFile /\ NoFile \notin Paths
  BY <1>1, <1>4, StorageAssumption DEF Shape, Idle
<1>6. \A c \in Callers : call'[c] = Idle \/ /\ call'[c].op = call[c].op
                                            /\ call'[c].src = call[c].src
                                            /\ call'[c].dst = call[c].dst
  BY <1>4 DEF StepOf
<1>7. \A p \in Paths : path'[p] = path[p] \/ p \in {call[b].src, call[b].dst}
  <2>1. CASE PutReturns(b) /\ path' = IF call[b].op = "upload"
               THEN [path EXCEPT ![call[b].dst] = "published"] ELSE path
    BY <1>1, <2>1 DEF PathUse
  <2>2. CASE Delete(b) /\ path' = [path EXCEPT ![call[b].src] = "known"]
    BY <1>1, <2>2 DEF PathUse
  <2> QED
    BY <2>1, <2>2 DEF Step
<1>8. \/ path' = path /\ (GoesOn(b) \/ PutReturns(b))
      \/ /\ PutReturns(b) /\ call[b].op = "upload"
         /\ path' = [path EXCEPT ![call[b].dst] = "published"]
      \/ Delete(b) /\ path' = [path EXCEPT ![call[b].src] = "known"]
  BY DEF Step
<1>9. PathUse'
  <2>1. path' \in [Paths -> {"fresh", "hidden", "published", "known"}]
    BY <1>1, <1>8 DEF PathUse
  <2>2. \A p \in Paths : path'[p] \in {"fresh", "hidden"} => path'[p] = path[p]
    BY <1>1, <1>5, <1>8 DEF PathUse
  <2>3. ASSUME NEW p \in Paths, path'[p] = "fresh"
        PROVE  dir'[p] = NoFile /\ \A c \in Callers : p \notin {call'[c].src, call'[c].dst}
    <3>1. dir[p] = NoFile /\ \A c \in Callers : p \notin {call[c].src, call[c].dst}
      BY <1>1, <2>2, <2>3 DEF PathUse
    <3>2. dir'[p] = NoFile
      BY <1>1, <1>2, <3>1, ContinueNamesNoOther
    <3> QED
      BY <1>5, <1>6, <3>1, <3>2
  <2>4. ASSUME NEW p \in Paths, path'[p] = "hidden", NEW c \in Callers,
               p \in {call'[c].src, call'[c].dst}
        PROVE  call'[c].op = "upload"
    <3>1. path[p] = "hidden"
      BY <2>2, <2>4
    <3> QED
      BY <1>1, <1>5, <1>6, <2>4, <3>1 DEF PathUse
  <2> QED
    BY <2>1, <2>3, <2>4 DEF PathUse
<1>10. ASSUME claim[b].ok, call[b].op = "upload", NEW c \in Callers \ {b}
       PROVE  call[b].dst \notin Truncates(call[c])
  BY <1>1, <1>4, <1>10 DEF ClaimShape, Disturbs
<1>11. UploadsAlone'
  <2>1. SUFFICES ASSUME NEW c \in Callers, call'[c].op = "upload"
                 PROVE  path'[call'[c].dst] = "hidden" /\ claim'[c].ok
    BY DEF UploadsAlone
  <2>2. call[c].op = "upload" /\ call'[c].dst = call[c].dst /\ call[c].dst \in Paths
    <3>1. call[c].op = "upload" /\ call'[c].dst = call[c].dst
      BY <1>5, <1>6, <2>1
    <3>2. Shape(c) /\ call[c].pc # "idle"
      BY <1>1, <3>1 DEF SInv, CallInv, Shape, Idle
    <3> QED
      BY <3>1, <3>2 DEF Shape
  <2>3. path[call[c].dst] = "hidden" /\ claim[c].ok
    BY <1>1, <2>2 DEF UploadsAlone
  <2>4. claim'[c].ok
    BY <1>4, <2>1, <2>3 DEF StepOf
  <2>5. path'[call[c].dst] = path[call[c].dst]
    <3>1. CASE PutReturns(b) /\ call[b].op = "upload"
               /\ path' = [path EXCEPT ![call[b].dst] = "published"]
      <4>1. claim[b].ok
        BY <1>1, <3>1 DEF UploadsAlone
      <4>2. call'[b] = Idle
        BY <1>1, <3>1 DEF PutReturns, Returns, Types
      <4>3. c # b
        BY <1>5, <2>1, <4>2
      <4>4. call[c].dst # call[b].dst
        BY <1>10, <2>2, <3>1, <4>1, <4>3 DEF Truncates, Writing, Putting
      <4> QED
        BY <1>1, <2>2, <3>1, <4>4 DEF PathUse
    <3>2. CASE Delete(b) /\ path' = [path EXCEPT ![call[b].src] = "known"]
      <4>1. call[b].op # "upload"
        BY <1>1, <3>2 DEF Delete, At, Shape
      <4>2. path[call[b].src] # "hidden"
        BY <1>1, <1>5, <4>1 DEF PathUse
      <4> QED
        BY <1>1, <2>2, <2>3, <3>2, <4>2 DEF PathUse
    <3> QED
      BY <1>8, <3>1, <3>2
  <2> QED
    BY <2>2, <2>3, <2>4, <2>5
<1>12. PublishedWhole'
  <2>1. ASSUME NEW p \in Paths, NEW c \in Callers, p \notin Truncates(call[c])
        PROVE  p \notin Truncates(call'[c])
    BY <1>5, <1>6, <2>1 DEF Truncates, Writing, Putting
  <2>2. ASSUME NEW p \in Paths, path[p] = "published", path'[p] = "published"
        PROVE  /\ \E text \in Texts : dir'[p] \in Files /\ data'[dir'[p]] = Whole(text)
               /\ \A c \in Callers : p \notin Truncates(call'[c])
    <3>1. PICK text \in Texts : Stored(p, Whole(text))
      BY <1>1, <2>2 DEF PublishedWhole
    <3>2. \A c \in Callers : p \notin Truncates(call[c])
      BY <1>1, <2>2 DEF PublishedWhole
    <3>3. PathKept(p)
      <4>1. CASE GoesOn(b) \/ PutReturns(b)
        BY <1>1, <3>2, <4>1, ContinueKeepsPath
      <4>2. CASE Delete(b) /\ path' = [path EXCEPT ![call[b].src] = "known"]
        BY <1>1, <2>2, <4>2, DeleteKeepsPath DEF PathUse
      <4> QED
        BY <1>8, <4>1, <4>2
    <3>4. dir[p] # NoFile
      BY <3>1, StorageAssumption DEF Stored
    <3> QED
      BY <2>1, <3>1, <3>2, <3>3, <3>4 DEF PathKept, Stored
  <2>3. ASSUME NEW p \in Paths, path[p] # "published", path'[p] = "published"
        PROVE  /\ \E text \in Texts : dir'[p] \in Files /\ data'[dir'[p]] = Whole(text)
               /\ \A c \in Callers : p \notin Truncates(call'[c])
    <3>1. PutReturns(b) /\ call[b].op = "upload" /\ p = call[b].dst
      BY <1>1, <1>8, <2>3 DEF PathUse
    <3>2. claim[b].ok /\ claim[b].content = Whole(call[b].text) /\ call[b].text \in Texts
      BY <1>1, <1>4, <3>1 DEF UploadsAlone, Kept, Putting, Shape
    <3>3. call'[b] = Idle /\ claim'[b].ok /\ claim'[b].at = {p}
          /\ claim'[b].content = Whole(call[b].text)
      BY <1>1, <3>1, <3>2 DEF PutReturns, Returns, Types
    <3>4. dir'[p] \in Files /\ data'[dir'[p]] = Whole(call[b].text)
      <4>1. Kept(b)'
        BY <1>3 DEF SInv, CallInv
      <4>2. Idle.pc = "idle"
        BY DEF Idle
      <4> QED
        BY <3>3, <4>1, <4>2 DEF Kept, Stored
    <3>5. \A c \in Callers : p \notin Truncates(call'[c])
      <4>1. Truncates(Idle) = {}
        BY <1>5 DEF Truncates, Writing, Putting
      <4> QED
        BY <1>10, <2>1, <3>1, <3>2, <3>3, <4>1
    <3> QED
      BY <3>2, <3>4, <3>5
  <2> QED
    BY <2>2, <2>3 DEF PublishedWhole, Stored
<1> QED
  BY <1>3, <1>9, <1>11, <1>12 DEF UInv

\* What Begin does to the calls and claims, with the call it begins.
LEMMA Begins ==
  ASSUME Types, NEW c \in Callers, NEW op, NEW p, NEW q, NEW text, Begin(c, op, p, q, text)
  PROVE  /\ dir' = dir /\ data' = data /\ call[c].pc = "idle"
         /\ \A d \in Callers \ {c} : call'[d] = call[d]
         /\ call'[c].op = op /\ call'[c].src = p /\ call'[c].dst = q
         /\ \A d \in Callers \ {c} :
              ~Disturbs(call'[c], call[d].src, claim[d].at) => claim'[d] = claim[d]
<1> DEFINE new == [Idle EXCEPT !.op = op, !.src = p, !.dst = q, !.text = text,
                     !.pc = CASE op \in Reading -> "open"
                              [] op = "delete" -> "delete"
                              [] OTHER -> "create"]
<1>1. dir' = dir /\ data' = data /\ call[c].pc = "idle" /\ call' = [call EXCEPT ![c] = new]
  BY DEF Begin, At
<1>2. \A d \in Callers \ {c} :
        ~Disturbs(new, call[d].src, claim[d].at) => claim'[d] = claim[d]
  BY DEF Begin
<1>3. new.op = op /\ new.src = p /\ new.dst = q
  BY DEF Idle
<1>4. \A d \in Callers : call'[d] = IF d = c THEN new ELSE call[d]
  BY <1>1 DEF Types
<1> HIDE DEF new
<1> QED
  BY <1>1, <1>2, <1>3, <1>4

\* A call that begins elsewhere does not get in the way of an upload.
LEMMA UploadUndisturbed ==
  ASSUME SInv, UploadsAlone, NEW d \in Callers, call[d].op = "upload",
         NEW r, r.src # call[d].dst, r.dst # call[d].dst
  PROVE  call[d].src = call[d].dst /\ ~Disturbs(r, call[d].src, claim[d].at)
<1>1. Shape(d) /\ ClaimShape(d) /\ claim[d].ok /\ call[d].pc # "idle"
  BY DEF SInv, CallInv, UploadsAlone, Shape, Idle
<1>2. call[d].src = call[d].dst /\ claim[d].at = {call[d].dst}
  BY <1>1 DEF Shape, ClaimShape
<1> QED
  BY <1>2, NamesOnly DEF Disturbs

LEMMA UseKeepsUses ==
  ASSUME UInv, NEW c \in Callers, Use(c) PROVE UInv'
<1> DEFINE new == call'[c]
<1>1. SInv /\ Types /\ PathUse /\ UploadsAlone /\ PublishedWhole
  BY DEF UInv, SInv
<1>2. SInv'
  BY <1>1, BeginOneKeeps DEF Use
<1>3. \E op \in {"put", "copy", "move", "delete", "get"}, p, q \in Paths, text \in Block :
        Begin(c, op, p, q, text) /\ (op \notin {"copy", "move"} => p = q)
  BY DEF Use, BeginOne, Block
<1>4. /\ dir' = dir /\ data' = data /\ \A d \in Callers \ {c} : call'[d] = call[d]
      /\ new.op # "upload" /\ new.src \in Paths /\ new.dst \in Paths
      /\ new.dst \in Truncates(new) \cup {new.src}
      /\ \A d \in Callers \ {c} :
           ~Disturbs(new, call[d].src, claim[d].at) => claim'[d] = claim[d]
  <2>1. PICK op \in {"put", "copy", "move", "delete", "get"}, p \in Paths, q \in Paths,
             text \in Block :
          Begin(c, op, p, q, text) /\ (op \notin {"copy", "move"} => p = q)
    BY <1>3
  <2>2. new.op = op /\ new.src = p /\ new.dst = q
    BY <1>1, <2>1, Begins
  <2> QED
    BY <1>1, <2>1, <2>2, Begins DEF Truncates, Writing
<1>5. /\ path[new.src] # "hidden" /\ path[new.dst] # "hidden"
      /\ path' = [p \in Paths |-> IF p \in Truncates(new) \/ (p = new.src /\ path[p] = "fresh")
                                  THEN "known" ELSE path[p]]
  BY DEF Use
<1> HIDE DEF new
<1>6. Truncates(new) \subseteq {new.dst}
  BY NamesOnly
<1>7. \A p \in Paths : path'[p] # "known" => path'[p] = path[p] /\ p \notin Truncates(new)
  BY <1>5
<1>8. PathUse'
  <2>1. path' \in [Paths -> {"fresh", "hidden", "published", "known"}]
    BY <1>1, <1>5 DEF PathUse
  <2>2. ASSUME NEW p \in Paths, path'[p] = "fresh"
        PROVE  dir'[p] = NoFile /\ \A d \in Callers : p \notin {call'[d].src, call'[d].dst}
    <3>1. path[p] = "fresh" /\ p # new.src /\ p # new.dst
      BY <1>4, <1>5, <1>7, <2>2
    <3> QED
      BY <1>1, <1>4, <3>1 DEF PathUse, new
  <2>3. ASSUME NEW p \in Paths, path'[p] = "hidden", NEW d \in Callers,
               p \in {call'[d].src, call'[d].dst}
        PROVE  call'[d].op = "upload"
    <3>1. path[p] = "hidden" /\ p # new.src /\ p # new.dst
      BY <1>5, <1>7, <2>3
    <3> QED
      BY <1>1, <1>4, <2>3, <3>1 DEF PathUse, new
  <2> QED
    BY <2>1, <2>2, <2>3 DEF PathUse
<1>9. UploadsAlone'
  <2>1. SUFFICES ASSUME NEW d \in Callers, call'[d].op = "upload"
                 PROVE  path'[call'[d].dst] = "hidden" /\ claim'[d].ok
    BY DEF UploadsAlone
  <2>2. d # c /\ call'[d] = call[d] /\ call[d].op = "upload"
    BY <1>4, <2>1 DEF new
  <2>3. path[call[d].dst] = "hidden" /\ claim[d].ok /\ call[d].dst \in Paths
    <3>1. Shape(d) /\ call[d].pc # "idle"
      BY <1>1, <2>2 DEF SInv, CallInv, Shape, Idle
    <3> QED
      BY <1>1, <2>2, <3>1 DEF UploadsAlone, Shape
  <2>4. new.src # call[d].dst /\ new.dst # call[d].dst
    BY <1>5, <2>3
  <2>5. claim'[d] = claim[d]
    BY <1>1, <1>4, <2>2, <2>4, UploadUndisturbed
  <2>6. path'[call[d].dst] = "hidden"
    BY <1>5, <1>6, <2>3, <2>4
  <2> QED
    BY <2>2, <2>3, <2>5, <2>6
<1>10. PublishedWhole'
  BY <1>1, <1>4, <1>7 DEF PublishedWhole, Stored, new
<1> QED
  BY <1>2, <1>8, <1>9, <1>10 DEF UInv

LEMMA UploadToKeepsUses ==
  ASSUME UInv, NEW c \in Callers, NEW p \in Paths, NEW text \in Texts, UploadTo(c, p, text)
  PROVE  UInv'
<1> DEFINE new == call'[c]
<1>1. SInv /\ Types /\ PathUse /\ UploadsAlone /\ PublishedWhole
  BY DEF UInv, SInv
<1>2. Begin(c, "upload", p, p, text) /\ path[p] = "fresh" /\ path' = [path EXCEPT ![p] = "hidden"]
  BY DEF UploadTo
<1>3. SInv'
  BY <1>1, <1>2, BeginKeeps DEF Writing, Block
<1>4. /\ dir' = dir /\ data' = data /\ \A d \in Callers \ {c} : call'[d] = call[d]
      /\ new.op = "upload" /\ new.src = p /\ new.dst = p
      /\ \A d \in Callers \ {c} :
           ~Disturbs(new, call[d].src, claim[d].at) => claim'[d] = claim[d]
  BY <1>1, <1>2, Begins
<1>5. \A d \in Callers : p \notin {call[d].src, call[d].dst}
  BY <1>1, <1>2 DEF PathUse
<1>6. \A q \in Paths : path'[q] = IF q = p THEN "hidden" ELSE path[q]
  BY <1>1, <1>2 DEF PathUse
<1>7. claim'[c].ok
  <2>1. \A b \in Callers \ {c} : ~Disturbs(call[b], p, {p})
    BY <1>5, NamesOnly DEF Disturbs
  <2> QED
    BY <1>2, <2>1 DEF Begin
<1> HIDE DEF new
<1>8. PathUse'
  <2>1. path' \in [Paths -> {"fresh", "hidden", "published", "known"}]
    BY <1>1, <1>2 DEF PathUse
  <2>2. ASSUME NEW q \in Paths, path'[q] = "fresh"
        PROVE  dir'[q] = NoFile /\ \A d \in Callers : q \notin {call'[d].src, call'[d].dst}
    BY <1>1, <1>4, <1>6, <2>2 DEF PathUse, new
  <2>3. ASSUME NEW q \in Paths, path'[q] = "hidden", NEW d \in Callers,
               q \in {call'[d].src, call'[d].dst}
        PROVE  call'[d].op = "upload"
    BY <1>1, <1>4, <1>5, <1>6, <2>3 DEF PathUse, new
  <2> QED
    BY <2>1, <2>2, <2>3 DEF PathUse
<1>9. UploadsAlone'
  <2>1. SUFFICES ASSUME NEW d \in Callers, call'[d].op = "upload"
                 PROVE  path'[call'[d].dst] = "hidden" /\ claim'[d].ok
    BY DEF UploadsAlone
  <2>2. CASE d = c
    BY <1>4, <1>6, <1>7, <2>2 DEF new
  <2>3. CASE d # c
    <3>1. call'[d] = call[d] /\ call[d].op = "upload"
      BY <1>4, <2>1, <2>3
    <3>2. path[call[d].dst] = "hidden" /\ claim[d].ok /\ call[d].dst \in Paths
      <4>1. Shape(d) /\ call[d].pc # "idle"
        BY <1>1, <3>1 DEF SInv, CallInv, Shape, Idle
      <4> QED
        BY <1>1, <3>1, <4>1 DEF UploadsAlone, Shape
    <3>3. new.src # call[d].dst /\ new.dst # call[d].dst
      BY <1>4, <1>5
    <3>4. claim'[d] = claim[d]
      BY <1>1, <1>4, <2>3, <3>1, <3>3, UploadUndisturbed
    <3> QED
      BY <1>6, <3>1, <3>2, <3>4
  <2> QED
    BY <2>2, <2>3
<1>10. PublishedWhole'
  <2>1. Truncates(new) \subseteq {p}
    BY <1>4, NamesOnly
  <2>2. \A q \in Paths : path'[q] = "published" => path[q] = "published" /\ q # p
    BY <1>6
  <2> QED
    BY <1>1, <1>4, <2>1, <2>2 DEF PublishedWhole, Stored, new
<1> QED
  BY <1>3, <1>8, <1>9, <1>10 DEF UInv

LEMMA RestartKeepsUses ==
  ASSUME UInv, Restart PROVE UInv'
<1>1. /\ SInv /\ Types /\ PathUse /\ PublishedWhole /\ path' = path /\ dir' = dir /\ KeepFiles
      /\ call' = [c \in Callers |-> Idle]
  BY DEF UInv, SInv, Restart, Crash
<1>2. SInv'
  BY <1>1, CrashKeeps DEF Restart
<1>3. Idle.op = "none" /\ Idle.src = NoFile /\ Idle.dst = NoFile /\ NoFile \notin Paths
      /\ Truncates(Idle) = {}
  BY StorageAssumption DEF Idle, Truncates, Writing, Putting
<1>4. PathUse'
  BY <1>1, <1>3 DEF PathUse
<1>5. UploadsAlone'
  BY <1>1, <1>3 DEF UploadsAlone
<1>6. PublishedWhole'
  <2>1. ASSUME NEW p \in Paths, path[p] = "published"
        PROVE  \E text \in Texts : dir'[p] \in Files /\ data'[dir'[p]] = Whole(text)
    BY <1>1, <2>1, KeptStored DEF PublishedWhole
  <2> QED
    BY <1>1, <1>3, <2>1 DEF PublishedWhole, Stored
<1> QED
  BY <1>2, <1>4, <1>5, <1>6 DEF UInv

\* What the Manager shows of itself.
Behind == [p \in Paths |-> IF path[p] = "published" THEN Content(p) ELSE NoFile]

\* An upload that its file name leads elsewhere is a Put of the application's.
LEMMA OverIsUse ==
  ASSUME UInv, NEW c \in Callers, NEW p \in Paths, NEW text \in Texts,
         UploadOver(c, p, text)
  PROVE  Use(c)
<1>1. BeginOne(c) /\ Begin(c, "put", p, p, text) /\ Types /\ PathUse
  BY DEF UploadOver, BeginOne, UInv, SInv
<1>2. call'[c].op = "put" /\ call'[c].src = p /\ call'[c].dst = p
  BY <1>1, Begins
<1>3. Truncates(call'[c]) = {p}
  BY <1>2 DEF Truncates, Writing
<1>4. path' = [q \in Paths |->
                IF q \in Truncates(call'[c]) \/ (q = p /\ path[q] = "fresh")
                THEN "known" ELSE path[q]]
  <2>1. path' = [path EXCEPT ![p] = "known"]
    BY DEF UploadOver
  <2>2. path \in [Paths -> {"fresh", "hidden", "published", "known"}]
    BY <1>1 DEF PathUse
  <2>3. path' = [q \in Paths |-> IF q = p THEN "known" ELSE path[q]]
    BY <2>1, <2>2
  <2>4. \A q \in Paths :
          q \in Truncates(call'[c]) \/ (q = p /\ path[q] = "fresh") <=> q = p
    BY <1>3
  <2> QED
    BY <2>3, <2>4
<1>5. path[p] # "hidden" /\ refused' = {}
  BY DEF UploadOver
<1> QED
  BY <1>1, <1>2, <1>4, <1>5 DEF Use

LEMMA UInvNext ==
  ASSUME UInv, [UploadNext]_vars PROVE UInv'
<1>1. CASE UNCHANGED <<storage, path>>
  <2>1. SInv'
    BY SInvNext DEF UInv
  <2> QED
    BY <1>1, <2>1 DEF UInv, PathUse, UploadsAlone, PublishedWhole, Stored, storage
<1>2. CASE Restart
  BY <1>2, RestartKeepsUses
<1>3. ASSUME NEW c \in Callers, Handle(c) PROVE UInv'
  BY <1>3, UploadToKeepsUses, OverIsUse, UseKeepsUses, StepKeepsUses
  DEF Handle, Upload, UploadReader
<1> QED
  BY <1>1, <1>2, <1>3 DEF UploadNext, Refuse, vars

LEMMA PublishedContent ==
  ASSUME UInv, NEW p \in Paths, path[p] = "published"
  PROVE  Behind[p] \in {Whole(text) : text \in Texts} /\ Behind[p] # NoFile
         /\ Behind[p] = data[dir[p]] /\ dir[p] # NoFile
<1>1. PICK text \in Texts : Stored(p, Whole(text))
  BY DEF UInv, PublishedWhole
<1>2. dir[p] # NoFile /\ data[dir[p]] = Whole(text)
  BY <1>1, StorageAssumption DEF Stored
<1> QED
  BY <1>2, UploadAssumption DEF Behind, Content

\* Whole texts stay behind the paths that stay published.
LEMMA PublishedStays ==
  ASSUME UInv, UInv', NEW p \in Paths, path[p] = "published", path'[p] = "published",
         PathKept(p)
  PROVE  Behind'[p] = Behind[p]
<1>1. dir[p] # NoFile /\ Behind[p] = data[dir[p]]
  BY PublishedContent
<1>2. dir'[p] = dir[p] /\ data'[dir[p]] = data[dir[p]]
  BY <1>1 DEF PathKept
<1> QED
  BY <1>1, <1>2 DEF Behind, Content

\* At most one path changes hands in a step.
LEMMA BehindSteps ==
  ASSUME UInv, UInv', NEW p \in Paths,
         \A q \in Paths \ {p} : Behind'[q] = Behind[q],
         path[p] = "published" => path'[p] # "published" \/ Behind'[p] = Behind[p]
  PROVE  Store!Next \/ Behind' = Behind
<1>1. Behind = [q \in Paths |-> Behind[q]] /\ Behind' = [q \in Paths |-> Behind'[q]]
  BY DEF Behind
<1>2. \A q \in Paths : path[q] # "published" => Behind[q] = NoFile
  BY DEF Behind
<1>3. \A q \in Paths : path'[q] # "published" => Behind'[q] = NoFile
  BY DEF Behind
<1>4. CASE path[p] = "published" /\ path'[p] # "published"
  <2>1. Behind[p] # NoFile
    BY <1>4, PublishedContent
  <2>2. Behind' = [Behind EXCEPT ![p] = NoFile]
    BY <1>1, <1>3, <1>4
  <2> QED
    BY <2>1, <2>2 DEF Store!Next, Store!TakeOut, Behind
<1>5. CASE path[p] # "published" /\ path'[p] = "published"
  <2>1. Behind[p] = NoFile
    BY <1>2, <1>5
  <2>2. Behind'[p] \in {Whole(text) : text \in Texts}
    <3>1. PICK text \in Texts : Stored(p, Whole(text))'
      BY <1>5 DEF UInv, PublishedWhole
    <3>2. dir'[p] # NoFile /\ data'[dir'[p]] = Whole(text)
      BY <3>1, StorageAssumption DEF Stored
    <3> QED
      BY <1>5, <3>2 DEF Behind, Content
  <2>3. PICK v \in {Whole(text) : text \in Texts} : Behind' = [Behind EXCEPT ![p] = v]
    BY <1>1, <2>2
  <2> QED
    BY <2>1, <2>3 DEF Store!Next, Store!Publish, Behind
<1>6. CASE Behind'[p] = Behind[p]
  BY <1>1, <1>6
<1> QED
  BY <1>2, <1>3, <1>4, <1>5, <1>6

LEMMA SameBehind ==
  ASSUME UInv, UInv', NEW q \in Paths,
         path'[q] = "published" <=> path[q] = "published",
         path[q] = "published" => PathKept(q)
  PROVE  Behind'[q] = Behind[q]
<1>1. CASE path[q] = "published"
  BY <1>1, PublishedStays
<1>2. CASE path[q] # "published"
  BY <1>2 DEF Behind
<1> QED
  BY <1>1, <1>2

LEMMA StoreStep ==
  ASSUME UInv, UInv', [UploadNext]_vars
  PROVE  Store!Next \/ Behind' = Behind
<1>1. SInv /\ Types /\ PathUse /\ PublishedWhole
  BY DEF UInv, SInv
<1>2. CASE UNCHANGED <<storage, path>>
  BY <1>2 DEF Behind, Content, storage
<1>3. CASE Restart
  <2>1. path' = path /\ KeepFiles /\ dir' = dir
    BY <1>3 DEF Restart, Crash
  <2>2. \A q \in Paths : Behind'[q] = Behind[q]
    BY <1>1, <2>1, KeepFilesKeepsPath, SameBehind
  <2> QED
    BY <2>2 DEF Behind
<1>4. ASSUME NEW c \in Callers, NEW p \in Paths, NEW text \in Texts, UploadTo(c, p, text)
      PROVE  Store!Next \/ Behind' = Behind
  <2>1. /\ path[p] = "fresh" /\ path' = [path EXCEPT ![p] = "hidden"]
        /\ dir' = dir /\ data' = data
    BY <1>4 DEF UploadTo, Begin
  <2>2. \A q \in Paths : PathKept(q)
    BY <2>1 DEF PathKept
  <2>3. \A q \in Paths \ {p} : Behind'[q] = Behind[q]
    BY <1>1, <2>1, <2>2, SameBehind DEF PathUse
  <2> QED
    BY <2>1, <2>3, BehindSteps
<1>5. ASSUME NEW c \in Callers, Use(c) PROVE Store!Next \/ Behind' = Behind
  <2> DEFINE new == call'[c]
  <2>1. dir' = dir /\ data' = data
    BY <1>5 DEF Use, BeginOne, Begin
  <2>2. path' = [p \in Paths |-> IF p \in Truncates(new) \/ (p = new.src /\ path[p] = "fresh")
                                 THEN "known" ELSE path[p]]
    BY <1>5 DEF Use
  <2>3. new.dst \in Paths
    <3>1. \E op, text : \E p, q \in Paths : Begin(c, op, p, q, text)
      BY <1>5 DEF Use, BeginOne
    <3> QED
      BY <1>1, <3>1, Begins
  <2>4. Truncates(new) \subseteq {new.dst}
    BY NamesOnly
  <2>5. \A q \in Paths : PathKept(q)
    BY <2>1 DEF PathKept
  <2> HIDE DEF new
  <2>6. \A q \in Paths \ {new.dst} : path'[q] = "published" <=> path[q] = "published"
    BY <2>2, <2>4
  <2>7. \A q \in Paths \ {new.dst} : Behind'[q] = Behind[q]
    BY <2>5, <2>6, SameBehind
  <2>8. path[new.dst] = "published" /\ path'[new.dst] = "published"
          => Behind'[new.dst] = Behind[new.dst]
    BY <2>3, <2>5, PublishedStays
  <2> QED
    BY <2>3, <2>7, <2>8, BehindSteps
<1>6. ASSUME NEW b \in Callers, Step(b) PROVE Store!Next \/ Behind' = Behind
  <2>1. \A q \in Paths : path[q] = "published" => q \notin Truncates(call[b])
    BY <1>1 DEF PublishedWhole
  <2>2. CASE GoesOn(b) \/ PutReturns(b)
    <3>1. \A q \in Paths : path[q] = "published" => PathKept(q)
      BY <1>1, <2>1, <2>2, ContinueKeepsPath
    <3>2. CASE path' = path
      <4>1. \A q \in Paths : Behind'[q] = Behind[q]
        BY <3>1, <3>2, SameBehind
      <4> QED
        BY <4>1 DEF Behind
    <3>3. CASE PutReturns(b) /\ path' = [path EXCEPT ![call[b].dst] = "published"]
      <4>1. call[b].dst \in Paths
        BY <1>1, <3>3 DEF PutReturns, At, SInv, CallInv, Shape
      <4>2. \A q \in Paths \ {call[b].dst} : path'[q] = path[q]
        BY <1>1, <3>3 DEF PathUse
      <4>3. \A q \in Paths \ {call[b].dst} : Behind'[q] = Behind[q]
        BY <3>1, <4>2, SameBehind
      <4>4. path[call[b].dst] = "published" /\ path'[call[b].dst] = "published"
              => Behind'[call[b].dst] = Behind[call[b].dst]
        BY <3>1, <4>1, PublishedStays
      <4> QED
        BY <4>1, <4>3, <4>4, BehindSteps
    <3>4. CASE Delete(b) /\ path' = [path EXCEPT ![call[b].src] = "known"]
      <4>1. call[b].src \in Paths
        BY <1>1, <3>4 DEF Delete, At, SInv, CallInv, Shape
      <4>2. \A q \in Paths \ {call[b].src} : path'[q] = path[q]
        BY <1>1, <3>4 DEF PathUse
      <4>3. \A q \in Paths \ {call[b].src} : Behind'[q] = Behind[q]
        BY <3>1, <4>2, SameBehind
      <4>4. path'[call[b].src] # "published"
        BY <1>1, <3>4, <4>1 DEF PathUse
      <4> QED
        BY <4>1, <4>3, <4>4, BehindSteps
    <3> QED
      BY <1>6, <3>2, <3>3, <3>4 DEF Step
  <2>3. CASE Delete(b) /\ path' = [path EXCEPT ![call[b].src] = "known"]
    <3>1. call[b].src \in Paths
      BY <1>1, <2>3 DEF Delete, At, SInv, CallInv, Shape
    <3>2. \A q \in Paths \ {call[b].src} : path'[q] = path[q] /\ PathKept(q)
      BY <1>1, <2>3, DeleteKeepsPath DEF PathUse
    <3>3. \A q \in Paths \ {call[b].src} : Behind'[q] = Behind[q]
      BY <3>2, SameBehind
    <3>4. path'[call[b].src] # "published"
      BY <1>1, <2>3, <3>1 DEF PathUse
    <3> QED
      BY <3>1, <3>3, <3>4, BehindSteps
  <2> QED
    BY <1>6, <2>2, <2>3 DEF Step
<1>7. ASSUME NEW c \in Callers, Handle(c) PROVE Store!Next \/ Behind' = Behind
  BY <1>4, <1>5, <1>6, <1>7, OverIsUse DEF Handle, Upload, UploadReader
<1> QED
  BY <1>2, <1>3, <1>7 DEF UploadNext, Refuse, vars

LEMMA UInvInit ==
  ASSUME UploadInit PROVE UInv
<1>1. SInv
  BY SInvInit DEF UploadInit
<1>2. Idle.op = "none" /\ Idle.src = NoFile /\ Idle.dst = NoFile /\ NoFile \notin Paths
  BY StorageAssumption DEF Idle
<1> QED
  BY <1>1, <1>2 DEF UploadInit, Init, UInv, PathUse, UploadsAlone, PublishedWhole

THEOREM UsesInvariant == UploadSpec => []UInv
<1>1. UploadInit => UInv
  BY UInvInit
<1>2. UInv /\ [UploadNext]_vars => UInv'
  BY UInvNext
<1> QED
  BY <1>1, <1>2, PTL DEF UploadSpec

\* The Manager over LocalStorage implements UploadStore for what it stores under a
\* path with its UUID, next to whatever else the application does with the
\* storage, UploadReader with any file name included, and through crashes
\* (upload.go:44-69, 79-85 and 116-151).
THEOREM ManagerKeepsUploads == UploadSpec => KeepsUploads
<1>1. UploadInit => Store!Init
  BY DEF UploadInit, Store!Init
<1>2. UInv /\ UInv' /\ [UploadNext]_vars
        => [Store!Next]_([p \in Paths |-> IF path[p] = "published" THEN Content(p) ELSE NoFile])
  BY StoreStep DEF Behind
<1> QED
  BY <1>1, <1>2, UsesInvariant, PTL DEF UploadSpec, KeepsUploads, Store!Spec

-----------------------------------------------------------------------------
(* The validator. *)

\* The values of filepath.Ext, and what may be written in allowed_extensions.
Extensions == [name : STRING, dot : BOOLEAN, upper : BOOLEAN]

\* Without its dot and in lower case an extension keeps its name.
LEMMA ExtensionUpdate ==
  ASSUME NEW ext \in Extensions, NEW b
  PROVE  /\ [ext EXCEPT !.dot = b] = [name |-> ext.name, dot |-> b, upper |-> ext.upper]
         /\ [ext EXCEPT !.upper = b] = [name |-> ext.name, dot |-> ext.dot, upper |-> b]
BY SMT DEF Extensions

LEMMA Trimmed ==
  ASSUME NEW ext \in Extensions
  PROVE  /\ TrimDot(ext) = [name |-> ext.name, dot |-> FALSE, upper |-> ext.upper]
         /\ TrimDot(ext) \in Extensions
         /\ TrimDot(ext).name = ext.name /\ TrimDot(ext).dot = FALSE
<1>1. TrimDot(ext) = [name |-> ext.name, dot |-> FALSE, upper |-> ext.upper]
  BY ExtensionUpdate, Zenon DEF TrimDot
<1>2. /\ [name |-> ext.name, dot |-> FALSE, upper |-> ext.upper] \in Extensions
      /\ [name |-> ext.name, dot |-> FALSE, upper |-> ext.upper].name = ext.name
      /\ [name |-> ext.name, dot |-> FALSE, upper |-> ext.upper].dot = FALSE
  BY SMT DEF Extensions
<1> QED
  BY <1>1, <1>2, Zenon

LEMMA Lowered ==
  ASSUME NEW ext \in Extensions, ext.dot = FALSE
  PROVE  ToLower(ext) = [name |-> ext.name, dot |-> FALSE, upper |-> FALSE]
<1>1. ToLower(ext) = [name |-> ext.name, dot |-> ext.dot, upper |-> FALSE]
  BY ExtensionUpdate, Zenon DEF ToLower
<1> QED
  BY <1>1, Zenon

\* A configured extension without a dot matches every file's that has its name,
\* however the two are written (validator.go:110-121).
LEMMA NameDecides ==
  ASSUME NEW f, f.ext \in Extensions, AllowedExtensions \subseteq Extensions,
         NEW allowed \in AllowedExtensions, ~allowed.dot,
         allowed.name = f.ext.name
  PROVE  ValidExtension(f)
<1>1. ToLower(TrimDot(f.ext)) = [name |-> f.ext.name, dot |-> FALSE, upper |-> FALSE]
  BY Trimmed, Lowered, Zenon
<1>2. allowed \in Extensions /\ allowed.dot = FALSE
  <2>1. allowed \in Extensions
    OBVIOUS
  <2>2. allowed.dot \in BOOLEAN
    BY <2>1, SMT DEF Extensions
  <2> QED
    BY <2>1, <2>2
<1>3. ToLower(allowed) = [name |-> allowed.name, dot |-> FALSE, upper |-> FALSE]
  BY <1>2, Lowered, Zenon
<1>4. ToLower(allowed) = ToLower(TrimDot(f.ext))
  BY <1>1, <1>3, Zenon
<1> QED
  BY <1>4, Zenon DEF ValidExtension

\* What was refused is a file that came and that Validate refuses.
RefusedForCause == \A f \in refused : f \in Incoming /\ ~Validate(f)

LEMMA RefusesForCause == UploadSpec => []RefusedForCause
<1>1. UploadInit => RefusedForCause
  BY DEF UploadInit, RefusedForCause
<1>2. RefusedForCause /\ [UploadNext]_vars => RefusedForCause'
  <2> SUFFICES ASSUME RefusedForCause, [UploadNext]_vars
               PROVE  RefusedForCause'
    OBVIOUS
  <2>1. refused' \in {{}, refused} \/ \E f \in Incoming : Refuse(f)
    BY DEF UploadNext, Handle, Upload, UploadReader, UploadTo, UploadOver, Use,
           Step, Restart, vars
  <2>2. ASSUME NEW f \in Incoming, Refuse(f) PROVE RefusedForCause'
    BY <2>2 DEF Refuse, RefusedForCause, Validate, ValidSize, ValidName,
                ValidExtension, ValidMimeType, ValidFileType
  <2>3. CASE refused' \in {{}, refused}
    BY <2>3 DEF RefusedForCause, Validate, ValidSize, ValidName,
                ValidExtension, ValidMimeType, ValidFileType
  <2> QED
    BY <2>1, <2>2, <2>3
<1> QED
  BY <1>1, <1>2, PTL DEF UploadSpec

\* No file is refused for an extension that the list has without a dot, for any
\* configuration and any files (validator.go:110-121).  An extension that the
\* list has with one is refused: README.md:321 and the defaults write them so.
THEOREM AllowedIsNeverRefused ==
  ASSUME \A f \in Incoming : f.ext \in Extensions,
         AllowedExtensions \subseteq Extensions
  PROVE  UploadSpec => []AllowedIsNotRefused
<1>1. RefusedForCause => AllowedIsNotRefused
  <2> SUFFICES ASSUME RefusedForCause, NEW f \in refused,
                      ValidSize(f) /\ ValidName(f),
                      ValidMimeType(f) /\ ValidFileType(f),
                      NEW allowed \in AllowedExtensions,
                      allowed.name = f.ext.name, ~allowed.dot
               PROVE  FALSE
    BY DEF AllowedIsNotRefused
  <2>1. f \in Incoming /\ ~ValidExtension(f)
    BY DEF RefusedForCause, Validate
  <2>2. ValidExtension(f)
    BY <2>1, NameDecides
  <2> QED
    BY <2>1, <2>2
<1> QED
  BY <1>1, RefusesForCause, PTL
=============================================================================
