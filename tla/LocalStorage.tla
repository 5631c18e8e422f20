---------------------------- MODULE LocalStorage ----------------------------
(***************************************************************************)
(* The local storage of pkg/upload: Put, Copy, Move, Delete and Get over   *)
(* a file system that other callers use at the same time.                  *)
(*                                                                         *)
(* The file system is external: a path names a file or nothing, an open    *)
(* file lives on when its name is removed, os.Create truncates the file    *)
(* its path names, and a write at an offset past the end leaves a hole.    *)
(* A Close does not fail: an error that comes no earlier, as some network  *)
(* file systems have it, is dropped by the deferred Closes of local.go:50  *)
(* and 143, and a Move would go on to delete its source.                   *)
(* A text is Blocks blocks long; io.Copy moves a block at a time.          *)
(* Directories are left out, and so are Stat and Exists, which only look.  *)
(***************************************************************************)
EXTENDS Naturals, Sequences

CONSTANTS
  Callers,   \* goroutines that use the storage
  Paths,     \* the paths they use
  Texts,     \* what they store
  Files,     \* bound of the model: files that exist at the same time
  NoFile,    \* what a path without a file names
  Hole,      \* a block that nobody has written
  Blocks     \* the length of a text

ASSUME StorageAssumption ==
  /\ NoFile \notin Files \cup Paths
  /\ Blocks \in Nat

VARIABLES
  dir,       \* the file a path names
  data,      \* the blocks of a file
  call,      \* what each caller is doing
  claim      \* history: what each caller may count on

storage == <<dir, data, call, claim>>

Block == Texts \cup {Hole}
Whole(text) == [k \in 1..Blocks |-> text]
Content(p) == IF dir[p] = NoFile THEN NoFile ELSE data[dir[p]]

(***************************************************************************)
(* A call: op and its arguments; pc; in and out, its open files, with the  *)
(* offset off; got, what a Get has read.                                   *)
(***************************************************************************)
Reading == {"copy", "move", "get"}
Putting == {"put", "upload"}
Writing == {"put", "upload", "copy", "move"}

Idle == [op |-> "none", src |-> NoFile, dst |-> NoFile, text |-> Hole,
         pc |-> "idle", in |-> NoFile, out |-> NoFile, off |-> 0, got |-> <<>>]

(***************************************************************************)
(* A claim, while ok: a Put or a Copy that has returned has content at its *)
(* destination, a Move that has opened its source has it at one of two     *)
(* paths, a Get reads it.  A claim ends when its call fails, but for that  *)
(* of a Move, and when another call sets out to write or remove there.     *)
(***************************************************************************)
NoClaim == [ok |-> FALSE, at |-> {}, content |-> <<>>]

Init ==
  /\ dir = [p \in Paths |-> NoFile]
  /\ data = [f \in Files |-> <<>>]
  /\ call = [c \in Callers |-> Idle]
  /\ claim = [c \in Callers |-> NoClaim]

At(c, pc) == call[c].pc = pc

\* The paths a call truncates, and those it removes.
Truncates(r) == IF r.op \in Writing THEN {r.dst} ELSE {}
Removes(r) ==
  CASE r.op \in {"delete", "move"} -> {r.src}
    [] r.op \in Putting -> {r.dst}
    [] OTHER -> {}

\* A call gets in the way of one that reads src and counts on the paths at: an
\* open file is still read when its path is removed.
Disturbs(r, src, at) ==
  Truncates(r) \cap (at \cup {src}) # {} \/ Removes(r) \cap at # {}

-----------------------------------------------------------------------------
(* The steps of a call *)

Begin(c, op, p, q, text) ==
  LET new == [Idle EXCEPT !.op = op, !.src = p, !.dst = q, !.text = text,
                !.pc = CASE op \in Reading -> "open"
                         [] op = "delete" -> "delete"
                         [] OTHER -> "create"]
      at == CASE op = "move" -> {p, q}
              [] op \in {"put", "upload", "copy"} -> {q}
              [] OTHER -> {}
      alone == \A b \in Callers \ {c} : ~Disturbs(call[b], p, at)
  IN /\ At(c, "idle")
     /\ call' = [call EXCEPT ![c] = new]
     /\ claim' = [d \in Callers |->
          CASE d # c /\ ~Disturbs(new, call[d].src, claim[d].at) -> claim[d]
            [] d = c /\ alone /\ op # "delete" /\ (op \in {"copy", "move"} => p # q) ->
                 [ok |-> TRUE, at |-> at,
                  content |-> IF op \in Putting THEN Whole(text) ELSE <<>>]
            [] OTHER -> NoClaim]
     /\ UNCHANGED <<dir, data>>

Linked(f) == \E p \in Paths : dir[p] = f
Held(f) == \E c \in Callers : f \in {call[c].in, call[c].out}

\* A file without a name that nobody has open is gone.
KeepFiles == data' = [f \in Files |-> IF (Linked(f) \/ Held(f))' THEN data[f] ELSE <<>>]

\* What is left of the claim of a call that ends in an error, or is cut off.
Unfinished(c) == IF call[c].op = "move" /\ ~At(c, "open") THEN claim[c] ELSE NoClaim

Errs(c) ==
  /\ call' = [call EXCEPT ![c] = Idle]
  /\ claim' = [claim EXCEPT ![c] = Unfinished(c)]

\* The call returns nil; its deferred Closes close its files.
Returns(c) ==
  /\ call' = [call EXCEPT ![c] = Idle]
  /\ claim' = [claim EXCEPT ![c] =
       IF ~@.ok \/ call[c].op = "get" THEN NoClaim ELSE [@ EXCEPT !.at = {call[c].dst}]]

\* A call of the file system fails.
Fails(c) ==
  /\ call[c].pc \in {"open", "create", "copying", "delete"}
  /\ Errs(c)
  /\ UNCHANGED dir
  /\ KeepFiles

OpenRemoves(c) ==               \* mutant: a Move deletes its source first
  LET f == dir[call[c].src]
  IN /\ At(c, "open") /\ f # NoFile
     /\ dir' = IF call[c].op = "move" THEN [dir EXCEPT ![call[c].src] = NoFile] ELSE dir
     /\ call' = [call EXCEPT ![c].in = f,
          ![c].pc = IF call[c].op = "get" THEN "reading" ELSE "create"]
     /\ claim' = [claim EXCEPT ![c] = IF @.ok THEN [@ EXCEPT !.content = data[f]] ELSE @]
     /\ UNCHANGED data

\* os.Open of the source.
Open(c) ==
  LET f == dir[call[c].src]
  IN /\ At(c, "open") /\ f # NoFile
     /\ call' = [call EXCEPT ![c].in = f,
          ![c].pc = IF call[c].op = "get" THEN "reading" ELSE "create"]
     /\ claim' = [claim EXCEPT ![c] = IF @.ok THEN [@ EXCEPT !.content = data[f]] ELSE @]
     /\ UNCHANGED <<dir, data>>

\* os.Create: a new file, or the one that is there, emptied.
Create(c) ==
  LET p == call[c].dst
  IN /\ At(c, "create")
     /\ \E f \in Files :
          /\ IF dir[p] # NoFile THEN f = dir[p] ELSE ~Linked(f) /\ ~Held(f)
          /\ dir' = [dir EXCEPT ![p] = f]
          /\ data' = [data EXCEPT ![f] = <<>>]
          /\ call' = [call EXCEPT ![c].out = f,
               ![c].pc = IF call[c].op \in Reading THEN "copying" ELSE "write"]
     /\ UNCHANGED claim

Overwritten(s, n, block) ==
  [k \in 1..(IF n > Len(s) THEN n ELSE Len(s)) |->
     IF k = n THEN block ELSE IF k <= Len(s) THEN s[k] ELSE Hole]

\* The next block goes where this caller's own offset is.
Write(c, block) ==
  LET f == call[c].out
      n == call[c].off + 1
  IN /\ data' = [data EXCEPT ![f] = Overwritten(@, n, block)]
     /\ call' = [call EXCEPT ![c].off = n]
     /\ UNCHANGED <<dir, claim>>

\* io.Copy from the reader of a Put.
PutBlock(c) == At(c, "write") /\ call[c].off < Blocks /\ Write(c, call[c].text)

PutReturnsEarly(c) ==           \* mutant: a copy that failed is taken for done
  /\ At(c, "write")
  /\ Returns(c)
  /\ UNCHANGED dir
  /\ KeepFiles

PutReturns(c) ==
  /\ At(c, "write") /\ call[c].off = Blocks
  /\ Returns(c)
  /\ UNCHANGED dir
  /\ KeepFiles

\* A Put whose copy fails removes what its path names by then; whether it could
\* is not looked at.
PutFails(c) ==
  /\ At(c, "write")
  /\ call' = [call EXCEPT ![c].pc = "remove"]
  /\ UNCHANGED <<dir, data, claim>>

PutRemoves(c) ==
  /\ At(c, "remove")
  /\ \/ dir' = [dir EXCEPT ![call[c].dst] = NoFile]
     \/ UNCHANGED dir
  /\ Errs(c)
  /\ KeepFiles

\* io.Copy from file to file.
CopyBlock(c) ==
  LET n == call[c].off + 1
  IN /\ At(c, "copying") /\ n <= Len(data[call[c].in])
     /\ Write(c, data[call[c].in][n])

\* At the end of the source a Copy returns.
CopyReturns(c) ==
  /\ At(c, "copying") /\ call[c].off >= Len(data[call[c].in])
  /\ call[c].op = "copy"
  /\ Returns(c)
  /\ UNCHANGED dir
  /\ KeepFiles

\* A Move goes on to delete it, when copyFile has closed both files.
MoveCopied(c) ==
  /\ At(c, "copying") /\ call[c].off >= Len(data[call[c].in])
  /\ call[c].op = "move"
  /\ call' = [call EXCEPT ![c] = [@ EXCEPT !.pc = "delete", !.in = NoFile,
                                           !.out = NoFile, !.off = 0]]
  /\ UNCHANGED <<dir, claim>>
  /\ KeepFiles

DeleteEmpties(c) ==             \* mutant: the file is emptied before it is removed
  /\ At(c, "delete")
  /\ dir[call[c].src] # NoFile
  /\ dir' = [dir EXCEPT ![call[c].src] = NoFile]
  /\ Returns(c)
  /\ data' = [data EXCEPT ![dir[call[c].src]] = <<>>]

\* os.Remove of the source: of a Delete, or the last step of a Move.
Delete(c) ==
  /\ At(c, "delete")
  /\ dir[call[c].src] # NoFile
  /\ dir' = [dir EXCEPT ![call[c].src] = NoFile]
  /\ Returns(c)
  /\ KeepFiles

\* The caller of Get reads the file to its end, and closes it.
Read(c) ==
  LET s == data[call[c].in]
      n == Len(call[c].got) + 1
  IN /\ At(c, "reading") /\ n <= Len(s)
     /\ call' = [call EXCEPT ![c].got = Append(@, s[n])]
     /\ UNCHANGED <<dir, data, claim>>

ReadEnds(c) ==
  /\ At(c, "reading") /\ Len(call[c].got) >= Len(data[call[c].in])
  /\ Returns(c)
  /\ UNCHANGED dir
  /\ KeepFiles

GoesOn(c) ==
  \/ Fails(c) \/ Open(c) \/ Create(c)
  \/ PutBlock(c) \/ PutFails(c) \/ PutRemoves(c)
  \/ CopyBlock(c) \/ CopyReturns(c) \/ MoveCopied(c)
  \/ Read(c) \/ ReadEnds(c)

Continue(c) == PutReturns(c) \/ Delete(c) \/ GoesOn(c)

\* The process dies and is started again: files stay as they are, and nothing
\* in NewLocalStorage looks at them.
Crash ==
  /\ \E c \in Callers : ~At(c, "idle")
  /\ call' = [c \in Callers |-> Idle]
  /\ claim' = [c \in Callers |-> IF At(c, "idle") THEN claim[c] ELSE Unfinished(c)]
  /\ UNCHANGED dir
  /\ KeepFiles

BeginOne(c) ==
  \/ \E p \in Paths, text \in Texts : Begin(c, "put", p, p, text)
  \/ \E p, q \in Paths, op \in {"copy", "move"} : Begin(c, op, p, q, Hole)
  \/ \E p \in Paths, op \in {"delete", "get"} : Begin(c, op, p, p, Hole)

Next == Crash \/ \E c \in Callers : BeginOne(c) \/ Continue(c)

Spec == Init /\ [][Next]_storage

-----------------------------------------------------------------------------
(* Properties *)

Call == [op : Reading \cup Writing \cup {"delete", "none"},
         src : Paths \cup {NoFile}, dst : Paths \cup {NoFile}, text : Block,
         pc : {"idle", "open", "create", "write", "copying", "reading",
               "remove", "delete"},
         in : Files \cup {NoFile}, out : Files \cup {NoFile}, off : Nat,
         got : Seq(Block)]

\* Types; no two paths name one file, and a call has files open only while it
\* copies or reads.
StorageTypeOK ==
  /\ dir \in [Paths -> Files \cup {NoFile}]
  /\ data \in [Files -> Seq(Block)]
  /\ call \in [Callers -> Call]
  /\ claim \in [Callers -> [ok : BOOLEAN, at : SUBSET Paths, content : Seq(Block)]]
  /\ \A p, q \in Paths : dir[p] = dir[q] /\ dir[p] # NoFile => p = q
  /\ \A c \in Callers : LET r == call[c] IN
       /\ r.in # NoFile => r.op \in Reading /\ r.pc \in {"create", "copying", "reading"}
       /\ r.out # NoFile => r.op \in Writing /\ r.pc \in {"write", "remove", "copying"}

\* A Put, Copy or Move that has returned without an error has left the whole of
\* what it stored at its destination, and there it stays until somebody else
\* writes to that path or removes it: a call that was cut off or is late changes
\* nothing, and deleting the source of a Copy while it is read does no harm.
SuccessIsWhole ==
  \A c \in Callers, p \in Paths :
    At(c, "idle") /\ claim[c].ok /\ claim[c].at = {p} => Content(p) = claim[c].content

\* A Move to another path keeps the content at one of the two at every moment,
\* whichever of its steps fails, and when the process dies in any of them.
MoveLosesNothing ==
  \A c \in Callers, p, q \in Paths :
    /\ p # q /\ claim[c].ok /\ claim[c].at = {p, q} /\ ~At(c, "open")
    => claim[c].content \in {Content(p), Content(q)}

\* A Get that has opened a file reads all of it, also when its path is deleted
\* or moved away meanwhile.
ReadersSeeWhole ==
  [][\A c \in Callers : claim[c].ok /\ ReadEnds(c) => call[c].got = claim[c].content]_storage
=============================================================================
