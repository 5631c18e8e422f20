----------------------------- MODULE MCUpload -----------------------------
(* Two callers meet on every path; three files, because two may have names  *)
(* and a caller may hold one without.  The clients send a photograph, with  *)
(* its extension in capitals and with a file name that is refused, a        *)
(* document whose extension is configured with a dot, and a text.           *)
EXTENDS Upload, TLC

Ext(name, dot, upper) == [name |-> name, dot |-> dot, upper |-> upper]
File(name, upper, dangerous, mime) ==
  [size |-> 1, length |-> 5, dangerous |-> dangerous,
   ext |-> Ext(name, TRUE, upper), mime |-> mime]

MCIncoming == {File("jpg", TRUE, FALSE, <<"image", "jpeg">>),
               File("jpg", FALSE, TRUE, <<"image", "jpeg">>),
               File("pdf", FALSE, FALSE, <<"application", "pdf">>),
               File("txt", FALSE, FALSE, <<"text", "plain">>)}
MCMimes == {<<"image", "jpeg">>, <<"application", "pdf">>}
MCExtensions == {Ext("jpg", FALSE, FALSE), Ext("pdf", TRUE, FALSE)}
MCNone == {}

Symmetry == Permutations(Callers) \cup Permutations(Files)
            \cup Permutations(Paths)
=============================================================================
