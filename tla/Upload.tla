------------------------------- MODULE Upload -------------------------------
(***************************************************************************)
(* pkg/upload: the Manager with its Validator over LocalStorage, and an    *)
(* application that uses the storage itself next to it.                    *)
(*                                                                         *)
(* Of a file name the model keeps its length, whether it has one of the    *)
(* characters that are refused, and its extension.                         *)
(***************************************************************************)
EXTENDS LocalStorage

CONSTANTS
  AllowedExtensions,   \* upload.allowed_extensions, written as configured
  AllowedMimeTypes,    \* upload.allowed_mime_types
  AllowedTypes,        \* ValidationConfig; NewManager leaves it empty
  MaxFileSize,         \* 0: no limit
  MinFileSize,
  MaxFileNameLength,
  Incoming             \* the files clients send

ASSUME UploadAssumption ==
  /\ MaxFileSize \in Nat /\ MinFileSize \in Nat /\ MaxFileNameLength \in Nat
  /\ \A text \in Texts : Whole(text) # NoFile

VARIABLES
  path,      \* of each path: "fresh", "hidden", "published" or "known"
  refused    \* the file Validate has just refused, if it was the last step

vars == <<storage, path, refused>>

UploadInit ==
  /\ Init
  /\ path = [p \in Paths |-> "fresh"]
  /\ refused = {}

-----------------------------------------------------------------------------
(* Validator *)

TrimDot(ext) == [ext EXCEPT !.dot = FALSE]
ToLower(ext) == [ext EXCEPT !.upper = FALSE]

ValidSize(f) ==
  /\ f.size > 0
  /\ MaxFileSize > 0 => f.size <= MaxFileSize
  /\ MinFileSize > 0 => f.size >= MinFileSize

ValidName(f) ==
  /\ f.length > 0
  /\ MaxFileNameLength > 0 => f.length <= MaxFileNameLength
  /\ ~f.dangerous

ValidExtensionCased(f) ==       \* mutant: the file's extension is not lowered
  \/ AllowedExtensions = {}
  \/ \E allowed \in AllowedExtensions : ToLower(allowed) = TrimDot(f.ext)

\* The file's extension loses its dot, the allowed ones do not.
ValidExtension(f) ==
  \/ AllowedExtensions = {}
  \/ \E allowed \in AllowedExtensions : ToLower(allowed) = ToLower(TrimDot(f.ext))

ValidMimeType(f) == AllowedMimeTypes = {} \/ f.mime \in AllowedMimeTypes

ExtTypes ==
  [image |-> {"jpg", "jpeg", "png", "gif", "bmp", "webp", "svg"},
   video |-> {"mp4", "avi", "mov", "wmv", "flv", "mkv"},
   audio |-> {"mp3", "wav", "ogg", "flac", "aac"},
   document |-> {"pdf", "doc", "docx", "xls", "xlsx", "ppt", "pptx", "txt"},
   archive |-> {"zip", "rar", "7z", "tar", "gz"}]

DetectByExt(name) == {t \in DOMAIN ExtTypes : name \in ExtTypes[t]}

\* Of the subtypes that are told apart by a prefix, the prefix.
DetectByMime(mime) ==
  CASE mime[1] \in {"image", "video", "audio"} -> mime[1]
    [] mime \in {"application"} \X {"pdf", "msword", "vnd.ms-excel",
         "vnd.ms-powerpoint", "vnd.openxmlformats"} -> "document"
    [] mime \in {"application"} \X {"zip", "x-rar-compressed", "x-tar", "gzip"} ->
         "archive"
    [] OTHER -> "other"

DetectFileType(f) ==
  IF DetectByExt(f.ext.name) = {}
  THEN DetectByMime(f.mime)
  ELSE CHOOSE t \in DetectByExt(f.ext.name) : TRUE

ValidFileType(f) == AllowedTypes = {} \/ DetectFileType(f) \in AllowedTypes

Validate(f) ==
  /\ ValidSize(f) /\ ValidName(f) /\ ValidExtension(f)
  /\ ValidMimeType(f) /\ ValidFileType(f)

-----------------------------------------------------------------------------
(* Manager *)

UploadToName(c, p, text) ==     \* mutant: the path is built without a UUID
  /\ path[p] \in {"fresh", "published"}
  /\ Begin(c, "upload", p, p, text)
  /\ UNCHANGED path
  /\ refused' = {}

\* generatePath puts a new UUID into the path: nobody has used the path, unless
\* the file name takes the UUID out again.
UploadTo(c, p, text) ==
  /\ path[p] = "fresh"
  /\ Begin(c, "upload", p, p, text)
  /\ path' = [path EXCEPT ![p] = "hidden"]
  /\ refused' = {}

\* After "/../" in the file name the storage joins the path to one of the name's
\* choosing, which may be in use; not to one nobody else knows.
UploadOver(c, p, text) ==
  /\ path[p] # "hidden"
  /\ Begin(c, "put", p, p, text)
  /\ path' = [path EXCEPT ![p] = "known"]
  /\ refused' = {}

\* A name that Validate lets pass has no separator.
Upload(c, f, p, text) == Validate(f) /\ UploadTo(c, p, text)

\* Validate looks at nothing but the file: it is enough (a bound of the model)
\* to see it refuse while no other call is going on.
Refuse(f) ==
  /\ \A c \in Callers : At(c, "idle")
  /\ ~Validate(f)
  /\ refused' = {f}
  /\ UNCHANGED <<storage, path>>

\* UploadReader tests the size its caller names, and nothing else.
UploadReader(c, f, p, text) ==
  /\ MaxFileSize > 0 => f.size <= MaxFileSize
  /\ UploadTo(c, p, text) \/ (f.dangerous /\ UploadOver(c, p, text))

\* The application calls the storage, or Manager.Delete, with paths it knows:
\* not with that of an upload that has not returned.  A path it writes to names
\* an upload no more.
Use(c) ==
  /\ BeginOne(c)
  /\ LET new == call'[c]
     IN /\ "hidden" \notin {path[new.src], path[new.dst]}
        /\ path' = [p \in Paths |->
             IF p \in Truncates(new) \/ (p = new.src /\ path[p] = "fresh")
             THEN "known" ELSE path[p]]
  /\ refused' = {}

\* A call goes on.  An upload that returns gives its path away; a path whose
\* file was deleted names an upload no more.
Step(c) ==
  /\ \/ /\ PutReturns(c)
        /\ path' = IF call[c].op = "upload"
                   THEN [path EXCEPT ![call[c].dst] = "published"] ELSE path
     \/ /\ Delete(c)
        /\ path' = [path EXCEPT ![call[c].src] = "known"]
     \/ GoesOn(c) /\ UNCHANGED path
  /\ refused' = {}

Restart == Crash /\ UNCHANGED path /\ refused' = {}

Handle(c) ==
  \/ \E f \in Incoming, p \in Paths, text \in Texts : Upload(c, f, p, text)
  \/ \E f \in Incoming, p \in Paths, text \in Texts : UploadReader(c, f, p, text)
  \/ Use(c) \/ Step(c)

UploadNext ==
  \/ Restart
  \/ \E f \in Incoming : Refuse(f)
  \/ \E c \in Callers : Handle(c)

UploadSpec == UploadInit /\ [][UploadNext]_vars

-----------------------------------------------------------------------------
(* Properties *)

\* The Manager implements UploadStore: from the moment an upload under a path with
\* its UUID returns, until somebody sets out to delete or overwrite that path,
\* there is the whole text behind it, whatever else is going on and whatever a
\* crash or a failed call leaves.  Who may overwrite it is the application, and
\* an UploadReader whose file name leads there: uploads with a UUID do not.
Store == INSTANCE UploadStore WITH
  Values <- {Whole(text) : text \in Texts}, None <- NoFile,
  stored <- [p \in Paths |-> IF path[p] = "published" THEN Content(p) ELSE NoFile]

KeepsUploads == Store!Spec

\* A file is refused for its extension only when its name is not in the list, or
\* stands there with a dot, whatever the case of either.  (README.md:321 and the
\* defaults of config.go:320 write every extension with a dot.)
AllowedIsNotRefused ==
  \A f \in refused :
    ValidSize(f) /\ ValidName(f) /\ ValidMimeType(f) /\ ValidFileType(f) =>
      \A allowed \in AllowedExtensions : allowed.name = f.ext.name => allowed.dot
=============================================================================
