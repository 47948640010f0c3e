------------------------------- MODULE Router -------------------------------
(***************************************************************************)
(* The router (Src/router.c) and the answers with files (res_static,       *)
(* res_load_file and res_file_handle of Src/response.c).                   *)
(*                                                                         *)
(* disk is the working directory: a function from the names below it to    *)
(* what they are, at first one of Disks.  A name is a sequence of tokens, "/" one of them; the    *)
(* content of a file is its size.  BIG stands for the 1 MB above which a   *)
(* file is sent in chunks and BUFFER for the 512 KB of a chunk.            *)
(***************************************************************************)
EXTENDS Integers, Sequences, SequencesExt, FiniteSets, FiniteSetsExt

CONSTANTS Cwd, Disks, Sizes, Apps, MAX_FILES, BIG, BUFFER, HEAD

ASSUME SizesAssumption == {BIG, HEAD, MAX_FILES} \subseteq Nat /\ BUFFER \in Nat \ {0}

\* getcwd gives an absolute path; a name below it has a "/" between any two of its parts.
ASSUME RouterAssumption ==
  /\ Cwd \in Seq(STRING) /\ Cwd # <<>> /\ Cwd[1] = "/"
  /\ \A d \in Disks :
       /\ IsFiniteSet(DOMAIN d)
       /\ \A n \in DOMAIN d : /\ d[n] \in [dir : BOOLEAN, size : Nat]
                              /\ n \in Seq(STRING) /\ n # <<>>
                              /\ \A i \in DOMAIN n : i % 2 = 0 => n[i] = "/"
  /\ Sizes \subseteq Nat
  /\ Apps \in Seq([name : STRING, keys : Seq(STRING), cf : Seq(STRING)])
  /\ \A a \in DOMAIN Apps : Len(Apps[a].cf) = Len(Apps[a].keys)

VARIABLES disk, g_file_list, g_cmp, unchanged

routervars == <<disk, g_file_list, g_cmp, unchanged>>

RouterInit ==
  /\ disk \in Disks
  /\ g_file_list = <<>>
  /\ g_cmp = <<>>
  /\ unchanged = DOMAIN disk

\* The names below a directory; <<>> is the working directory.
Below(dir) ==
  {n \in DOMAIN disk : n # dir /\ IsPrefix(IF dir = <<>> THEN dir ELSE dir \o <<"/">>, n)}

\* The orders in which traverse_directory meets them: readdir has any order, and a directory
\* is listed right behind what is below it.
Traversals(dir) ==
  {s \in SetToSeqs(Below(dir)) :
     \A i \in DOMAIN s : \A below \in {Below(s[i])} :
       disk[s[i]].dir => /\ Cardinality(below) < i
                         /\ ToSet(SubSeq(s, i - Cardinality(below), i - 1)) = below}

\* The path of a name: the static directory is Cwd "/" static_dir.
Path(dir, n) == IF dir = <<>> THEN Cwd \o <<"/", "/">> \o n ELSE Cwd \o <<"/">> \o n

\* strstr(path, "/"): on Linux, where the path begins with "/", that is all of it.
Url(path) == SubSeq(path, SelectInSeq(path, LAMBDA t : t = "/"), Len(path))

FileInfo(dir, n) == [name |-> n, url |-> Url(Path(dir, n)), size |-> disk[n].size]

router_init(dir) ==
  /\ \E s \in Traversals(dir) :
       g_file_list' = [i \in 1 .. Min({Len(s), MAX_FILES}) |-> FileInfo(dir, s[i])]
  /\ g_cmp' = <<>>
  /\ UNCHANGED <<disk, unchanged>>

\* The views of an app, each under "/" name key.
ViewsOf(app) ==
  [i \in DOMAIN app.keys |-> [key |-> <<"/", app.name, "/", app.keys[i]>>, cf |-> app.cf[i]]]

\* Mutant: every app begins at the start of the table.
router_add_app_Over(app) ==
  /\ g_cmp' = ViewsOf(app)
  /\ UNCHANGED <<disk, g_file_list, unchanged>>

router_add_app(app) ==
  /\ g_cmp' = g_cmp \o ViewsOf(app)
  /\ UNCHANGED <<disk, g_file_list, unchanged>>

\* A file is written again or removed while the server runs.
FileChanges(n) ==
  /\ n \in unchanged /\ ~disk[n].dir
  /\ \/ \E size \in Sizes \ {disk[n].size} : disk' = [disk EXCEPT ![n].size = size]
     \/ disk' = [m \in DOMAIN disk \ {n} |-> disk[m]]
  /\ unchanged' = unchanged \ {n}
  /\ UNCHANGED <<g_file_list, g_cmp>>
-----------------------------------------------------------------------------
(* An answer: its kind, the view or the name of the file, and the part of  *)
(* its content that was sent.  crash: memory is used that is not there.    *)

NotFound == [kind |-> "404", of |-> <<>>, bytes |-> 0, crash |-> FALSE]
View(cf) == [kind |-> "view", of |-> <<cf>>, bytes |-> 0, crash |-> FALSE]

\* The chunks of a file: fread fills the buffer until the end of the file is met, so the last
\* chunk is shorter than the buffer, and empty for a multiple of it.
Chunks(size) ==
  [i \in 1 .. (size \div BUFFER) + 1 |-> IF i * BUFFER <= size THEN BUFFER ELSE size % BUFFER]

\* What a client reads of the chunks and the last one, 0: it stops at the first empty one.
Decoded(chunks) ==
  LET stream == Append(chunks, 0)
      end == SelectInSeq(stream, LAMBDA c : c = 0)
  IN FoldLeft(+, 0, SubSeq(stream, 1, end))

\* res_file_handle reads the file as it is now; a failing fopen ends the answer.
res_file_handle(f) ==
  [kind |-> "chunked", of |-> f.name, crash |-> FALSE,
   bytes |-> IF f.name \in DOMAIN disk THEN Decoded(Chunks(disk[f.name].size)) ELSE 0]

\* res_static sends as many bytes of the file as it had at the start.  The result of
\* res_load_file is freed, and is a constant when the file cannot be opened; a directory has
\* no size to read.
res_static(f) ==
  IF f.size > BIG THEN res_file_handle(f)
  ELSE [kind |-> "file", of |-> f.name, bytes |-> f.size,
        crash |-> f.name \notin DOMAIN disk \/ (f.name \in DOMAIN disk /\ disk[f.name].dir)]

\* res_parse_send puts a head of HEAD and the file into a string as large as BIG
\* (FINAL_STR_SIZE, too, is 1 MB).  What does not fit is written behind it.
Overruns(answer) == answer.kind = "file" /\ HEAD + answer.bytes > BIG

\* The views come first, then the files and the entry behind the last one, whose url is
\* empty, and at MAX_FILES is not in the table.
router_handle(path) ==
  LET v == SelectInSeq(g_cmp, LAMBDA e : e.key = path)
      f == SelectInSeq(g_file_list, LAMBDA e : e.url = path)
  IN IF v # 0 THEN View(g_cmp[v].cf)
     ELSE IF f # 0 THEN res_static(g_file_list[f])
     ELSE IF path = <<>> THEN [NotFound EXCEPT !.kind = "file", !.crash = TRUE]
     ELSE NotFound
=============================================================================
