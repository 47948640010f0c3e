-------------------------------- MODULE Conf --------------------------------
(***************************************************************************)
(* The configuration (Src/conf/conf.c): conf_init reads conf.xml with      *)
(* libxml2 (external) and sets g_server_conf_all.                          *)
(*                                                                         *)
(* A document is NoDoc, when there is no file or it is not XML, or a       *)
(* record of the root's name, whether it has an element model, and that    *)
(* element's children, each a name and a content.  A comment is a child    *)
(* whose name is "comment".                                                *)
(***************************************************************************)
EXTENDS Integers, Sequences, SequencesExt

CONSTANTS Docs, NoDoc

VARIABLES doc, curNode, conf, confpc

confvars == <<doc, curNode, conf, confpc>>

Known == {"host", "port", "username", "password", "database"}

\* A static variable, zero.
ConfInit ==
  /\ doc \in Docs
  /\ curNode = 0
  /\ conf = [model |-> [n \in Known |-> ""], port |-> 0, static_dir |-> <<>>]
  /\ confpc = "load"

\* The root is checked and the element model is looked for; without one the loop ends with
\* a null pointer, which is then read.
conf_initLoad ==
  /\ confpc = "load"
  /\ confpc' = IF doc = NoDoc THEN "done"
               ELSE IF doc.root # "dmfserver" THEN "done"
               ELSE IF doc.model THEN "model" ELSE "crashed"
  /\ curNode' = 1
  /\ UNCHANGED <<doc, conf>>

\* Mutant: the node is not advanced behind an element that was read.
conf_initModel_Stays ==
  /\ confpc = "model" /\ curNode <= Len(doc.children)
  /\ doc.children[curNode].name \in Known
  /\ conf' = [conf EXCEPT !.model[doc.children[curNode].name] = doc.children[curNode].content]
  /\ UNCHANGED <<doc, confpc, curNode>>

\* A pass of the loop over the children.  One that is not known goes round the loop without
\* advancing: that changes nothing, so it is no step of the model.
conf_initModel ==
  /\ confpc = "model" /\ curNode <= Len(doc.children)
  /\ doc.children[curNode].name \in Known
  /\ conf' = [conf EXCEPT !.model[doc.children[curNode].name] = doc.children[curNode].content]
  /\ curNode' = curNode + 1
  /\ UNCHANGED <<doc, confpc>>

\* The end of the children: the content of the last one is freed, or, when there was none, a
\* pointer that was never set.  Nothing of the element server is read.
conf_initServer ==
  /\ confpc = "model" /\ curNode > Len(doc.children)
  /\ conf' = [conf EXCEPT !.port = 8080, !.static_dir = <<"static">>]
  /\ confpc' \in {"done"} \cup (IF doc.children = <<>> THEN {"crashed"} ELSE {})
  /\ UNCHANGED <<doc, curNode>>

ConfNext == conf_initLoad \/ conf_initModel \/ conf_initServer
-----------------------------------------------------------------------------
\* The documents conf_init gets through: no document of this server, or one whose element
\* model has children, and no other than the known ones.
HasRoot == doc # NoDoc /\ doc.root = "dmfserver"
Readable ==
  HasRoot => /\ doc.model /\ doc.children # <<>>
             /\ \A i \in DOMAIN doc.children : doc.children[i].name \in Known

\* What a document says of the database: the last element of every name.
Says(name) ==
  LET i == SelectLastInSeq(doc.children, LAMBDA c : c.name = name)
  IN IF i = 0 THEN "" ELSE doc.children[i].content
=============================================================================
