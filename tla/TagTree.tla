-------------------------------- MODULE TagTree --------------------------------
(***************************************************************************)
(* What the tags and schemas of a conditions database promise, whichever   *)
(* adapters change them and whatever fails on the way: a tag appears below *)
(* its parents and stays what it is, a struct is announced once it has its *)
(* tables, and a schema belongs to a struct and is never replaced, only    *)
(* dropped. Every operation is one step here.                              *)
(***************************************************************************)
CONSTANTS
  Tags,    \* the tags, by path
  Above,   \* Above[p]: the tags on the path to p
  Table    \* Table[p]: the name of the tables of p

VARIABLES
  tag,      \* what each tag is: "absent", "folder" or "struct"
  storage,  \* names of the complete pairs of tables
  schema,   \* the schema of each tag, "none" without one
  made      \* tags that somebody was told are made

vars == <<tag, storage, schema, made>>

Init ==
  /\ tag = [p \in Tags |-> "absent"]
  /\ storage = {}
  /\ schema = [p \in Tags |-> "none"]
  /\ made = {}

Grow(p, kind) ==
  /\ tag[p] = "absent"
  /\ \A q \in Above[p] : tag[q] # "absent"
  /\ tag' = [tag EXCEPT ![p] = kind]
  /\ UNCHANGED <<storage, schema>>

Equip(p) ==
  /\ tag[p] = "struct"
  /\ storage' = storage \union {Table[p]}
  /\ UNCHANGED <<tag, schema>>

SetSchema(p, s) ==
  /\ tag[p] = "struct"
  /\ schema[p] = "none"
  /\ schema' = [schema EXCEPT ![p] = s]
  /\ UNCHANGED <<tag, storage>>

DropSchema(p) ==
  /\ schema' = [schema EXCEPT ![p] = "none"]
  /\ UNCHANGED <<tag, storage>>

Usable(p) == tag[p] = "folder" \/ (tag[p] = "struct" /\ Table[p] \in storage)

(* Tags are announced, alone or with a change, once they can be used.      *)
Announce ==
  /\ made \subseteq made'
  /\ \A p \in made' : Usable(p)'

Change ==
  \/ \E p \in Tags :
       \/ \E kind \in {"folder", "struct"} : Grow(p, kind)
       \/ Equip(p)
       \/ \E s \in {"json", "base64"} : SetSchema(p, s)
       \/ DropSchema(p)
  \/ UNCHANGED <<tag, storage, schema>>

Next == Announce /\ Change

Spec == Init /\ [][Next]_vars
================================================================================
