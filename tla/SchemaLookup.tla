---------------------------- MODULE SchemaLookup ----------------------------
(***************************************************************************)
(* The concepts that the locators of a package's linkbases name: its       *)
(* schemas, read by rust/src/linkbase.rs, which inventory.rs repeats.      *)
(*                                                                         *)
(* A schema is [path, file (its name), target (its namespace), elements    *)
(* (ids to concepts)]; paths are numbers in the order they are read.  A    *)
(* locator is [href ("local", to its own file, "relative" or "remote"),    *)
(* path, file, id].                                                        *)
(***************************************************************************)
EXTENDS Integers

CONSTANT None

\* A schema without a target namespace defines nothing.
Defines(s, id) == s.target # None /\ id \in DOMAIN s.elements

AtPath(schemas, path, id) == {s \in schemas : s.path = path /\ Defines(s, id)}
Called(schemas, file, id) == {s \in schemas : s.file = file /\ Defines(s, id)}

\* Of two schemas of one name the later one's concept stays in the map.
LastRead(found) == CHOOSE s \in found : \A t \in found : t.path <= s.path

\* By its path, else by its file name; a URL by its file name alone.
BySchema(schemas, l) ==
    LET here == AtPath(schemas, l.path, l.id)
        named == Called(schemas, l.file, l.id)
    IN  IF l.href # "remote" /\ here # {} THEN LastRead(here).elements[l.id]
        ELSE IF l.href # "local" /\ named # {} THEN LastRead(named).elements[l.id]
        ELSE None

\* linkbase.rs falls back on the prefixes the documents declare: declared
\* maps the ids that start with one to their concepts.
Located(schemas, declared, l) ==
    IF BySchema(schemas, l) # None THEN BySchema(schemas, l)
    ELSE IF l.id \in DOMAIN declared THEN declared[l.id] ELSE None
=============================================================================
