--------------------------------- MODULE Config ---------------------------------
(***************************************************************************)
(* hxrpcconfig::LoadConfigFile and ParseYamlLine (src/config.cc): a subset *)
(* of YAML is read line by line and flattened to paths, with a stack of    *)
(* the sections that are open.                                             *)
(*                                                                         *)
(* A line is what fgets returns.  Comments, quotes and blanks are gone; a  *)
(* name with dots, such as a service's, is the sequence of its parts, and  *)
(* so is a path.  A line with nothing but a comment, or without a colon,   *)
(* is Ignored.                                                             *)
(***************************************************************************)
EXTENDS Integers, FiniteSets, SequencesExt

CONSTANTS
    Pages,     \* sets of lines; a file has the lines of one of them, in any order
    MaxLines   \* bound: the length of a file

Empty == [kind |-> "empty"]        \* no value, or an empty one
Ignored == [kind |-> "ignored"]
Line(indent, key, value) == [kind |-> "line", indent |-> indent, key |-> key, value |-> value]

VARIABLES
    phase,       \* closed, reading, or what comes after the end of the file
    page,        \* the page the file is taken from
    lines,       \* the lines read so far
    sections,    \* yaml_sections
    config_map   \* config_map_: path -> value

fileVars == <<page, lines, sections, config_map>>

NoEntries == [p \in {} |-> Empty]

ConfigInit ==
    /\ phase = "closed" /\ page = {} /\ lines = <<>> /\ sections = <<>>
    /\ config_map = NoEntries

\* fopen
OpenFile ==
    /\ phase = "closed" /\ phase' = "reading"
    /\ page' \in Pages
    /\ UNCHANGED <<lines, sections, config_map>>
OpenFails ==
    /\ phase = "closed" /\ phase' = "failed"
    /\ UNCHANGED fileVars

Path(open) == FlattenSeq([i \in DOMAIN open |-> open[i].key])

\* Mutant: a section of the same depth stays open.
Popped_Deeper(indent) ==
    LET shallower == {i \in DOMAIN sections : sections[i].indent <= indent} IN
    SubSeq(sections, 1, Max(shallower \cup {0}))

\* The sections that are left when those at least as deep as the line are popped.
Popped(indent) ==
    LET shallower == {i \in DOMAIN sections : sections[i].indent < indent} IN
    SubSeq(sections, 1, Max(shallower \cup {0}))

\* A line without a value opens a section, one with a value is an entry.
ParseYamlLine(l) ==
    \/ l = Ignored /\ UNCHANGED <<sections, config_map>>
    \/ /\ l.kind = "line" /\ l.value = Empty
       /\ sections' = Append(Popped(l.indent), [indent |-> l.indent, key |-> l.key])
       /\ UNCHANGED config_map
    \/ /\ l.kind = "line" /\ l.value # Empty
       /\ sections' = Popped(l.indent)
       /\ LET path == Path(Popped(l.indent)) \o l.key IN
          config_map' = [p \in DOMAIN config_map \cup {path} |->
                           IF p = path THEN l.value ELSE config_map[p]]

ReadLine ==
    /\ phase = "reading" /\ Len(lines) < MaxLines
    /\ \E l \in page : ParseYamlLine(l) /\ lines' = Append(lines, l)
    /\ UNCHANGED <<phase, page>>

\* hxrpcconfig::Load
Load(path) == IF path \in DOMAIN config_map THEN config_map[path] ELSE Empty

-----------------------------------------------------------------------------
(* Properties *)

Content == {i \in DOMAIN lines : lines[i] # Ignored}
Entries == {i \in Content : lines[i].value # Empty}

\* The sections that line i is in: those before it that no line since, up to
\* line i itself, is as shallow as.
Enclosing(i) ==
    {j \in Content \ Entries : j < i /\ \A k \in Content :
        k \in (j + 1)..i => lines[k].indent > lines[j].indent}
PathOf(i) ==
    LET outer == Enclosing(i)
        nth(n) == CHOOSE j \in outer : Cardinality({k \in outer : k <= j}) = n
    IN  FlattenSeq([n \in 1..Cardinality(outer) |-> lines[nth(n)].key]) \o lines[i].key

\* The table holds what the nesting of the lines says, whatever order and depth
\* they come in: every entry under the path of the sections around it, and of
\* two entries with one path the later.
Flattened ==
    phase \in {"reading", "loaded"} =>
        /\ DOMAIN config_map = {PathOf(i) : i \in Entries}
        /\ \A i \in Entries :
             (\A j \in Entries : j > i => PathOf(j) # PathOf(i)) =>
                 config_map[PathOf(i)] = lines[i].value
=============================================================================
