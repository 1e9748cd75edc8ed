------------------------------ MODULE IniConfig ------------------------------
(***************************************************************************)
(* The INI configuration (config.cpp, config.h).  A file is a sequence of  *)
(* lines [form, name, value] as they are once comment and line end are     *)
(* cut: "blank", "header", or "entry", a line that is neither, with the    *)
(* name before its first "=" and the characters after it (either may be    *)
(* empty).  The result of every trim is dropped in the code, so blanks     *)
(* stay where they are, and a header with a blank around its brackets is   *)
(* an entry without a value.  An entry that would be written back as a     *)
(* header, [k=v]= as [k=v], is left out.                                   *)
(***************************************************************************)
EXTENDS Naturals, Sequences

CONSTANTS
  Instances,    \* the IniConfig objects of the process
  Paths,        \* the files
  Contents,     \* what may have been written to them from outside
  Order         \* the names of sections and keys, in the order of SortMap

None == "missing"
NoFile == <<[form |-> None, name |-> "", value |-> <<>>]>>

VARIABLES
  files,        \* path -> its lines, or NoFile
  cfg,          \* instance -> section -> key -> value
  curSection    \* the static variable of parseLine, shared by all instances

vars == <<files, cfg, curSection>>

Empty == [x \in {} |-> x]
Put(f, x, y) == [z \in DOMAIN f \union {x} |-> IF z = x THEN y ELSE f[z]]

HasValue(line) == line.name # "" /\ line.value # <<>>

\* What the loop of parseLine keeps of an entry's line: no "=" of it.
Kept(line) ==
  LET text == line.value
      kept[i \in 0 .. Len(text)] ==
        IF i = 0 THEN <<>>
        ELSE IF text[i] = "=" THEN kept[i - 1] ELSE Append(kept[i - 1], text[i])
  IN [form |-> line.form, name |-> line.name, value |-> kept[Len(text)]]

\* A line without key or value still makes its section.
setSectionKeyValue(c, section, line) ==
  LET old == IF section \in DOMAIN c THEN c[section] ELSE Empty
  IN Put(c, section, IF HasValue(line) THEN Put(old, line.name, line.value) ELSE old)

\* parseLine and what load does with its result
parseLine(st, line) ==
  CASE line.form = "blank"  -> st
    [] line.form = "header" -> [cfg |-> st.cfg, section |-> line.name]
    [] line.form = "entry"  ->
         [cfg     |-> setSectionKeyValue(st.cfg, st.section, Kept(line)),
          section |-> st.section]

\* The lines of a file one after the other, on top of what is there before.
Read(lines, before) ==
  LET after[i \in 0 .. Len(lines)] ==
        IF i = 0 THEN before ELSE parseLine(after[i - 1], lines[i])
  IN after[Len(lines)]

Loaded(lines, section) == Read(lines, [cfg |-> Empty, section |-> section])

getStrValue(c, section, key, default) ==
  IF section \in DOMAIN c /\ key \in DOMAIN c[section] THEN c[section][key] ELSE default

HeaderLine(section)   == [form |-> "header", name |-> section, value |-> <<>>]
EntryLine(key, value) == [form |-> "entry", name |-> key, value |-> value]
BlankLine             == [form |-> "blank", name |-> "", value |-> <<>>]

\* The section as it is written behind what was written before, in SortMap's order.
SectionSaved(out, section, entries) ==
  LET written[k \in 0 .. Len(Order)] ==
        IF k = 0 THEN Append(out, HeaderLine(section))
        ELSE IF Order[k] \in DOMAIN entries
             THEN Append(written[k - 1], EntryLine(Order[k], entries[Order[k]]))
             ELSE written[k - 1]
  IN Append(written[Len(Order)], BlankLine)

Saved(c) ==
  LET written[k \in 0 .. Len(Order)] ==
        IF k = 0 THEN <<>>
        ELSE IF Order[k] \in DOMAIN c
             THEN SectionSaved(written[k - 1], Order[k], c[Order[k]])
             ELSE written[k - 1]
  IN written[Len(Order)]

-----------------------------------------------------------------------------
Init ==
  /\ files \in [Paths -> Contents \union {NoFile}]
  /\ cfg = [i \in Instances |-> Empty]
  /\ curSection = ""

\* Wrong: what was loaded before stays.
Wrongload(i, path) ==
  LET loaded == Read(files[path], [cfg |-> cfg[i], section |-> curSection])
  IN /\ files[path] # NoFile
     /\ cfg' = [cfg EXCEPT ![i] = loaded.cfg]
     /\ curSection' = loaded.section
     /\ UNCHANGED files

\* A file that cannot be opened leaves the configuration as it was.
load(i, path) ==
  /\ files[path] # NoFile
  /\ cfg' = [cfg EXCEPT ![i] = Loaded(files[path], curSection).cfg]
  /\ curSection' = Loaded(files[path], curSection).section
  /\ UNCHANGED files

save(i, path) ==
  /\ files' = [files EXCEPT ![path] = Saved(cfg[i])]
  /\ UNCHANGED <<cfg, curSection>>

Next == \E i \in Instances, path \in Paths : load(i, path) \/ save(i, path)

-----------------------------------------------------------------------------
(***************************************************************************)
(* What a file means: the section of an entry is the last header before    *)
(* it, or else the one that is left from before, and the last entry for a  *)
(* key that has a value counts, the whole of it.                           *)
(***************************************************************************)
Entries(lines) == {i \in DOMAIN lines : lines[i].form = "entry"}
Headers(lines) == {i \in DOMAIN lines : lines[i].form = "header"}

SectionOf(lines, i, left) ==
  IF \A h \in Headers(lines) : h > i THEN left
  ELSE lines[CHOOSE h \in Headers(lines) :
               h < i /\ \A g \in Headers(lines) : g < i => g <= h].name

\* The entries of a section that have a value, and whether one counts.
Valued(lines, s, left) ==
  {i \in Entries(lines) : SectionOf(lines, i, left) = s /\ HasValue(lines[i])}

Counts(lines, i, valued) == \A j \in valued : lines[j].name = lines[i].name => j <= i

Means(lines, left, c) ==
  /\ DOMAIN c = {SectionOf(lines, i, left) : i \in Entries(lines)}
  /\ \A s \in DOMAIN c :
       LET valued == Valued(lines, s, left)
       IN /\ DOMAIN c[s] = {lines[i].name : i \in valued}
          /\ \A i \in valued :
               Counts(lines, i, valued)
                 => getStrValue(c, s, lines[i].name, <<>>) = lines[i].value

\* No value that counts has an "=" in it.
NoSigns(lines, left) ==
  \A e \in Entries(lines) :
    LET valued == Valued(lines, SectionOf(lines, e, left), left)
    IN e \in valued /\ Counts(lines, e, valued)
         => \A k \in DOMAIN lines[e].value : lines[e].value[k] # "="

(***************************************************************************)
(* Whatever was loaded before, by this object or another: a file is loaded *)
(* as what it means, entries before its first header taken for the section *)
(* left in the static curSection, if and only if no value that counts has  *)
(* an "=" in it, which parseLine drops; and a saved configuration loads    *)
(* back as itself, but for its empty sections.                             *)
(***************************************************************************)
LoadsFresh ==
  \A i \in Instances, path \in Paths :
    load(i, path) =>
      /\ Means(files[path], curSection, cfg'[i]) <=> NoSigns(files[path], curSection)
      /\ \A j \in Instances :
           LET nonempty == {s \in DOMAIN cfg[j] : DOMAIN cfg[j][s] # {}}
           IN files[path] = Saved(cfg[j]) => cfg'[i] = [s \in nonempty |-> cfg[j][s]]
=============================================================================
