------------------------------ MODULE Bundling ------------------------------
(***************************************************************************)
(* Assembling a unit (src/bundle.rs): from a program and the chapters its  *)
(* cites lead to, one text that carries every chapter once, each behind    *)
(* the chapters it cites.                                                  *)
(*                                                                         *)
(* `stack` is the recursion of Walk::walk: one frame per chapter whose     *)
(* cites are being followed, the program's own at the bottom.  Definitions *)
(* marked "Wrong" are mistakes that the properties detect.                 *)
(***************************************************************************)
EXTENDS ChapterNames, Reachability

CONSTANTS
  Projects,     \* the programs, with the disk around them
  NoHeader,     \* the header of a file that declares none
  NoCheckout    \* the checkout of a program that names none

\* The two chapters every unit gets.
Implicit ==
  <<[quire |-> "Foreword", name |-> "ListUtils", selected |-> {}],
    [quire |-> "Foreword", name |-> "Tuple", selected |-> {}]>>

\* A cite has a quire and a name (cites_of takes no other).
CitesNamed(cites) ==
  /\ cites \in Seq(ToSet(cites))
  /\ \A c \in ToSet(cites) : c.quire \in DOMAIN Fold \ {NoQuire} /\ c.name \in DOMAIN Fold \ {NoHeader}

ASSUME ProjectsAssumption ==
  /\ CitesNamed(Implicit)
  /\ \A p \in Projects :
       /\ p.chapters \in Seq(ToSet(p.chapters))
       /\ \A i \in DOMAIN p.chapters : CitesNamed(p.chapters[i].cites)
       /\ \A path \in DOMAIN p.files : CitesNamed(p.files[path].cites)

VARIABLES
  project,      \* the program and its disk: fixed
  phase,        \* where `load` is
  carried,      \* Carried: the headers the unit has so far
  seen,         \* Walk::seen: the files read
  complaints,   \* Walk::complaints
  parts,        \* Walk::parts: the unit's texts
  stack         \* the calls of Walk::walk in progress, innermost last

vars == <<project, phase, carried, seen, complaints, parts, stack>>

Ended == {"loaded", "refused"}

-----------------------------------------------------------------------------
(***************************************************************************)
(* The registry: quire names and directories, the project's own ahead of   *)
(* the checkout's.                                                         *)
(***************************************************************************)
\* The project's checkout: the tree it lies in, or the one its quire file names.
Disagree == project.tree # NoCheckout /\ project.named # NoCheckout /\ project.tree # project.named
Checkout == IF project.tree # NoCheckout THEN project.tree ELSE project.named

\* The names, each with its directory: the checkout's, then the project's own.
Entries == project.table[Checkout] \o project.local

\* A name the project's own list has is taken out of the checkout's.
Standing ==
  {i \in DOMAIN Entries :
     \/ i > Len(project.table[Checkout])
     \/ \A k \in DOMAIN project.local : ~SameName(project.local[k][1], Entries[i][1])}

\* The directory of a quire: an exact name first, then one in another case.
\* Zero when there is none.
Dir(quire) ==
  LET exact == {i \in Standing : Entries[i][1] = quire}
      alike == {i \in Standing : SameName(Entries[i][1], quire)}
  IN  IF exact # {} THEN Min(exact) ELSE IF alike # {} THEN Min(alike) ELSE 0

Shadowed ==
  {[kind |-> "shadowed", quire |-> Entries[i][1]] : i \in DOMAIN Entries \ Standing}

DeadDirs ==
  {[kind |-> "dead", quire |-> Entries[i][1]] : i \in {i \in Standing : Entries[i][2] \notin project.dirs}}

RegistryComplaints == Shadowed \cup DeadDirs

-----------------------------------------------------------------------------
(***************************************************************************)
(* Which chapter answers a cite.                                           *)
(***************************************************************************)
\* A file without a header names no chapter.
Answers(header, name) == header.name # NoHeader /\ CiteKey[header.name] = CiteKey[name]

\* The headers of a cited name under any prefix or none, one for each key.
Named(headers, name) ==
  {i \in DOMAIN headers :
     /\ Answers(headers[i], name)
     /\ \A j \in 1 .. (i - 1) : ~(Answers(headers[j], name) /\ SameHeader(headers[j], headers[i]))}

Exact(headers, cite) ==
  {i \in DOMAIN headers : Answers(headers[i], cite.name) /\ SameQuire(headers[i].quire, cite.quire)}

\* Carried::of: under its own quire first, and else by the one chapter of its name
\* under another prefix or none, a case that bundle.rs:30-34 would have refused.
Presence(headers, cite) ==
  LET named == Named(headers, cite.name)
  IN  IF Exact(headers, cite) # {} THEN "present"
      ELSE IF named = {} THEN "missing"
      ELSE IF \E i \in named : named = {i} THEN "present"
      ELSE "ambiguous"

SameCite(a, b) == SameName(a.quire, b.quire) /\ SameName(a.name, b.name)

\* What a source cites and does not carry, once each, in source order.
Missing(headers, cites) ==
  LET all == Implicit \o cites
      New(out, c) == /\ Presence(headers, c) = "missing"
                     /\ \A j \in DOMAIN out : ~SameCite(out[j], c)
      upTo[i \in 0 .. Len(all)] ==
        IF i = 0 THEN <<>>
        ELSE IF New(upTo[i - 1], all[i]) THEN Append(upTo[i - 1], all[i])
        ELSE upTo[i - 1]
  IN  upTo[Len(all)]

\* A cite of the source that does not say which chapter it means.
Unclear(headers, cites) ==
  \E i \in DOMAIN (Implicit \o cites) : Presence(headers, (Implicit \o cites)[i]) = "ambiguous"

-----------------------------------------------------------------------------
(***************************************************************************)
(* `load`: the program is read, and is a unit already, or is resolved.     *)
(***************************************************************************)
\* A text is a sequence of chapters: the headers it carries, and what they cite.
HeadersOf(chapters) == [i \in DOMAIN chapters |-> chapters[i].header]
CitesOf(chapters) == FlattenSeq([i \in DOMAIN chapters |-> chapters[i].cites])

RootPath == <<"root">>

Root == [path |-> RootPath, chapters |-> project.chapters, cr |-> project.cr]

Headers == HeadersOf(project.chapters)
Cites   == CitesOf(project.chapters)
Wanted  == Missing(Headers, Cites)

Refuse(condition) ==
  /\ condition
  /\ phase' = "refused"
  /\ UNCHANGED <<project, carried, seen, complaints, parts, stack>>

Begin == phase = "reading"

\* The program does not say which chapter it means; or it needs a checkout and
\* there is none, there are two, or its registry is empty.
RefuseProgram ==
  /\ Begin
  /\ Refuse(\/ Unclear(Headers, Cites)
            \/ Wanted # <<>> /\ (Disagree \/ Checkout = NoCheckout)
            \/ Wanted # <<>> /\ ~Disagree /\ Checkout # NoCheckout /\ project.table[Checkout] = <<>>)

Resolvable ==
  /\ ~Unclear(Headers, Cites)
  /\ ~Disagree /\ Checkout # NoCheckout
  /\ project.table[Checkout] # <<>>

\* A program that carries all it cites is handed on as it is.
LoadWhole ==
  /\ Begin /\ ~Unclear(Headers, Cites)
  /\ Wanted = <<>>
  /\ phase' = "loaded"
  /\ parts' = <<Root>>
  /\ UNCHANGED <<project, carried, seen, complaints, stack>>

Frame(path, quire, cites) == [path |-> path, quire |-> quire, cites |-> cites]

BeginWalk ==
  /\ Begin /\ Wanted # <<>> /\ Resolvable
  /\ phase' = "walking"
  /\ carried' = Headers
  /\ complaints' = RegistryComplaints
  /\ stack' = <<Frame(RootPath, NoQuire, Wanted)>>
  /\ UNCHANGED <<project, seen, parts>>

-----------------------------------------------------------------------------
(***************************************************************************)
(* Walk::walk: one cite of the innermost frame.                            *)
(***************************************************************************)
Top  == stack[Len(stack)]
Cite == Top.cites[1]

\* Wrong: the cite is looked at again.
FollowedNever == stack

\* The innermost frame without the cite that was followed.
Followed == [stack EXCEPT ![Len(stack)].cites = Tail(@)]

Walking == phase = "walking" /\ stack # <<>>
AtCite  == Walking /\ Top.cites # <<>>

SkipPresent ==
  /\ AtCite /\ Presence(carried, Cite) = "present"
  /\ stack' = Followed
  /\ UNCHANGED <<project, phase, carried, seen, complaints, parts>>

RefuseAmbiguous == AtCite /\ Refuse(Presence(carried, Cite) = "ambiguous")

Complain(kind) == {[kind |-> kind, who |-> Top.path, quire |-> Cite.quire, name |-> Cite.name]}

UnregisteredQuire ==
  /\ AtCite /\ Presence(carried, Cite) = "missing"
  /\ Dir(Cite.quire) = 0
  /\ complaints' = complaints \cup Complain("unregistered")
  /\ stack' = Followed
  /\ UNCHANGED <<project, phase, carried, seen, parts>>

\* The file of the cite, and the complaint if its quire was found in another case.
Dep == <<Entries[Dir(Cite.quire)][2], Cite.name>>
InCase == IF Entries[Dir(Cite.quire)][1] = Cite.quire THEN {} ELSE Complain("case")

Registered == AtCite /\ Presence(carried, Cite) = "missing" /\ Dir(Cite.quire) # 0

NoSuchChapter ==
  /\ Registered
  /\ Dep \notin DOMAIN project.files
  /\ complaints' = complaints \cup InCase \cup Complain("nochapter")
  /\ stack' = Followed
  /\ UNCHANGED <<project, phase, carried, seen, parts>>

\* Wrong: a chapter counts as carried once its own cites have been followed.
CarriesLate(path, cite) == <<>>

\* Wrong: what a chapter cites counts as carried with it.
CarriesCited(path, cite) ==
  <<Header(cite.quire, cite.name)>>
  \o [i \in DOMAIN project.files[path].cites |->
        Header(project.files[path].cites[i].quire, project.files[path].cites[i].name)]

\* What reading a file makes carried: the cited name, and the name the file
\* declares if it is another one.
Carries(path, cite) ==
  LET file == project.files[path]
      cited == Header(cite.quire, cite.name)
  IN  IF file.header = NoHeader \/ SameName(file.header, cite.name) THEN <<cited>>
      ELSE <<cited, Header(cite.quire, file.header)>>

\* A chapter is carried before its own cites are followed, so that a cycle back
\* to it finds it.  The walk passes over a file it has seen before; what is
\* carried already says so (OncePerFile), and no step is needed for it.
Enter ==
  /\ Registered
  /\ Dep \in DOMAIN project.files /\ Dep \notin seen
  /\ seen' = seen \cup {Dep}
  /\ complaints' = complaints \cup InCase
                     \cup (IF project.files[Dep].cr THEN Complain("crlf") ELSE {})
  /\ carried' = carried \o Carries(Dep, Cite)
  /\ stack' = Append(Followed, Frame(Dep, Cite.quire, project.files[Dep].cites))
  /\ UNCHANGED <<project, phase, parts>>

\* A chapter's text, its header written under the quire it was cited by.
Part(frame) ==
  LET file == project.files[frame.path]
  IN  [path |-> frame.path,
       chapters |-> <<[header |-> Header(frame.quire, file.header), cites |-> file.cites,
                       defs |-> file.defs]>>,
       cr |-> file.cr]

\* Wrong: a chapter is put ahead of what the unit has.
LeaveInFront ==
  /\ Walking /\ Top.cites = <<>> /\ Len(stack) > 1
  /\ parts' = <<Part(Top)>> \o parts
  /\ stack' = Front(stack)
  /\ UNCHANGED <<project, phase, carried, seen, complaints>>

\* A chapter goes into the unit when all it cites has been followed.
Leave ==
  /\ Walking /\ Top.cites = <<>> /\ Len(stack) > 1
  /\ parts' = Append(parts, Part(Top))
  /\ stack' = Front(stack)
  /\ UNCHANGED <<project, phase, carried, seen, complaints>>

\* The program's own text comes last.
Finish ==
  /\ Walking /\ Top.cites = <<>> /\ Len(stack) = 1
  /\ parts' = Append(parts, Root)
  /\ stack' = <<>>
  /\ phase' = "built"
  /\ UNCHANGED <<project, carried, seen, complaints>>

\* Wrong: a chapter that is not there is only worth a complaint.
BrokenQuires == \E c \in complaints : c.kind = "unregistered"

\* Complaint::is_broken.
Broken == \E c \in complaints : c.kind \in {"unregistered", "nochapter"}
Returns == \E i \in DOMAIN parts : parts[i].cr

\* A unit short of a chapter, or with a carriage return in it, is refused.
RefuseUnit == phase = "built" /\ Refuse(Broken \/ Returns)

Load ==
  /\ phase = "built" /\ ~Broken /\ ~Returns
  /\ phase' = "loaded"
  /\ UNCHANGED <<project, carried, seen, complaints, parts, stack>>

Init ==
  /\ project \in Projects
  /\ phase = "reading"
  /\ carried = <<>> /\ seen = {} /\ complaints = {} /\ parts = <<>> /\ stack = <<>>

Next ==
  \/ RefuseProgram \/ LoadWhole \/ BeginWalk
  \/ SkipPresent \/ RefuseAmbiguous \/ UnregisteredQuire \/ NoSuchChapter \/ Enter \/ Leave \/ Finish
  \/ RefuseUnit \/ Load

\* Resolving is one call: its steps follow each other.
Spec == Init /\ [][Next]_vars /\ WF_vars(Next)

-----------------------------------------------------------------------------
(***************************************************************************)
(* What a bundle promises.                                                 *)
(***************************************************************************)
Paths == DOMAIN project.files

OncePerFile ==
  /\ \A i, j \in DOMAIN parts : parts[i].path = parts[j].path => i = j
  /\ \A i, j \in DOMAIN stack : stack[i].path = stack[j].path => i = j
  /\ \A i \in DOMAIN parts, j \in DOMAIN stack : parts[i].path # stack[j].path
  /\ Registered => Dep \notin seen

\* Every file declares the chapter it is named for.
WellNamed ==
  \A path \in DOMAIN project.files :
     /\ project.files[path].header # NoHeader
     /\ CiteKey[project.files[path].header] = CiteKey[path[2]]

UnitChapters == FlattenSeq([i \in DOMAIN parts |-> parts[i].chapters])

\* The files some cites name, and those that following a file leads to.
FilesOf(cites) == {<<Entries[Dir(c.quire)][2], c.name>> : c \in {c \in cites : Dir(c.quire) # 0}} \cap Paths

CitedFiles == [path \in Paths |-> FilesOf(ToSet(project.files[path].cites))]

LeadsTo(paths) == Reach(CitedFiles, paths)

\* Of a unit that is not broken, when every file declares the chapter it is named for.
BehindWhatItCites ==
  ~Broken /\ WellNamed =>
    \A i \in DOMAIN parts : \A c \in ToSet(CitesOf(parts[i].chapters)) :
       \A j \in (i + 1) .. Len(parts) :
          \/ parts[j].path = RootPath
          \/ Exact(HeadersOf(parts[j].chapters), c) = {}
          \/ Named(Headers, c.name) # {}
          \/ parts[i].path \in LeadsTo(CitedFiles[parts[j].path])

\* What `load` hands on is whole: resolving it again would add nothing and need
\* no checkout, when every file declares the chapter it is named for.  A cite is
\* answered as Carried::of answers it, and not by the rule of bundle.rs:30-34.
LoadedIsWhole ==
  phase = "loaded" /\ WellNamed =>
    LET headers == HeadersOf(UnitChapters)
        cites == CitesOf(UnitChapters)
    IN  Missing(headers, cites) = <<>> /\ ~Unclear(headers, cites)

\* Names are told apart by their chapter alone, and the program carries no
\* chapter but its own.
NamesApart ==
  /\ Len(project.chapters) = 1
  /\ \A p, q \in DOMAIN project.files : CiteKey[p[2]] = CiteKey[q[2]] => p = q
  /\ \A p \in DOMAIN project.files : CiteKey[p[2]] # CiteKey[project.chapters[1].header.name]

NothingElse ==
  phase \in {"built", "loaded"} /\ Wanted # <<>> /\ ~Broken /\ NamesApart /\ WellNamed =>
    {parts[i].path : i \in DOMAIN parts} \ {RootPath} = LeadsTo(FilesOf(ToSet(Implicit \o Cites)))

\* What the bundler hands on is a unit: every file once, as no text comes from a
\* file that another came from or that is still being followed (Walk::seen), and
\* with nothing left to cite.
UnitIsWhole == OncePerFile /\ LoadedIsWhole

\* A unit holds what its cites lead to and nothing else, and a chapter stands
\* behind the chapters it cites, unless they lead back to it or the program has
\* one of that name itself (Walk::walk: "dependencies first").
UnitInOrder == BehindWhatItCites /\ NothingElse

\* Following cites ends, cycles and all.
ResolvingEnds == <>(phase \in Ended)
=============================================================================
