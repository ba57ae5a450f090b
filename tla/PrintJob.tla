------------------------------ MODULE PrintJob ------------------------------
(***************************************************************************)
(* How a print job is named (cpp/print_job.cpp).  A name is its stem, its  *)
(* extensions and the suffix that append_package_suffix put between them.  *)
(* A content stands for its FNV-1a hash, so that two contents with one     *)
(* hash are left out; so are the letter case of an extension and what a    *)
(* command takes from the parameters besides its names.                    *)
(***************************************************************************)
EXTENDS Integers, Sequences

CONSTANTS
    Empty,          \* a parameter that is the empty string
    Blank,          \* a stem of which sanitize_remote_filename leaves nothing
    Clean(_),       \* what it makes of any other stem
    DefaultStem,    \* "print"
    PlateStem,      \* "plate"
    NoSuffix,
    Unreadable      \* the content of a file that cannot be opened

GcodePackage == <<"gcode", "3mf">>

Name(stem, ext) == [stem |-> stem, ext |-> ext, suffix |-> NoSuffix]

(* ends_with_case_insensitive.                                             *)
EndsWith(n, e) ==
    /\ Len(n.ext) >= Len(e)
    /\ SubSeq(n.ext, Len(n.ext) - Len(e) + 1, Len(n.ext)) = e

Without(n, e) == [n EXCEPT !.ext = SubSeq(@, 1, Len(@) - Len(e))]

(* sanitize_remote_filename.  Of a hidden file without a stem the first    *)
(* extension becomes the stem.                                             *)
Sanitize(n) ==
    IF n.stem # Blank THEN [n EXCEPT !.stem = Clean(@)]
    ELSE IF n.ext # <<>> THEN Name(Head(n.ext), Tail(n.ext))
    ELSE Name(DefaultStem, GcodePackage)

(* normalize_print_package_name.                                           *)
Normalize(value) ==
    LET n == Sanitize(value) IN
    IF EndsWith(n, GcodePackage) THEN n
    ELSE LET base == IF EndsWith(n, <<"3mf">>) THEN Without(n, <<"3mf">>) ELSE n
         IN [base EXCEPT !.ext = @ \o GcodePackage]

(* Mutant: the suffix is a hash of the path only.                          *)
PackageSuffixOfPath(p, content) ==
    IF p.source = Empty THEN NoSuffix ELSE p.path

(* short_content_suffix, or short_path_suffix of a file that cannot be     *)
(* read.                                                                   *)
PackageSuffix(p, content) ==
    IF p.source = Empty THEN NoSuffix
    ELSE IF content # Unreadable THEN content ELSE p.path

(* append_package_suffix of a normalized name.                             *)
Package(value, suffix) == [Normalize(value) EXCEPT !.suffix = suffix]

IsPackage(p) == p.source # Empty /\ EndsWith(p.source, <<"3mf">>)

(* resolve_remote_filename.                                                *)
RemoteFilename(p, content) ==
    LET suffix == PackageSuffix(p, content) IN
    IF IsPackage(p) /\ p.project # Empty THEN Package(p.project, suffix)
    ELSE IF IsPackage(p) /\ p.task # Empty THEN Package(p.task, suffix)
    ELSE IF p.ftp # Empty THEN Sanitize(p.ftp)
    ELSE IF p.dst # Empty THEN Sanitize(p.dst)
    ELSE IF p.task # Empty THEN Sanitize(p.task)
    ELSE IF IsPackage(p) THEN Package(p.source, suffix)
    ELSE IF p.source # Empty THEN Sanitize(p.source)
    ELSE Name(DefaultStem, GcodePackage)

(* Whether the name a job is given tells its content.                      *)
NamedByContent(p) ==
    /\ IsPackage(p)
    /\ p.project # Empty \/ p.task # Empty \/ (p.ftp = Empty /\ p.dst = Empty)

(* resolve_plate_metadata_path.                                            *)
PlatePath(p) ==
    IF p.dst # Empty THEN p.dst
    ELSE IF p.ftp # Empty THEN p.ftp
    ELSE [Name(PlateStem, <<"gcode">>) EXCEPT
             !.suffix = IF p.plate > 0 THEN p.plate ELSE 1]
=============================================================================
