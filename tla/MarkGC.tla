-------------------------------- MODULE MarkGC -------------------------------
(***************************************************************************)
(* The build tool that makes libobjc's initializers and terminators        *)
(* invisible to dyld: it maps a Mach-O or fat file, goes through the        *)
(* sections of every slice, whatever its word size and byte order, and     *)
(* rewrites the init and term sections in place.  It can be interrupted    *)
(* and run again.  A word is two digits in base 16.                        *)
(***************************************************************************)
EXTENDS Integers, Sequences, SequencesExt, FiniteSets

CONSTANTS
    Files,          \* the files it may be given: [size, magic, nfat, archs, slices]
    MaxRuns

VARIABLES
    original,       \* the file before the tool saw it
    file,           \* the file now
    at,             \* sections done in this run; 0 before the run
    running,
    result,         \* what the last run returned: "none", TRUE or FALSE
    runs

vars == <<original, file, at, running, result, runs>>

----------------------------------------------------------------------------
(* BigEndian and LittleEndian, for any byte order E of the file.           *)
set32(E, v) == IF E = "little" THEN <<v % 16, v \div 16>> ELSE <<v \div 16, v % 16>>
get32(E, w) == IF E = "little" THEN w[1] + 16 * w[2] ELSE w[2] + 16 * w[1]
Other(E) == IF E = "little" THEN "big" ELSE "little"
CurrentEndian == "little"

MH_MAGIC == 18
MH_MAGIC_64 == 19
FAT_MAGIC == 69
SectionType == 8            \* the low bits of a section's flags are its type
CPU_TYPE_ARM64 == 12
LC_SEGMENT == 1
LC_SEGMENT_64 == 25

Swapped(v) == get32(Other(CurrentEndian), set32(CurrentEndian, v))

(* parse_macho finds out what Pointer32 or Pointer64 of which byte order   *)
(* the slice needs; a file of neither kind is refused.                     *)
IsMachO(magic) == magic \in {MH_MAGIC, MH_MAGIC_64, Swapped(MH_MAGIC), Swapped(MH_MAGIC_64)}
EndianOf(magic) == IF magic \in {MH_MAGIC, MH_MAGIC_64} THEN CurrentEndian ELSE Other(CurrentEndian)

(* The places of a slice's sections, in the order they are visited:        *)
(* <<slice, command, section>>.                                            *)
SectionsOf(f, s) ==
    LET slice == f.slices[s]
        E == EndianOf(get32(CurrentEndian, slice.magic))
        Visit(c) == LET cmd == slice.cmds[c]
                    IN IF get32(E, cmd.cmd) \in {LC_SEGMENT, LC_SEGMENT_64}
                       THEN [i \in 1 .. get32(E, cmd.nsects) |-> <<s, c, i>>]
                       ELSE <<>>
    IN FlattenSeq([c \in 1 .. get32(E, slice.ncmds) |-> Visit(c)])

----------------------------------------------------------------------------
(* parse_fat: the slices to go through, and whether the file is well       *)
(* formed up to there.  A fat file's own words are big-endian.             *)
HeaderSize == 1
ArchSize == 1
fat_arch_size(f) == HeaderSize + get32("big", f.nfat) * ArchSize
HiddenArchs_Ignored(f) == 0
HiddenArchs(f) ==           \* an ARM64 slice may follow that the header does not count
    LET n == get32("big", f.nfat)
    IN IF /\ f.size >= fat_arch_size(f) + ArchSize /\ n > 0 /\ n < Len(f.archs)
          /\ get32("big", f.archs[n + 1].cputype) = CPU_TYPE_ARM64
       THEN 1 ELSE 0

parse_fat(f) ==
    LET magic == get32(CurrentEndian, f.magic)
        n == get32("big", f.nfat) + HiddenArchs(f)
        Bad(i) == LET offset == get32("big", f.archs[i].offset)
                      size == get32("big", f.archs[i].size)
                  IN \/ offset < fat_arch_size(f) \/ offset > f.size
                     \/ size > f.size \/ offset > f.size - size
                     \/ ~IsMachO(get32(CurrentEndian, f.slices[offset].magic))
        bad == {i \in 1 .. n : Bad(i)}
        good == IF bad = {} THEN n ELSE (CHOOSE i \in bad : \A j \in bad : i <= j) - 1
    IN IF f.size < 1 THEN [slices |-> <<>>, ok |-> FALSE]
       ELSE IF magic \notin {FAT_MAGIC, Swapped(FAT_MAGIC)}
       THEN IF IsMachO(magic) THEN [slices |-> <<0>>, ok |-> TRUE] ELSE [slices |-> <<>>, ok |-> FALSE]
       ELSE IF f.size < fat_arch_size(f) THEN [slices |-> <<>>, ok |-> FALSE]
       ELSE [slices |-> [i \in 1 .. good |-> get32("big", f.archs[i].offset)], ok |-> bad = {}]

Work(f) == FlattenSeq([k \in DOMAIN parse_fat(f).slices |-> SectionsOf(f, parse_fat(f).slices[k])])

----------------------------------------------------------------------------
(* dosect.  Names are <<segment's prefix, name>>.                          *)
NewName(sect) ==
    CASE <<sect.seg, sect.name>> = <<"__DATA", "__mod_init_func">> -> "__objc_init_func"
      [] <<sect.seg, sect.name>> = <<"__TEXT", "__init_offsets">> -> "__objc_init_offs"
      [] <<sect.seg, sect.name>> = <<"__DATA", "__mod_term_func">> -> "__objc_term_func"
      [] OTHER -> sect.name
dosect(E, sect) ==
    LET flags == get32(E, sect.flags)
    IN IF NewName(sect) = sect.name THEN sect
       ELSE [sect EXCEPT !.name = NewName(sect), !.flags = set32(E, flags - (flags % SectionType))]

processFile ==
    /\ ~running /\ runs < MaxRuns
    /\ running' = TRUE /\ at' = 0 /\ runs' = runs + 1
    /\ UNCHANGED <<original, file, result>>

parse_macho ==
    /\ running /\ at < Len(Work(file))
    /\ LET p == Work(file)[at + 1]
           E == EndianOf(get32(CurrentEndian, file.slices[p[1]].magic))
       IN file' = [file EXCEPT !.slices[p[1]].cmds[p[2]].sects[p[3]] = dosect(E, @)]
    /\ at' = at + 1
    /\ UNCHANGED <<original, running, result, runs>>

finish ==
    /\ running /\ at = Len(Work(file))
    /\ running' = FALSE /\ result' = IF parse_fat(file).ok THEN "ok" ELSE "failed"
    /\ UNCHANGED <<original, file, at, runs>>

interrupt ==                \* the mapping is shared: what was written stays
    /\ running
    /\ running' = FALSE /\ UNCHANGED <<original, file, at, result, runs>>

Init ==
    /\ original \in Files /\ file = original
    /\ at = 0 /\ running = FALSE /\ result = "none" /\ runs = 0

Next == processFile \/ parse_macho \/ finish \/ interrupt

----------------------------------------------------------------------------
(* Once the tool succeeded, in however many runs, no slice of the file has *)
(* a section that dyld would call, and at every moment each section is     *)
(* either as it was or rewritten exactly as intended: only its type and    *)
(* name changed, in the slice's own byte order.                            *)
Hidden(f) == IF get32(CurrentEndian, f.magic) \in {FAT_MAGIC, Swapped(FAT_MAGIC)} THEN DOMAIN f.slices ELSE {0}
Intended(sect, E) ==
    IF NewName(sect) = sect.name THEN sect
    ELSE [sect EXCEPT !.name = NewName(sect), !.flags = set32(E, (get32(E, @) \div SectionType) * SectionType)]
SlicesStripped ==
    /\ \A s \in DOMAIN original.slices : \A c \in DOMAIN original.slices[s].cmds :
           \A i \in DOMAIN original.slices[s].cmds[c].sects :
               LET was == original.slices[s].cmds[c].sects[i]
                   is == file.slices[s].cmds[c].sects[i]
               IN is = was \/ is = Intended(was, original.slices[s].order)
    /\ result = "ok" => \A s \in Hidden(original) : \A c \in DOMAIN file.slices[s].cmds :
           \A i \in DOMAIN file.slices[s].cmds[c].sects :
               LET sect == file.slices[s].cmds[c].sects[i] IN NewName(sect) = sect.name

=============================================================================
