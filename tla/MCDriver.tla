------------------------------ MODULE MCDriver ------------------------------
(***************************************************************************)
(* Instances of Driver for TLC: files, words and command lines.            *)
(***************************************************************************)
EXTENDS Driver

Sec(name, type, addr, offset, size) ==
  [name |-> name, type |-> type, addr |-> addr, offset |-> offset, size |-> size,
   symbols |-> << >>]
Sym(name, type, shndx, value_, size) ==
  [name |-> name, type |-> type, shndx |-> shndx, value |-> value_, size |-> size]

NullSec == Sec("", "SHT_NULL", 0, 0, 0)
Text(type) == Sec(".text", type, 16, 20, 8)
ShStrTab == Sec(".shstrtab", "SHT_STRTAB", 0, 4, 4)

(* An imported function, one of ARM code, one of Thumb code, and a         *)
(* variable that has the name of a function.                               *)
SymTab ==
  [Sec(".symtab", "SHT_SYMTAB", 0, 16, 4) EXCEPT !.symbols =
     <<Sym("", "STT_NOTYPE", 0, 0, 0), Sym("arm_fn", "STT_OBJECT", 1, 20, 4),
       Sym("puts", "STT_NOTYPE", 0, 0, 0), Sym("arm_fn", "STT_FUNC", 1, 16, 4),
       Sym("thumb_fn", "STT_FUNC", 1, 21, 2)>>]

Elf(data, class, machine, sections) ==
  [magic |-> TRUE, size |-> 28, data |-> data, class |-> class,
   machine |-> IF data = "ELFDATA2LSB" THEN <<machine % 256, machine \div 256>>
                                       ELSE <<machine \div 256, machine % 256>>,
   shstrndx |-> Len(sections) - 1, sections |-> sections]

(* A program, one without symbols, one whose symbols have no names, one    *)
(* for a machine libtcg does not have (a VAX), one of debug information    *)
(* only, and a file that is none.                                          *)
MCFiles ==
  ("elf"      :> Elf("ELFDATA2LSB", "ELFCLASS32", EM.EM_ARM,
                     <<NullSec, Text("SHT_PROGBITS"), SymTab,
                       Sec(".strtab", "SHT_STRTAB", 0, 8, 8), ShStrTab>>)) @@
  ("stripped" :> Elf("ELFDATA2MSB", "ELFCLASS64", EM.EM_MIPS,
                     <<NullSec, Text("SHT_PROGBITS"), ShStrTab>>)) @@
  ("unnamed"  :> Elf("ELFDATA2MSB", "ELFCLASS32", EM.EM_MIPS,
                     <<NullSec, Text("SHT_PROGBITS"), SymTab, ShStrTab>>)) @@
  ("vax"      :> Elf("ELFDATA2LSB", "ELFCLASS32", 75,
                     <<NullSec, Text("SHT_PROGBITS"), ShStrTab>>)) @@
  ("x.debug"  :> Elf("ELFDATA2LSB", "ELFCLASS64", EM.EM_RISCV,
                     <<NullSec, Text("SHT_NOBITS"), ShStrTab>>)) @@
  ("raw"      :> [Elf("ELFDATA2LSB", "ELFCLASS64", 0, <<NullSec>>) EXCEPT !.magic = FALSE])

(* The files of the instance are whole.                                    *)
ASSUME FilesAreWhole == \A name \in DOMAIN MCFiles : IsWhole(MCFiles[name])

MCWorlds ==
  {[stdin |-> 7, writable |-> TRUE],
   [stdin |-> 1, writable |-> FALSE]}

MCDashed == {"-h", "-o", "--offset", "-l", "-s", "-f", "-b", "-a", "-i", "-c", "-m", "-r", "-z"}

ShortWords ==
  {"-o", "-l", "-a", "-b", "-z", "4", "max", "elf", "ARM"}

MCRegTuple ==
  ("10:1:1"   :> <<16, 1, 1>>) @@ ("12:1:2"  :> <<18, 1, 258>>) @@ ("10:1:0" :> <<16, 1, 0>>) @@
  ("10:0:1"   :> <<16, 0, 1>>) @@ ("11:1:1"  :> <<17, 1, 1>>) @@ ("10:8:1" :> <<16, 8, 1>>) @@
  ("10:17:1"  :> <<16, 17, 1>>) @@ ("30:1:1"  :> <<48, 1, 1>>)

(* insn_start, and an addition.                                            *)
MCOps == <<[out |-> 0, in |-> 0], [out |-> 1, in |-> 2]>>

(* All lines of a few words about a region and stdin, which try every way  *)
(* to order, repeat and leave out names and values.                        *)
Soup ==
  UNION {[1 .. n -> ShortWords] : n \in 0 .. 3} \cup [1 .. 4 -> {"-o", "-l", "4", "elf", "-b"}]

InputWords ==
  {<<f, "-l", "4", "-a", "ARM", "-o", "4">> : f \in {"elf", "raw", "gone"}} \cup
  {<<"elf", "-l", "4", "-a", "ARM", "-o", "max">>, <<"elf", "-l", "max", "-a", "ARM">>} \cup
  {<<"elf", "-l", "4", "-a", "VAX">>, <<"-b", "-a", "ARM">>, <<"-h", "elf">>, <<"elf", "raw">>} \cup
  {<<f, "-s", ".text">> : f \in DOMAIN MCFiles} \cup
  {<<f, "-f", fn>> : f \in {"elf", "stripped", "unnamed", "raw"}, fn \in {"arm_fn", "thumb_fn", "puts"}}

OutputWords ==
  {<< >>, <<"-i">>, <<"-i", "-c", "out">>, <<"-c", "out", "-m">>, <<"-m">>, <<"-m", "-i">>,
   <<"-i", "-r", "10:1:1">>} \cup
  {<<"-c", "out", "-r", t>> : t \in DOMAIN MCRegTuple \cup {"nonsense"}} \cup
  {<<"-m", "-c", "out", "-r", t>> : t \in {"10:1:1", "12:1:2"}}

MCCommandLines ==
  Soup \cup {w \o v : w \in InputWords, v \in OutputWords} \cup {v \o w : w \in InputWords, v \in OutputWords}

(* strtoul takes a sign and stops at what is not a digit.                  *)
MCstrtoul ==
  LET words == UNION {Range(line) : line \in MCCommandLines}
      decimal == [w \in words |-> CASE w = "4" -> 4 [] w = "max" -> 255
                                    [] w \in DOMAIN MCRegTuple -> 10 [] OTHER -> 0]
      hexadecimal == [w \in words |->
        CASE w \in {"ARM", "arm_fn"} -> 10 [] w = "elf" -> 14 [] w \in DOMAIN MCRegTuple -> 16
          [] w = "-a" -> 246 [] w = "-b" -> 245 [] w = "-c" -> 244 [] w = "-f" -> 241
          [] OTHER -> decimal[w]]
  IN  [base \in {10, 16} |-> IF base = 10 THEN decimal ELSE hexadecimal]

ThumbLines == {<<"elf", "-f", fn, "-i">> : fn \in {"arm_fn", "thumb_fn"}}
=============================================================================
