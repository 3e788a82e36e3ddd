------------------------------- MODULE ElfLoad -------------------------------
(***************************************************************************)
(* src/src/loadelf.c: what elf_data, elf_section and elf_function return   *)
(* for a file, as functions.  A file has the fields of an ELF file that    *)
(* the code looks at; the structures of 32 and 64 bits differ in layout    *)
(* only.  The field that everything after it depends on, e_machine, is its *)
(* two bytes; the others have the value they have in the file's byte       *)
(* order, to which bswap turns them alike.  Offsets into the buffer that   *)
(* the file is read into are offsets in the file.                          *)
(*                                                                         *)
(* A result has an end: "true" or "false" as the C function returns, or    *)
(* how the process ends inside it ("aborted", "crashed").                  *)
(***************************************************************************)
EXTENDS Integers, SequencesExt, FiniteSetsExt

CONSTANT HOST_LE  (* whether the host is little endian                     *)

ASSUME ElfLoadAssumption == HOST_LE \in BOOLEAN

NoFile == [open |-> FALSE]

(* e_machine and the architecture that libtcg knows it by.                 *)
LittleEndian ==
  [EM_386 |-> "I386", EM_MIPS |-> "MIPSEL", EM_ARM |-> "ARM", EM_SH |-> "SH4",
   EM_X86_64 |-> "X86_64", EM_CRIS |-> "CRIS", EM_XTENSA |-> "XTENSA",
   EM_PPC64 |-> "PPC64LE", EM_ALTERA_NIOS2 |-> "NIOS2", EM_QDSP6 |-> "HEXAGON",
   EM_AARCH64 |-> "AARCH64", EM_MICROBLAZE |-> "MICROBLAZEEL",
   EM_LOONGARCH |-> "LOONGARCH64", EM_ALPHA |-> "ALPHA", EM_RISCV |-> "RISCV32"]

BigEndian ==
  [EM_SPARC |-> "SPARC", EM_68K |-> "M68K", EM_MIPS |-> "MIPS", EM_PARISC |-> "HPPA",
   EM_SPARC32PLUS |-> "SPARC32PLUS", EM_PPC |-> "PPC", EM_SH |-> "SH4EB",
   EM_PPC64 |-> "PPC64", EM_S390 |-> "S390X", EM_ARM |-> "ARMEB", EM_SPARCV9 |-> "SPARC64",
   EM_OPENRISC |-> "OR1K", EM_XTENSA |-> "XTENSAEB", EM_AARCH64 |-> "AARCH64_BE",
   EM_MICROBLAZE |-> "MICROBLAZE"]

(* Their numbers in the header, among those of machines libtcg has not.    *)
EM ==
  [EM_SPARC |-> 2, EM_386 |-> 3, EM_68K |-> 4, EM_MIPS |-> 8, EM_PARISC |-> 15,
   EM_SPARC32PLUS |-> 18, EM_PPC |-> 20, EM_PPC64 |-> 21, EM_S390 |-> 22, EM_ARM |-> 40,
   EM_SH |-> 42, EM_SPARCV9 |-> 43, EM_X86_64 |-> 62, EM_CRIS |-> 76, EM_OPENRISC |-> 92,
   EM_XTENSA |-> 94, EM_ALTERA_NIOS2 |-> 113, EM_QDSP6 |-> 164, EM_AARCH64 |-> 183,
   EM_MICROBLAZE |-> 189, EM_RISCV |-> 243, EM_LOONGARCH |-> 258, EM_ALPHA |-> 36902]

(* The machines whose architecture depends on ELFCLASS64.                  *)
Wide == [MIPSEL |-> "MIPS64EL", MIPS |-> "MIPS64", RISCV32 |-> "RISCV64"]

SectionTypes == {"SHT_NULL", "SHT_PROGBITS", "SHT_SYMTAB", "SHT_STRTAB", "SHT_NOBITS"}

SymbolTypes == {"STT_NOTYPE", "STT_OBJECT", "STT_FUNC", "STT_SECTION", "STT_FILE"}

(* An entry of a table of symbols, in a file with n sections.              *)
IsSymbol(s, n) ==
  /\ DOMAIN s = {"name", "type", "shndx", "value", "size"}
  /\ s.type \in SymbolTypes /\ {s.value, s.size} \subseteq Nat
  /\ s.shndx \in 0 .. (n - 1)

(* A section header, and the entries when it is a table of symbols.        *)
IsSection(sh, n) ==
  /\ DOMAIN sh = {"name", "type", "addr", "offset", "size", "symbols"}
  /\ sh.type \in SectionTypes /\ {sh.addr, sh.offset, sh.size} \subseteq Nat
  /\ sh.symbols \in Seq(Range(sh.symbols))
  /\ \A j \in DOMAIN sh.symbols : IsSymbol(sh.symbols[j], n)

(* The two bytes of e_ident that are looked at behind the magic number.    *)
Encodings == {"ELFDATA2LSB", "ELFDATA2MSB"}
Classes == {"ELFCLASS32", "ELFCLASS64"}

(* The fields of the header that are read.                                 *)
IsElf(f) ==
  /\ f.magic \in BOOLEAN /\ f.size \in Nat
  /\ f.data \in Encodings /\ f.class \in Classes
  /\ f.machine \in Seq(0 .. 255) /\ Len(f.machine) = 2
  /\ f.sections \in Seq(Range(f.sections))
  /\ f.shstrndx \in 0 .. (Len(f.sections) - 1)
  /\ \A k \in DOMAIN f.sections : IsSection(f.sections[k], Len(f.sections))

-----------------------------------------------------------------------------
(* A field of two bytes as the host reads it, and turned around when the   *)
(* file has the other byte order.                                          *)
Uint16(bytes) == IF HOST_LE THEN bytes[1] + 256 * bytes[2] ELSE bytes[2] + 256 * bytes[1]

bswap16(f, v) ==
  IF HOST_LE # (f.data = "ELFDATA2LSB") THEN (v % 256) * 256 + v \div 256 ELSE v

Machine(f) == bswap16(f, Uint16(f.machine))

elf_machine_to_libtcg(f) ==
  LET table == IF f.data = "ELFDATA2LSB" THEN LittleEndian ELSE BigEndian
      cases == {name \in DOMAIN table : EM[name] = Machine(f)}
      narrow == table[CHOOSE name \in cases : TRUE]
  IN  IF cases = {} THEN "unknown"
      ELSE IF f.class = "ELFCLASS64" /\ narrow \in DOMAIN Wide THEN Wide[narrow] ELSE narrow

(* Section k, counted from 0.                                              *)
Header(f, k) == f.sections[k + 1]

(* The first section of that type and name, none if there is no such one.  *)
FIND_SECTION_HEADER(f, type, name) ==
  LET found == {k \in 0 .. (Len(f.sections) - 1) :
                  Header(f, k).type = type /\ Header(f, k).name = name}
  IN  IF found = {} THEN {} ELSE {Header(f, Min(found))}

(* The first entry that is a function, or has no type, and has the name.   *)
FIND_SYMBOL(symtab, name) ==
  LET found == {j \in DOMAIN symtab.symbols :
                  /\ symtab.symbols[j].type \in {"STT_FUNC", "STT_NOTYPE"}
                  /\ symtab.symbols[j].name = name}
  IN  IF found = {} THEN {} ELSE {symtab.symbols[Min(found)]}

(* Without a table of strings strtable is 0, and the loop over the symbols *)
(* reads the name of the first that may be the one from there.             *)
ReadsNoNames(f, symtab) ==
  /\ FIND_SECTION_HEADER(f, "SHT_STRTAB", ".strtab") = {}
  /\ \E j \in DOMAIN symtab.symbols : symtab.symbols[j].type \in {"STT_FUNC", "STT_NOTYPE"}

Ends(how) == [end |-> how]

Found(address, data, size) ==
  [end |-> "true", view |-> [address |-> address, data |-> data, size |-> size]]

(* What a search gives, or the failure of one that gives nothing.          *)
OrFalse(results) == IF results = {} THEN {Ends("false")} ELSE results

(* Every failure goes on to free(data), with data a variable of the        *)
(* caller's frame: the C library stops the process or the call returns.    *)
elf_data(f) ==
  IF f = NoFile THEN {Ends("crashed"), Ends("false")}
  ELSE IF ~f.magic THEN {Ends("crashed"), Ends("false")}
  ELSE IF \/ Header(f, f.shstrndx).type # "SHT_STRTAB"
          \/ elf_machine_to_libtcg(f) = "unknown"
       THEN {Ends("aborted")}
       ELSE {Ends("true")}

elf_section(f, name) ==
  OrFalse({Found(sh.addr, sh.offset, sh.size) :
             sh \in FIND_SECTION_HEADER(f, "SHT_PROGBITS", name)})

(* The view of a symbol starts as far into its section as its value is     *)
(* above the section's address.                                            *)
SymbolViewLoaded(f, s) ==                          (* mutant of SymbolView *)
  Found(s.value, Header(f, s.shndx).offset + s.value, s.size)

SymbolView(f, s) ==
  LET sh == Header(f, s.shndx)
  IN  Found(s.value, sh.offset + (s.value - sh.addr), s.size)

elf_function(f, name) ==
  OrFalse(UNION {IF ReadsNoNames(f, symtab) THEN {Ends("crashed")}
                 ELSE {SymbolView(f, s) : s \in FIND_SYMBOL(symtab, name)} :
                   symtab \in FIND_SECTION_HEADER(f, "SHT_SYMTAB", ".symtab")})
=============================================================================
