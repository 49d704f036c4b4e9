----------------------------- MODULE PageEntry -----------------------------
(***************************************************************************)
(* Page-table entries as the three architectures encode them: the helpers  *)
(* of arch/<arch>/include/asm/page.h that turn mapping requests (VM_ flags)*)
(* into hardware bits and back.  An entry is an address and the set of the *)
(* bits that are on; a request is a set of VM_ flags.                      *)
(***************************************************************************)
EXTENDS Naturals

Arches == {"x86", "riscv64", "aarch64"}
Requests == SUBSET {"WRITE", "USER", "NOCACHE", "NOEXEC"}

user_page_perm(write, executable) ==
  {"USER"} \cup (IF write THEN {"WRITE"} ELSE {}) \cup (IF executable THEN {} ELSE {"NOEXEC"})
VM_USER_RW == {"WRITE", "USER", "NOEXEC"}

On(cond, bits) == IF cond THEN bits ELSE {}
NoEntry == [to |-> 0, bits |-> {}]

(***************************************************************************)
(* x86: PS marks a block, but in a last-level entry the same bit is PAT.   *)
(***************************************************************************)

x86_make_pte_table(t) == [to |-> t, bits |-> {"P", "W", "U"}]
x86_make_pte_page(pa, perm) ==
  [to |-> pa, bits |-> {"P"} \cup On("WRITE" \in perm, {"W"}) \cup On("USER" \in perm, {"U"})
                       \cup On("NOCACHE" \in perm, {"PCD", "PWT"})
                       \cup On("NOEXEC" \in perm, {"NX"})]
\* Mutant of x86_split_page_entry: the size bit stays.
x86_split_page_entry_ps(e, pa, small) == [e EXCEPT !.to = pa]
x86_split_page_entry(e, pa, small) ==
  LET pat == "PAT_LARGE" \in e.bits
  IN [to |-> pa, bits |-> (e.bits \ {"PS", "PAT_LARGE"})
                          \cup On(~small, {"PS"} \cup On(pat, {"PAT_LARGE"}))
                          \cup On(small /\ pat, {"PS"})]
x86_pte(e) ==
  [present |-> "P" \in e.bits, block |-> "PS" \in e.bits, write |-> "W" \in e.bits,
   user |-> "P" \in e.bits /\ "U" \in e.bits, exec |-> "NX" \notin e.bits,
   cached |-> {"PCD", "PWT"} \cap e.bits = {}, tableOk |-> {"P", "U", "W"} \subseteq e.bits]

(***************************************************************************)
(* riscv64 (Sv39): an entry with R, W or X is a page or block              *)
(***************************************************************************)

riscv64_make_pte_table(t) == [to |-> t, bits |-> {"V"}]
riscv64_make_pte_page(pa, perm) ==
  [to |-> pa, bits |-> {"V", "R", "A", "D"} \cup On("WRITE" \in perm, {"W"})
                       \cup On("USER" \in perm, {"U"}) \cup On("NOEXEC" \notin perm, {"X"})]
riscv64_split_page_entry(e, pa, small) == [e EXCEPT !.to = pa]
riscv64_pte(e) ==
  [present |-> "V" \in e.bits, block |-> e.bits \cap {"R", "W", "X"} # {},
   write |-> "W" \in e.bits, user |-> {"V", "U", "R"} \subseteq e.bits,
   exec |-> "X" \in e.bits, cached |-> TRUE, tableOk |-> TRUE]

(***************************************************************************)
(* aarch64: the TABLE bit of a last-level entry means a page, and absence  *)
(* of bits grants rights                                                   *)
(***************************************************************************)

aarch64_make_pte_table(t) == [to |-> t, bits |-> {"VALID", "TABLE"}]
aarch64_make_pte_page(pa, perm) ==
  [to |-> pa, bits |-> {"VALID", "TABLE", "AF"} \cup On("WRITE" \notin perm, {"RO"})
                       \cup On("USER" \in perm, {"EL0", "PXN"})
                       \cup On("NOEXEC" \in perm, {"UXN", "PXN"})
                       \cup On("NOCACHE" \in perm, {"DEVICE"})]
aarch64_split_page_entry(e, pa, small) ==
  [to |-> pa, bits |-> (e.bits \ {"TABLE"}) \cup {"VALID"} \cup On(small, {"TABLE"})]
aarch64_pte(e) ==
  [present |-> "VALID" \in e.bits, block |-> e.bits \cap {"VALID", "TABLE"} = {"VALID"},
   write |-> "RO" \notin e.bits, user |-> {"VALID", "EL0"} \subseteq e.bits,
   exec |-> "UXN" \notin e.bits, cached |-> "DEVICE" \notin e.bits,
   tableOk |-> {"NO_USER", "NO_WRITE"} \cap e.bits = {}]

(***************************************************************************)
(* The generic code's view                                                 *)
(***************************************************************************)

make_pte_table(arch, t) ==
  CASE arch = "x86" -> x86_make_pte_table(t) [] arch = "riscv64" -> riscv64_make_pte_table(t)
    [] arch = "aarch64" -> aarch64_make_pte_table(t)
make_pte_page(arch, pa, perm) ==
  CASE arch = "x86" -> x86_make_pte_page(pa, perm)
    [] arch = "riscv64" -> riscv64_make_pte_page(pa, perm)
    [] arch = "aarch64" -> aarch64_make_pte_page(pa, perm)
split_page_entry(arch, e, pa, small) ==
  CASE arch = "x86" -> x86_split_page_entry(e, pa, small)
    [] arch = "riscv64" -> riscv64_split_page_entry(e, pa, small)
    [] arch = "aarch64" -> aarch64_split_page_entry(e, pa, small)

\* pte_present, pte_is_block, pte_writable, pte_user_accessible,
\* pte_executable and pte_user_table_accessible of an entry, and whether the
\* processor may cache what it maps (on riscv64 the address alone decides).
pte(arch, e) ==
  CASE arch = "x86" -> x86_pte(e) [] arch = "riscv64" -> riscv64_pte(e)
    [] arch = "aarch64" -> aarch64_pte(e)

merge_user_page_perm(arch, e, perm) ==
  user_page_perm(pte(arch, e).write \/ "WRITE" \in perm,
                 pte(arch, e).exec \/ "NOEXEC" \notin perm)
=============================================================================
