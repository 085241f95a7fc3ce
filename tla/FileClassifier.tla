--------------------------- MODULE FileClassifier ---------------------------
(***************************************************************************)
(* FileClassifier.cpp: what a child's file is taken for, by its first 64   *)
(* bytes.  A head is what the tests of classify tell apart: the number of  *)
(* bytes read, the signature it begins with, what follows an ELF signature *)
(* at offset 8, and whether a byte is zero.                                *)
(***************************************************************************)
EXTENDS Naturals

CONSTANT Unreadable     \* a file that cannot be opened

HeadBytes == 64

\* Bytes of each signature; no two are prefixes of each other.
Signature == [elf |-> 4, shebang |-> 2, ar |-> 8, rpm |-> 4, pdf |-> 4, jpeg |-> 3,
              png |-> 4, zip |-> 4, none |-> 0]

\* The heads a file can have: bytes that were not read carry no mark.
Heads == {h \in [size : 0..HeadBytes, begins : DOMAIN Signature,
                 appimage : BOOLEAN, zero : BOOLEAN] :
            /\ Signature[h.begins] <= h.size
            /\ h.appimage => h.begins = "elf" /\ h.size >= 11
            /\ h.zero => h.size > Signature[h.begins]}

Verdict == [shebang |-> "script", ar |-> "deb", rpm |-> "rpm", pdf |-> "document",
            jpeg |-> "document", png |-> "document", zip |-> "document"]

classify(head) ==
  IF head = Unreadable THEN "unknown"
  ELSE IF head.size < 4 THEN "document"
  ELSE CASE head.begins = "elf"  -> IF head.appimage THEN "appimage" ELSE "elf"
         [] head.begins = "none" -> IF head.zero THEN "unknown" ELSE "document"
         [] OTHER                -> Verdict[head.begins]

requiresApproval(kind) == kind # "document"

=============================================================================
