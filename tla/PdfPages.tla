------------------------------ MODULE PdfPages ------------------------------
(***************************************************************************)
(* How VisionService.extractPdfFromGcs puts the pages of a PDF together.   *)
(* With batchSize 1 Vision writes page i to the file output-i-to-i.json;   *)
(* the files are sorted by name, and the pages they hold numbered in that  *)
(* order.  A response without fullTextAnnotation (a blank page) is passed  *)
(* over.                                                                   *)
(***************************************************************************)
EXTENDS Naturals, Sequences, FiniteSets

Digits[n \in Nat] == IF n < 10 THEN <<n>> ELSE Append(Digits[n \div 10], n % 10)

\* localeCompare of two of these names: the first place where they differ, and the
\* hyphen that ends a number comes before every digit.
NameBefore(i, j) ==
  LET a == Digits[i]
      b == Digits[j]
  IN  \E k \in DOMAIN b :
        /\ \A m \in 1..(k - 1) : m \in DOMAIN a /\ a[m] = b[m]
        /\ k \in DOMAIN a => a[k] < b[k]

\* The pages of an n page document in the order of their files.
SortedFiles(n) ==
  [k \in 1..n |->
     CHOOSE i \in 1..n : Cardinality({j \in 1..n : NameBefore(j, i)}) = k - 1]

\* Mutant: the loop ends at the first blank page.
PageContents_Break(n, blank) ==
  LET files == SortedFiles(n)
      stops == {k \in 1..n : files[k] \in blank}
  IN  SubSeq(files, 1, IF stops = {} THEN n
                       ELSE (CHOOSE k \in stops : \A l \in stops : k <= l) - 1)

\* pageContents: entry k is the physical page stored with pageNumber k.  The files are
\* read one after the other and a page is pushed unless it is blank.
PageContents(n, blank) ==
  LET files == SortedFiles(n)
      upTo[k \in 0..n] ==
        IF k = 0 THEN <<>>
        ELSE IF files[k] \in blank THEN upTo[k - 1] ELSE Append(upTo[k - 1], files[k])
  IN  upTo[n]
=============================================================================
