--------------------------- MODULE ListingsProofs ---------------------------
(***************************************************************************)
(* Proofs about module Listings, for any number of processes, listings,    *)
(* names, restarts and crashes: what a listing that is not harmed has      *)
(* promised it keeps.                                                      *)
(***************************************************************************)
EXTENDS Listings, TLAPS

ProcessStates ==
  [phase : {"down", "up", "saving", "closing"}, seed : Int, drawn : Int,
   listings : ListingMaps, left : SUBSET Lists, open : SUBSET Lists]

-----------------------------------------------------------------------------
(***************************************************************************)
(* The inductive invariant.                                                *)
(***************************************************************************)

Types ==
  /\ now \in Int
  /\ generated \in Int
  /\ file \in ListingMaps
  /\ settled \in [Lists -> ObjectMaps]
  /\ proc \in [Processes -> ProcessStates]

\* A process has a file open only while it saves a listing of its own.
OpenInv ==
  \A p \in Processes :
    /\ proc[p].left \subseteq DOMAIN proc[p].listings
    /\ proc[p].open \subseteq proc[p].left
    /\ proc[p].phase # "closing" => proc[p].open = {}
    /\ \A l, m \in proc[p].open : l = m

Has(p, l) == l \in DOMAIN proc[p].listings
Memory(p, l) == proc[p].listings[l]

\* The identifiers in memory are the ones that were saved.
MemoryInv(l) ==
  \A p \in Processes : Has(p, l) =>
    \A n \in DOMAIN Memory(p, l) \cap DOMAIN settled[l] :
      Kept(Memory(p, l)[n], settled[l][n])

\* A process that will write the listing has every name that was saved.
CoverInv(l) ==
  \A p \in Processes : HasToSave(p, l) =>
    DOMAIN settled[l] \subseteq DOMAIN Memory(p, l)

\* Two processes that will write it have no other names ...
ShareInv(l) ==
  \A p, q \in Processes : p # q /\ HasToSave(p, l) /\ HasToSave(q, l) =>
    DOMAIN Memory(p, l) \subseteq DOMAIN settled[l]

\* ... and neither has a process that has written it.
WrittenInv(l) ==
  \A p \in Processes : Has(p, l) /\ ~HasToSave(p, l) =>
    DOMAIN Memory(p, l) \subseteq DOMAIN settled[l]

\* A file that is not open has all that was saved.
FileInv(l) ==
  (\A p \in Processes : l \notin proc[p].open) =>
    \A n \in DOMAIN settled[l] :
      l \in DOMAIN file /\ n \in DOMAIN file[l] /\ Kept(file[l][n], settled[l][n])

Sound(l) ==
  MemoryInv(l) /\ CoverInv(l) /\ ShareInv(l) /\ WrittenInv(l) /\ FileInv(l)

IInv == Types /\ OpenInv /\ \A l \in Lists \ harmed : Sound(l)

-----------------------------------------------------------------------------
(***************************************************************************)
(* Facts about maps.                                                       *)
(***************************************************************************)

\* A name that is added to a map of objects makes a map of objects.
LEMMA WithObject ==
  ASSUME NEW f \in ObjectMaps, NEW n \in Names, NEW id \in Identifiers
  PROVE  With(f, n, id) \in ObjectMaps
<1>1. PICK S \in SUBSET Names : f \in [S -> Identifiers]
  BY DEF ObjectMaps
<1>2. With(f, n, id) \in [S \cup {n} -> Identifiers]
  BY <1>1 DEF With
<1> QED
  BY <1>2 DEF ObjectMaps

\* A listing that is added to a map of listings makes a map of listings.
LEMMA WithListing ==
  ASSUME NEW f \in ListingMaps, NEW l \in Lists, NEW m \in ObjectMaps
  PROVE  With(f, l, m) \in ListingMaps
<1>1. PICK S \in SUBSET Lists : f \in [S -> ObjectMaps]
  BY DEF ListingMaps
<1>2. With(f, l, m) \in [S \cup {l} -> ObjectMaps]
  BY <1>1 DEF With
<1> QED
  BY <1>2 DEF ListingMaps

\* The domain and the values of a map.
LEMMA ListingMapFacts ==
  ASSUME NEW f \in ListingMaps
  PROVE  /\ DOMAIN f \subseteq Lists
         /\ \A l \in DOMAIN f : f[l] \in ObjectMaps
BY DEF ListingMaps

\* The same for a map of objects.
LEMMA ObjectMapFacts ==
  ASSUME NEW f \in ObjectMaps
  PROVE  /\ DOMAIN f \subseteq Names
         /\ \A n \in DOMAIN f : f[n] \in Identifiers
         /\ f = [n \in DOMAIN f |-> f[n]]
BY DEF ObjectMaps

\* No entries at all are a map of objects, and a map of listings.
LEMMA EmptyMap ==
  Empty \in ObjectMaps /\ Empty \in ListingMaps /\ DOMAIN Empty = {}
<1>1. Empty \in [{} -> Identifiers] /\ Empty \in [{} -> ObjectMaps]
  BY DEF Empty
<1> QED
  BY <1>1 DEF Empty, ObjectMaps, ListingMaps

\* loadListing() gives every name of the file, as sscanf() parses it.
LEMMA LoadFacts ==
  ASSUME file \in ListingMaps, NEW l \in Lists
  PROVE  /\ LoadListing(l) \in ObjectMaps
         /\ l \in DOMAIN file =>
              /\ DOMAIN LoadListing(l) = DOMAIN file[l]
              /\ \A n \in DOMAIN file[l] : LoadListing(l)[n] = Parse(file[l][n])
<1>1. CASE l \in DOMAIN file
  <2>1. file[l] \in ObjectMaps
    BY <1>1, ListingMapFacts
  <2>2. \A n \in DOMAIN file[l] : Parse(file[l][n]) \in Identifiers
    <3>1. Largest \in Identifiers
      BY DEF Largest, Id, Identifiers
    <3> QED
      BY <2>1, <3>1, ObjectMapFacts DEF Parse
  <2>3. LoadListing(l) = [n \in DOMAIN file[l] |-> Parse(file[l][n])]
    BY <1>1 DEF LoadListing
  <2>4. LoadListing(l) \in [DOMAIN file[l] -> Identifiers]
    BY <2>2, <2>3
  <2>5. DOMAIN file[l] \in SUBSET Names
    BY <2>1, ObjectMapFacts
  <2> QED
    BY <2>3, <2>4, <2>5 DEF ObjectMaps
<1>2. CASE l \notin DOMAIN file
  BY <1>2, EmptyMap DEF LoadListing
<1> QED
  BY <1>1, <1>2

\* Parsing keeps an identifier up to the sign that %ld cannot read.
LEMMA ParseKeeps ==
  ASSUME NEW id \in Identifiers, NEW s \in Identifiers, Kept(id, s)
  PROVE  Kept(Parse(id), s)
<1>1. Largest.negative = FALSE
  BY DEF Largest, Id
<1> QED
  BY <1>1 DEF Kept, Parse

-----------------------------------------------------------------------------
(***************************************************************************)
(* The steps.                                                              *)
(***************************************************************************)

\* A step that leaves a listing alone, or drops it from the memory of a
\* process that does not have its file open, keeps it sound.
LEMMA Frame ==
  ASSUME NEW l \in Lists, Sound(l),
         \A q \in Processes : Has(q, l)' =>
            /\ Has(q, l) /\ Memory(q, l)' = Memory(q, l)
            /\ HasToSave(q, l)' <=> HasToSave(q, l),
         \A q \in Processes : l \in proc'[q].open <=> l \in proc[q].open,
         settled'[l] = settled[l],
         l \in DOMAIN file => l \in DOMAIN file' /\ file'[l] = file[l]
  PROVE  Sound(l)'
<1>1. \A q \in Processes : HasToSave(q, l)' => Has(q, l)'
  BY DEF HasToSave, Has
<1>2. MemoryInv(l)'
  BY DEF Sound, MemoryInv
<1>3. CoverInv(l)'
  BY <1>1 DEF Sound, CoverInv
<1>4. ShareInv(l)'
  BY <1>1 DEF Sound, ShareInv
<1>5. WrittenInv(l)'
  BY <1>1 DEF Sound, WrittenInv
<1>6. FileInv(l)'
  BY DEF Sound, FileInv
<1> QED
  BY <1>2, <1>3, <1>4, <1>5, <1>6 DEF Sound

\* The listing that getObjectId() works on is a map of objects.
LEMMA ListingType ==
  ASSUME Types, NEW p \in Processes, NEW l \in Lists
  PROVE  Listing(p, l) \in ObjectMaps
<1>1. proc[p].listings \in ListingMaps /\ file \in ListingMaps
  BY DEF Types, ProcessStates
<1> QED
  BY <1>1, ListingMapFacts, LoadFacts DEF Listing

\* It has what was saved: in memory, or read from a file that nobody has open.
LEMMA ListingFacts ==
  ASSUME IInv, NEW p \in Processes, NEW l \in Lists, proc[p].phase = "up",
         NEW m, ~Harms(p, l, m), l \notin harmed
  PROVE  \A n \in DOMAIN settled[l] :
           n \in DOMAIN Listing(p, l) /\ Kept(Listing(p, l)[n], settled[l][n])
<1>1. CASE Has(p, l)
  <2>1. Listing(p, l) = Memory(p, l) /\ HasToSave(p, l)
    BY <1>1 DEF Listing, Memory, Has, HasToSave
  <2> QED
    BY <1>1, <2>1 DEF IInv, Sound, MemoryInv, CoverInv
<1>2. CASE ~Has(p, l)
  <2> SUFFICES ASSUME NEW n \in DOMAIN settled[l]
               PROVE  /\ n \in DOMAIN Listing(p, l)
                      /\ Kept(Listing(p, l)[n], settled[l][n])
    OBVIOUS
  <2>1. Listing(p, l) = LoadListing(l)
    BY <1>2 DEF Listing, Has
  <2>2. file \in ListingMaps /\ settled[l] \in ObjectMaps
    BY DEF IInv, Types
  <2>3. \A q \in Processes : l \notin proc[q].open
    BY <1>2 DEF Harms, Has
  <2>4. l \in DOMAIN file /\ n \in DOMAIN file[l] /\ Kept(file[l][n], settled[l][n])
    BY <2>3 DEF IInv, Sound, FileInv
  <2>5. file[l] \in ObjectMaps
    BY <2>2, <2>4, ListingMapFacts
  <2>6. file[l][n] \in Identifiers /\ settled[l][n] \in Identifiers
    BY <2>2, <2>4, <2>5, ObjectMapFacts
  <2>7. n \in DOMAIN LoadListing(l) /\ LoadListing(l)[n] = Parse(file[l][n])
    BY <2>2, <2>4, LoadFacts
  <2> QED
    BY <2>1, <2>4, <2>6, <2>7, ParseKeeps
<1> QED
  BY <1>1, <1>2

\* getObjectId() puts m in memory, which is what the listing was, or has one
\* more name.
LEMMA Extend ==
  ASSUME IInv, NEW p \in Processes, NEW l \in Lists,
         NEW m \in ObjectMaps,
         \/ m = Listing(p, l)
         \/ \E n \in Names, id \in Identifiers :
              n \notin DOMAIN Listing(p, l) /\ m = With(Listing(p, l), n, id),
         \A q \in Processes : q # p => proc'[q] = proc[q],
         proc[p].phase = "up",
         proc'[p].phase = "up",
         proc'[p].listings = With(proc[p].listings, l, m),
         proc'[p].left = proc[p].left,
         proc'[p].open = proc[p].open,
         Observe(p, l, m),
         UNCHANGED <<file, settled>>
  PROVE  OpenInv' /\ \A k \in Lists \ harmed' : Sound(k)'
<1>1. /\ DOMAIN proc'[p].listings = DOMAIN proc[p].listings \cup {l}
      /\ proc'[p].listings[l] = m
      /\ \A k \in DOMAIN proc[p].listings : k # l =>
            proc'[p].listings[k] = proc[p].listings[k]
  BY DEF With
<1>2. OpenInv'
  BY <1>1 DEF IInv, OpenInv
<1>3. ASSUME NEW k \in Lists \ harmed', k # l
      PROVE  Sound(k)'
  <2>1. k \notin harmed
    BY <1>3 DEF Observe
  <2>2. Sound(k)
    BY <2>1 DEF IInv
  <2>3. ASSUME NEW q \in Processes, Has(q, k)'
        PROVE  /\ Has(q, k) /\ Memory(q, k)' = Memory(q, k)
               /\ HasToSave(q, k)' <=> HasToSave(q, k)
    <3>1. CASE q = p
      BY <1>1, <1>3, <2>3, <3>1 DEF Has, Memory, HasToSave
    <3>2. CASE q # p
      BY <2>3, <3>2 DEF Has, Memory, HasToSave
    <3> QED
      BY <3>1, <3>2
  <2>4. \A q \in Processes : k \in proc'[q].open <=> k \in proc[q].open
    OBVIOUS
  <2> QED
    BY <2>2, <2>3, <2>4, Frame
<1>4. ASSUME l \notin harmed'
      PROVE  Sound(l)'
  <2>1. l \notin harmed /\ ~Harms(p, l, m)
    BY <1>4 DEF Observe
  <2>2. Sound(l)
    BY <2>1 DEF IInv
  <2>3. /\ DOMAIN settled[l] \subseteq DOMAIN Listing(p, l)
        /\ \A n \in DOMAIN settled[l] : Kept(Listing(p, l)[n], settled[l][n])
    BY <2>1, ListingFacts
  <2>4. /\ DOMAIN settled[l] \subseteq DOMAIN m
        /\ \A n \in DOMAIN settled[l] : Kept(m[n], settled[l][n])
    <3>1. CASE m = Listing(p, l)
      BY <2>3, <3>1
    <3>2. ASSUME NEW n \in Names, NEW id \in Identifiers,
                 n \notin DOMAIN Listing(p, l), m = With(Listing(p, l), n, id)
          PROVE  /\ DOMAIN settled[l] \subseteq DOMAIN m
                 /\ \A i \in DOMAIN settled[l] : Kept(m[i], settled[l][i])
      <4>1. DOMAIN m = DOMAIN Listing(p, l) \cup {n}
        BY <3>2 DEF With
      <4>2. \A i \in DOMAIN settled[l] : m[i] = Listing(p, l)[i]
        BY <2>3, <3>2 DEF With
      <4> QED
        BY <2>3, <4>1, <4>2
    <3> QED
      BY <3>1, <3>2
  <2>5. /\ Has(p, l)' /\ Memory(p, l)' = m /\ HasToSave(p, l)'
        /\ \A q \in Processes : q # p =>
             /\ Has(q, l)' <=> Has(q, l)
             /\ Memory(q, l)' = Memory(q, l)
             /\ HasToSave(q, l)' <=> HasToSave(q, l)
    BY <1>1 DEF Has, Memory, HasToSave
  <2>6. \A q \in Processes : q # p /\ HasToSave(q, l) =>
          DOMAIN m \cup DOMAIN Memory(q, l) \subseteq DOMAIN settled[l]
    BY <2>1 DEF Harms, Memory
  <2>7. settled' = settled /\ file' = file
    OBVIOUS
  <2>8. MemoryInv(l)'
    BY <2>2, <2>4, <2>5, <2>7 DEF Sound, MemoryInv
  <2>9. CoverInv(l)'
    BY <2>2, <2>4, <2>5, <2>7 DEF Sound, CoverInv
  <2>10. ShareInv(l)'
    BY <2>2, <2>5, <2>6, <2>7 DEF Sound, ShareInv
  <2>11. WrittenInv(l)'
    BY <2>2, <2>5, <2>7 DEF Sound, WrittenInv
  <2>12. \A q \in Processes : proc'[q].open = proc[q].open
    OBVIOUS
  <2>13. FileInv(l)'
    BY <2>2, <2>7, <2>12 DEF Sound, FileInv
  <2> QED
    BY <2>8, <2>9, <2>10, <2>11, <2>13 DEF Sound
<1> QED
  BY <1>2, <1>3, <1>4

\* A process starts or ends.  The file that it has open, if any, is harmed.
LEMMA Reset ==
  ASSUME IInv, NEW p \in Processes,
         \A q \in Processes : q # p => proc'[q] = proc[q],
         DOMAIN proc'[p].listings = {},
         proc'[p].left = {},
         proc'[p].open = {},
         harmed' = harmed \cup proc[p].open,
         UNCHANGED <<file, settled>>
  PROVE  OpenInv' /\ \A k \in Lists \ harmed' : Sound(k)'
<1>1. OpenInv'
  <2>1. \A q \in Processes : q # p => proc'[q] = proc[q]
    OBVIOUS
  <2> QED
    BY <2>1 DEF IInv, OpenInv
<1>2. ASSUME NEW k \in Lists \ harmed'
      PROVE  Sound(k)'
  <2>1. k \notin harmed /\ k \notin proc[p].open
    OBVIOUS
  <2>2. Sound(k)
    BY <2>1 DEF IInv
  <2>3. \A q \in Processes : Has(q, k)' =>
          /\ Has(q, k) /\ Memory(q, k)' = Memory(q, k)
          /\ HasToSave(q, k)' <=> HasToSave(q, k)
    BY DEF Has, Memory, HasToSave
  <2>4. \A q \in Processes : k \in proc'[q].open <=> k \in proc[q].open
    BY <2>1
  <2> QED
    BY <2>2, <2>3, <2>4, Frame
<1> QED
  BY <1>1, <1>2

\* saveListing(), up to fopen().
LEMMA SaveOpenStep ==
  ASSUME IInv, NEW p \in Processes, NEW l \in Lists, SaveOpen(p, l)
  PROVE  IInv'
<1>1. /\ proc[p].phase = "saving" /\ l \in proc[p].left
      /\ file' = With(file, l, Empty)
      /\ proc' = [proc EXCEPT ![p].phase = "closing", ![p].open = {l}]
      /\ UNCHANGED <<now, generated, settled, harmed>>
  BY DEF SaveOpen
<1>2. Types
  BY DEF IInv
<1>3. Types'
  <2>1. file' \in ListingMaps
    BY <1>1, <1>2, EmptyMap, WithListing DEF Types
  <2>2. proc' \in [Processes -> ProcessStates]
    BY <1>1, <1>2, ZenonT(40) DEF Types, ProcessStates
  <2> QED
    BY <1>1, <1>2, <2>1, <2>2 DEF Types
<1>4. \A q \in Processes : /\ proc'[q].listings = proc[q].listings
                           /\ proc'[q].left = proc[q].left
                           /\ q # p => proc'[q] = proc[q]
  BY <1>1, <1>2 DEF Types, ProcessStates
<1>5. proc'[p].phase = "closing" /\ proc'[p].open = {l}
  BY <1>1, <1>2 DEF Types, ProcessStates
<1>6. OpenInv'
  <2> SUFFICES ASSUME NEW q \in Processes
               PROVE  /\ proc'[q].left \subseteq DOMAIN proc'[q].listings
                      /\ proc'[q].open \subseteq proc'[q].left
                      /\ proc'[q].phase # "closing" => proc'[q].open = {}
                      /\ \A k, m \in proc'[q].open : k = m
    BY DEF OpenInv
  <2>1. CASE q = p
    <3>1. proc[p].left \subseteq DOMAIN proc[p].listings
      BY DEF IInv, OpenInv
    <3>2. l \in proc[p].left
      BY <1>1
    <3> QED
      BY <1>4, <1>5, <2>1, <3>1, <3>2
  <2>2. CASE q # p
    BY <1>4, <2>2 DEF IInv, OpenInv
  <2> QED
    BY <2>1, <2>2
<1>7. \A q \in Processes, k \in Lists :
        /\ Has(q, k)' <=> Has(q, k)
        /\ Memory(q, k)' = Memory(q, k)
        /\ HasToSave(q, k)' <=> HasToSave(q, k)
  <2>1. proc[p].phase = "saving" /\ proc'[p].phase = "closing"
    BY <1>1, <1>5
  <2> QED
    BY <1>4, <2>1 DEF Has, Memory, HasToSave
<1>8. ASSUME NEW k \in Lists \ harmed', k # l
      PROVE  Sound(k)'
  <2>1. Sound(k)
    BY <1>1, <1>8 DEF IInv
  <2>2. proc[p].open = {}
    BY <1>1 DEF IInv, OpenInv
  <2>3. \A q \in Processes : k \in proc'[q].open <=> k \in proc[q].open
    BY <1>4, <1>5, <1>8, <2>2
  <2>4. k \in DOMAIN file => k \in DOMAIN file' /\ file'[k] = file[k]
    BY <1>1, <1>8 DEF With
  <2>5. settled'[k] = settled[k]
    BY <1>1
  <2> QED
    BY <1>7, <2>1, <2>3, <2>4, <2>5, Frame
<1>9. ASSUME l \notin harmed'
      PROVE  Sound(l)'
  <2>1. Sound(l)
    BY <1>1, <1>9 DEF IInv
  <2>2. settled'[l] = settled[l]
    BY <1>1
  <2>3. MemoryInv(l)' /\ CoverInv(l)' /\ ShareInv(l)' /\ WrittenInv(l)'
    BY <1>7, <2>1, <2>2 DEF Sound, MemoryInv, CoverInv, ShareInv, WrittenInv
  <2>4. FileInv(l)'
    BY <1>5 DEF FileInv
  <2> QED
    BY <2>3, <2>4 DEF Sound
<1> QED
  BY <1>3, <1>6, <1>8, <1>9 DEF IInv

\* saveListing(), up to fclose(): the file has what the process has, which is
\* all that was saved before, and no other process has more.
LEMMA SaveCloseStep ==
  ASSUME IInv, NEW p \in Processes, NEW l \in Lists, SaveClose(p, l)
  PROVE  IInv'
<1> DEFINE m == proc[p].listings[l]
           merged == [n \in DOMAIN settled[l] \cup DOMAIN m |->
                        IF n \in DOMAIN settled[l] THEN settled[l][n] ELSE m[n]]
<1>1. /\ proc[p].phase = "closing" /\ l \in proc[p].open
      /\ file' = With(file, l, m)
      /\ proc' = [proc EXCEPT ![p].phase = "saving", ![p].open = {},
                              ![p].left = @ \ {l}]
      /\ UNCHANGED <<now, generated, harmed>>
  BY DEF SaveClose
<1>2. Types
  BY DEF IInv
<1>3. /\ l \in DOMAIN proc[p].listings /\ proc[p].open = {l}
      /\ l \in proc[p].left
  BY <1>1 DEF IInv, OpenInv
<1>4. m \in ObjectMaps
  <2>1. proc[p].listings \in ListingMaps
    BY <1>2 DEF Types, ProcessStates
  <2> QED
    BY <1>3, <2>1, ListingMapFacts
<1>5. settled[l] \in ObjectMaps
  BY <1>2 DEF Types
<1>6. merged \in ObjectMaps
  <2>1. DOMAIN settled[l] \cup DOMAIN m \in SUBSET Names
    BY <1>4, <1>5, ObjectMapFacts
  <2>2. \A n \in DOMAIN settled[l] \cup DOMAIN m :
          (IF n \in DOMAIN settled[l] THEN settled[l][n] ELSE m[n]) \in Identifiers
    BY <1>4, <1>5, ObjectMapFacts
  <2>3. merged \in [DOMAIN settled[l] \cup DOMAIN m -> Identifiers]
    BY <2>2
  <2> QED
    BY <2>1, <2>3 DEF ObjectMaps
<1>7. settled' = [settled EXCEPT ![l] = merged]
  BY <1>2 DEF SaveClose, Merged, Types
<1>8. settled'[l] = merged /\ \A k \in Lists : k # l => settled'[k] = settled[k]
  BY <1>2, <1>7 DEF Types
<1>9. /\ DOMAIN merged = DOMAIN settled[l] \cup DOMAIN m
      /\ \A n \in DOMAIN settled[l] : merged[n] = settled[l][n]
      /\ \A n \in DOMAIN m \ DOMAIN settled[l] : merged[n] = m[n]
  OBVIOUS
<1>10. m = Memory(p, l)
  BY DEF Memory
<1> HIDE DEF m, merged
<1>11. Types'
  <2>1. file' \in ListingMaps
    BY <1>1, <1>2, <1>4, WithListing DEF Types
  <2>2. proc' \in [Processes -> ProcessStates]
    BY <1>1, <1>2 DEF Types, ProcessStates
  <2>3. settled' \in [Lists -> ObjectMaps]
    BY <1>2, <1>6, <1>7 DEF Types
  <2> QED
    BY <1>1, <1>2, <2>1, <2>2, <2>3 DEF Types
<1>12. \A q \in Processes : /\ proc'[q].listings = proc[q].listings
                            /\ q # p => proc'[q] = proc[q]
  BY <1>1, <1>2 DEF Types, ProcessStates
<1>13. /\ proc'[p].phase = "saving" /\ proc'[p].open = {}
       /\ proc'[p].left = proc[p].left \ {l}
  BY <1>1, <1>2 DEF Types, ProcessStates
<1>14. OpenInv'
  <2> SUFFICES ASSUME NEW q \in Processes
               PROVE  /\ proc'[q].left \subseteq DOMAIN proc'[q].listings
                      /\ proc'[q].open \subseteq proc'[q].left
                      /\ proc'[q].phase # "closing" => proc'[q].open = {}
                      /\ \A i, j \in proc'[q].open : i = j
    BY DEF OpenInv
  <2>1. CASE q = p
    BY <1>12, <1>13, <2>1 DEF IInv, OpenInv
  <2>2. CASE q # p
    BY <1>12, <2>2 DEF IInv, OpenInv
  <2> QED
    BY <2>1, <2>2
<1>15. \A q \in Processes, k \in Lists : /\ Has(q, k)' <=> Has(q, k)
                                         /\ Memory(q, k)' = Memory(q, k)
  BY <1>12 DEF Has, Memory
<1>16. \A q \in Processes, k \in Lists : q # p \/ k # l =>
          (HasToSave(q, k)' <=> HasToSave(q, k))
  <2>1. proc[p].phase = "closing"
    BY <1>1
  <2> QED
    BY <1>12, <1>13, <2>1 DEF HasToSave
<1>17. HasToSave(p, l) /\ ~HasToSave(p, l)'
  BY <1>3, <1>13 DEF HasToSave
<1>18. ASSUME NEW k \in Lists \ harmed', k # l
       PROVE  Sound(k)'
  <2>1. Sound(k)
    BY <1>1, <1>18 DEF IInv
  <2>2. \A q \in Processes : k \in proc'[q].open <=> k \in proc[q].open
    BY <1>3, <1>12, <1>13, <1>18
  <2>3. k \in DOMAIN file => k \in DOMAIN file' /\ file'[k] = file[k]
    BY <1>1, <1>18 DEF With
  <2> QED
    BY <1>8, <1>15, <1>16, <1>18, <2>1, <2>2, <2>3, Frame
<1>19. ASSUME l \notin harmed'
       PROVE  Sound(l)'
  <2>1. Sound(l)
    BY <1>1, <1>19 DEF IInv
  <2>2. \A n \in DOMAIN settled[l] : n \in DOMAIN m /\ Kept(m[n], settled[l][n])
    BY <1>3, <1>10, <1>17, <2>1 DEF Sound, MemoryInv, CoverInv, Has
  <2>3. DOMAIN merged = DOMAIN m /\ \A n \in DOMAIN m : Kept(m[n], merged[n])
    BY <1>9, <2>2 DEF Kept
  <2>4. \A q \in Processes : q # p /\ Has(q, l) =>
          DOMAIN Memory(q, l) \subseteq DOMAIN settled[l]
    BY <1>17, <2>1 DEF Sound, ShareInv, WrittenInv
  <2>5. \A q \in Processes : q # p /\ HasToSave(q, l) =>
          DOMAIN merged = DOMAIN settled[l]
    BY <1>9, <1>10, <1>17, <2>1 DEF Sound, ShareInv
  <2>6. MemoryInv(l)'
    <3> SUFFICES ASSUME NEW q \in Processes, Has(q, l),
                        NEW n \in DOMAIN Memory(q, l) \cap DOMAIN merged
                 PROVE  Kept(Memory(q, l)[n], merged[n])
      BY <1>8, <1>15 DEF MemoryInv
    <3>1. CASE q = p
      BY <1>10, <2>3, <3>1
    <3>2. CASE q # p
      BY <1>9, <2>1, <2>4, <3>2 DEF Sound, MemoryInv
    <3> QED
      BY <3>1, <3>2
  <2>7. CoverInv(l)'
    BY <1>8, <1>15, <1>16, <1>17, <2>1, <2>5 DEF Sound, CoverInv
  <2>8. ShareInv(l)'
    BY <1>8, <1>9, <1>15, <1>16, <1>17, <2>1 DEF Sound, ShareInv
  <2>9. WrittenInv(l)'
    BY <1>8, <1>9, <1>10, <1>15, <1>16, <2>1 DEF Sound, WrittenInv
  <2>10. FileInv(l)'
    <3>1. l \in DOMAIN file' /\ file'[l] = m
      BY <1>1 DEF With
    <3> QED
      BY <1>8, <2>3, <3>1 DEF FileInv
  <2> QED
    BY <2>6, <2>7, <2>8, <2>9, <2>10 DEF Sound
<1> QED
  BY <1>11, <1>14, <1>18, <1>19 DEF IInv

\* Every step of every process keeps the invariant.
LEMMA Step ==
  ASSUME IInv, [Next]_vars
  PROVE  IInv'
<1>1. Types
  BY DEF IInv
<1>2. CASE UNCHANGED vars \/ Tick
  <2>1. Types'
    BY <1>1, <1>2 DEF vars, Tick, Types
  <2>2. UNCHANGED <<file, proc, settled, harmed>>
    BY <1>2 DEF vars, Tick
  <2>3. OpenInv'
    BY <2>2 DEF IInv, OpenInv
  <2>4. ASSUME NEW k \in Lists \ harmed'
        PROVE  Sound(k)'
    <3>1. Sound(k)
      BY <2>2 DEF IInv
    <3>2. \A q \in Processes : /\ Has(q, k)' <=> Has(q, k)
                               /\ Memory(q, k)' = Memory(q, k)
                               /\ HasToSave(q, k)' <=> HasToSave(q, k)
      BY <2>2 DEF Has, Memory, HasToSave
    <3> QED
      BY <2>2, <3>1, <3>2, Frame
  <2> QED
    BY <2>1, <2>3, <2>4 DEF IInv
<1>3. ASSUME NEW p \in Processes, Start(p)
      PROVE  IInv'
  <2>1. proc[p].open = {}
    BY <1>3 DEF Start, IInv, OpenInv
  <2>2. Types'
    <3>1. now \in Int /\ Empty \in ListingMaps
      BY <1>1, EmptyMap DEF Types
    <3>2. Down \in ProcessStates
      BY <3>1 DEF Down, ProcessStates
    <3>3. [Down EXCEPT !.phase = "up", !.seed = now] \in ProcessStates
      BY <3>1, <3>2, Zenon DEF ProcessStates
    <3> QED
      BY <1>1, <1>3, <3>3 DEF Start, Types
  <2>3. /\ \A q \in Processes : q # p => proc'[q] = proc[q]
        /\ DOMAIN proc'[p].listings = {}
        /\ proc'[p].left = {} /\ proc'[p].open = {}
        /\ UNCHANGED <<file, settled, harmed>>
    BY <1>1, <1>3, EmptyMap DEF Start, Down, Types, ProcessStates
  <2> QED
    BY <2>1, <2>2, <2>3, Reset DEF IInv
<1>4. ASSUME NEW p \in Processes,
             Exit(p) \/ Crash(p) \/ \E l \in Lists : Refuse(p, l)
      PROVE  IInv'
  <2>1. /\ proc' = [proc EXCEPT ![p] = Down]
        /\ UNCHANGED <<now, generated, file, settled>>
        /\ harmed' = harmed \cup proc[p].open \/
             (proc[p].phase # "closing" /\ harmed' = harmed)
    BY <1>4 DEF Exit, Crash, Refuse
  <2>2. harmed' = harmed \cup proc[p].open
    BY <2>1 DEF IInv, OpenInv
  <2>3. Types'
    BY <1>1, <2>1, EmptyMap DEF Down, Types, ProcessStates
  <2>4. /\ \A q \in Processes : q # p => proc'[q] = proc[q]
        /\ DOMAIN proc'[p].listings = {}
        /\ proc'[p].left = {} /\ proc'[p].open = {}
    BY <1>1, <2>1, EmptyMap DEF Down, Types, ProcessStates
  <2> QED
    BY <2>1, <2>2, <2>3, <2>4, Reset DEF IInv
<1>5. ASSUME NEW p \in Processes, Finalize(p)
      PROVE  IInv'
  <2>1. DOMAIN proc[p].listings \subseteq Lists
    BY <1>1, ListingMapFacts DEF Types, ProcessStates
  <2>2. Types'
    BY <1>1, <1>5, <2>1, ZenonT(40) DEF Finalize, Types, ProcessStates
  <2>3. /\ proc[p].phase = "up"
        /\ \A q \in Processes : /\ proc'[q].listings = proc[q].listings
                                /\ proc'[q].open = proc[q].open
                                /\ q # p => proc'[q] = proc[q]
        /\ proc'[p].left = DOMAIN proc[p].listings
        /\ UNCHANGED <<file, settled, harmed>>
    BY <1>1, <1>5 DEF Finalize, Types, ProcessStates
  <2>4. proc[p].open = {}
    BY <2>3 DEF IInv, OpenInv
  <2>5. OpenInv'
    BY <2>3, <2>4 DEF IInv, OpenInv
  <2>6. ASSUME NEW k \in Lists \ harmed'
        PROVE  Sound(k)'
    <3>1. Sound(k)
      BY <2>3 DEF IInv
    <3>2. \A q \in Processes : /\ Has(q, k)' <=> Has(q, k)
                               /\ Memory(q, k)' = Memory(q, k)
                               /\ HasToSave(q, k)' <=> HasToSave(q, k)
      BY <2>3 DEF Has, Memory, HasToSave
    <3> QED
      BY <2>3, <3>1, <3>2, Frame
  <2> QED
    BY <2>2, <2>5, <2>6 DEF IInv
<1>6. ASSUME NEW p \in Processes, NEW l \in Lists, NEW n \in Names,
             FindObjectId(p, l, n)
      PROVE  IInv'
  <2> DEFINE m == Listing(p, l)
  <2>1. /\ proc[p].phase = "up" /\ Observe(p, l, m)
        /\ proc' = [proc EXCEPT ![p].listings = With(@, l, m)]
        /\ UNCHANGED <<now, generated, file, settled>>
    BY <1>6 DEF FindObjectId
  <2>2. m \in ObjectMaps /\ m = Listing(p, l)
    BY <1>1, ListingType
  <2> HIDE DEF m
  <2>3. With(proc[p].listings, l, m) \in ListingMaps
    BY <1>1, <2>2, WithListing DEF Types, ProcessStates
  <2>4. Types'
    BY <1>1, <2>1, <2>3 DEF Types, ProcessStates
  <2>5. /\ \A q \in Processes : q # p => proc'[q] = proc[q]
        /\ proc'[p].phase = "up"
        /\ proc'[p].listings = With(proc[p].listings, l, m)
        /\ proc'[p].left = proc[p].left /\ proc'[p].open = proc[p].open
    BY <1>1, <2>1 DEF Types, ProcessStates
  <2>6. OpenInv' /\ \A k \in Lists \ harmed' : Sound(k)'
    BY <2>1, <2>2, <2>5, Extend
  <2> QED
    BY <2>4, <2>6 DEF IInv
<1>7. ASSUME NEW p \in Processes, NEW l \in Lists, NEW n \in Names,
             CreateObjectId(p, l, n)
      PROVE  IInv'
  <2>1. PICK negative \in Signs :
          /\ proc' = [proc EXCEPT
               ![p].drawn = IF generator THEN @ ELSE @ + 1,
               ![p].listings = With(@, l, Extended(p, l, n, negative))]
          /\ Observe(p, l, Extended(p, l, n, negative))
    BY <1>7, Zenon DEF CreateObjectId
  <2> DEFINE id == NewId(p, negative)
             m == Extended(p, l, n, negative)
  <2>2. /\ proc[p].phase = "up"
        /\ n \notin DOMAIN Listing(p, l)
        /\ generated' \in {generated, generated + 1}
        /\ UNCHANGED <<now, file, settled>>
    BY <1>7 DEF CreateObjectId, Draw
  <2>3. Listing(p, l) \in ObjectMaps
    BY <1>1, ListingType
  <2>4. id \in Identifiers
    <3>1. /\ generated \in Int /\ proc[p].seed \in Int /\ proc[p].drawn \in Int
          /\ negative \in BOOLEAN
      BY <1>1, ListingsAssumption, Zenon DEF Types, ProcessStates
    <3>2. CASE generator
      BY <3>1, <3>2 DEF NewId, Id, StoreSeed, Identifiers
    <3>3. CASE ~generator
      BY <3>1, <3>3 DEF NewId, Id, Identifiers
    <3> QED
      BY <3>2, <3>3
  <2>5. m = With(Listing(p, l), n, id)
    BY DEF Extended
  <2>6. m \in ObjectMaps
    BY <2>3, <2>4, <2>5, WithObject
  <2>7. /\ proc' = [proc EXCEPT ![p].drawn = IF generator THEN @ ELSE @ + 1,
                                ![p].listings = With(@, l, m)]
        /\ Observe(p, l, m)
    BY <2>1
  <2> HIDE DEF m, id
  <2>8. With(proc[p].listings, l, m) \in ListingMaps
    BY <1>1, <2>6, WithListing DEF Types, ProcessStates
  <2>9. Types'
    <3> DEFINE d == IF generator THEN proc[p].drawn ELSE proc[p].drawn + 1
    <3>1. d \in Int /\ generated' \in Int
      BY <1>1, <2>2 DEF Types, ProcessStates
    <3>2. proc' = [proc EXCEPT ![p].drawn = d, ![p].listings = With(@, l, m)]
      BY <2>7
    <3> HIDE DEF d
    <3>3. proc' \in [Processes -> ProcessStates]
      BY <1>1, <2>8, <3>1, <3>2, ZenonT(40) DEF Types, ProcessStates
    <3> QED
      BY <1>1, <2>2, <3>1, <3>3 DEF Types
  <2>10. /\ \A q \in Processes : q # p => proc'[q] = proc[q]
         /\ proc'[p].phase = "up"
         /\ proc'[p].listings = With(proc[p].listings, l, m)
         /\ proc'[p].left = proc[p].left /\ proc'[p].open = proc[p].open
    BY <1>1, <2>2, <2>7 DEF Types, ProcessStates
  <2>11. OpenInv' /\ \A k \in Lists \ harmed' : Sound(k)'
    BY <2>2, <2>4, <2>5, <2>6, <2>7, <2>10, Extend
  <2> QED
    BY <2>9, <2>11 DEF IInv
<1> QED
  BY <1>2, <1>3, <1>4, <1>5, <1>6, <1>7, SaveOpenStep, SaveCloseStep
  DEF Next

\* The files are what the invariant asks for before the first process.
LEMMA InitInv == Init => IInv
<1> SUFFICES ASSUME Init
             PROVE  IInv
  OBVIOUS
<1>1. Files \in ListingMaps
  <2>1. \A l \in DOMAIN Files : Files[l] \in ObjectMaps
    BY ListingsAssumption DEF ObjectMaps
  <2>2. Files \in [DOMAIN Files -> ObjectMaps]
    BY <2>1, ListingsAssumption
  <2> QED
    BY <2>2, ListingsAssumption DEF ListingMaps
<1>2. Types
  <2>1. Down \in ProcessStates
    BY EmptyMap DEF Down, ProcessStates
  <2>2. settled \in [Lists -> ObjectMaps]
    BY <1>1, EmptyMap, ListingMapFacts DEF Init
  <2> QED
    BY <1>1, <2>1, <2>2 DEF Init, Types
<1>3. \A p \in Processes : /\ DOMAIN proc[p].listings = {}
                           /\ proc[p].left = {} /\ proc[p].open = {}
  BY EmptyMap DEF Init, Down
<1>4. OpenInv
  BY <1>3 DEF OpenInv
<1>5. ASSUME NEW l \in Lists
      PROVE  Sound(l)
  <2>1. MemoryInv(l) /\ CoverInv(l) /\ ShareInv(l) /\ WrittenInv(l)
    BY <1>3 DEF MemoryInv, CoverInv, ShareInv, WrittenInv, Has, HasToSave
  <2>2. FileInv(l)
    BY EmptyMap DEF Init, FileInv, Kept
  <2> QED
    BY <2>1, <2>2 DEF Sound
<1> QED
  BY <1>2, <1>4, <1>5 DEF IInv

-----------------------------------------------------------------------------
\* The invariant holds whatever the number of processes, listings, restarts
\* and crashes.
THEOREM Invariance == Spec => []IInv
<1>1. Init => IInv
  BY InitInv
<1>2. IInv /\ [Next]_vars => IInv'
  BY Step
<1> QED
  BY <1>1, <1>2, PTL DEF Spec

\* A name keeps the identifier that a process saved for it, over restarts and
\* crashes, as long as no process was killed between fopen() and fclose() of
\* the listing, read it there, or added names while another one was to save
\* it (Listings::getObjectId, Listings::saveListing).
THEOREM NamesKeepTheirIds == Spec => []NameKeepsId
<1>1. IInv => NameKeepsId
  <2> SUFFICES ASSUME IInv, NEW p \in Processes,
                      NEW l \in DOMAIN proc[p].listings \ harmed,
                      NEW n \in DOMAIN proc[p].listings[l] \cap DOMAIN settled[l]
               PROVE  Kept(proc[p].listings[l][n], settled[l][n])
    BY DEF NameKeepsId
  <2>1. l \in Lists
    BY ListingMapFacts DEF IInv, Types, ProcessStates
  <2> QED
    BY <2>1 DEF IInv, Sound, MemoryInv, Has, Memory
<1> QED
  BY <1>1, Invariance, PTL

\* Under the same exceptions, a listing file that nobody writes has all that
\* was ever saved in it, although each process empties it and writes it anew
\* (Listings::saveListing).
THEOREM FilesForgetNothing == Spec => []NothingIsForgotten
<1>1. IInv => NothingIsForgotten
  BY DEF IInv, Sound, FileInv, NothingIsForgotten
<1> QED
  BY <1>1, Invariance, PTL
=============================================================================
