--------------------------- MODULE PaymentReader ---------------------------
(***************************************************************************)
(* An indexer that collected a merchant's payment references from events   *)
(* and fetches the records page by page with get_payments, echoing back    *)
(* next_cursor (payments.rs, issues #559 and #982), while other calls store*)
(* and prune records, unregister the merchant and register it again        *)
(* between two pages.                                                      *)
(***************************************************************************)
EXTENDS Settlement

CONSTANTS Reader,   \* the merchant whose records are read
          Wanted    \* its references, in the order the indexer saw them

\* payment_stored is emitted for every record, so no reference is missing.
ASSUME ReaderAssumption ==
    /\ Reader \in MerchantInputs /\ Wanted \in Seq(REF) /\ Distinct(Wanted)
    /\ RefInputs \ {ZeroRef} \subseteq Range(Wanted)
    /\ MAX_PAYMENTS_BATCH \in Nat

VARIABLES cursor,   \* the next_cursor to send, None once the walk is over
          got,      \* the records received
          counted,  \* get_payment_count as answered when the walk began
          steady    \* history: references nothing was stored or pruned under since

readerVars == <<cursor, got, counted, steady>>

ReaderInit == Init /\ cursor = None /\ got = <<>> /\ counted = 0 /\ steady = {}

\* External: the references the indexer sends for the page at cursor c.
page_refs(c) ==
    SubSeq(Wanted, c + 1, IF c + MAX_PAYMENTS_BATCH < Len(Wanted)
                          THEN c + MAX_PAYMENTS_BATCH ELSE Len(Wanted))

\* External: the indexer asks for the number of records and starts a walk.
StartWalk(signers) ==
    /\ cursor = None
    /\ get_payment_count(Reader, signers, payCount[Reader])
    /\ cursor' = 0 /\ got' = <<>> /\ counted' = payCount[Reader] /\ steady' = Range(Wanted)
    /\ UNCHANGED vars

\* External: it fetches the next page.
ReadPage(signers) ==
    LET page == payments_page(Reader, page_refs(cursor), cursor)
    IN /\ cursor # None
       /\ get_payments(Reader, page_refs(cursor), cursor, signers, page)
       /\ cursor' = page.next_cursor
       /\ got' = got \o page.records
       /\ UNCHANGED <<vars, counted, steady>>

\* Any other call.
Meanwhile ==
    /\ Next
    /\ steady' = {r \in steady : payments'[Reader][r] = payments[Reader][r]}
    /\ UNCHANGED <<cursor, got, counted>>

ReadNext == \/ \E s \in SignerVecs : StartWalk(s) \/ ReadPage(s)
            \/ Meanwhile

\* The indexer keeps asking; whoever may authorize it is not forced to.
ReaderSpec == /\ ReaderInit /\ [][ReadNext]_<<vars, readerVars>>
              /\ WF_<<vars, readerVars>>(\E s \in SignerVecs : ReadPage(s))

-----------------------------------------------------------------------------
Present(r) == payments[Reader][r] # None

\* A walk that has ended missed nothing: every record that stayed in place
\* from its first to its last page was returned, also when a page is empty,
\* is full, or came back short because its references were pruned.
WalkComplete ==
    cursor = None => \A r \in steady : Present(r) => payments[Reader][r] \in Range(got)

\* s lists the records under the references at the positions in P, each once
\* and in the order of the references.
Lists(s, P) ==
    \E at \in [DOMAIN s -> P] :
       /\ \A j, k \in DOMAIN s : j < k => at[j] < at[k]
       /\ Range(at) = P
       /\ \A k \in DOMAIN s : s[k] = payments[Reader][Wanted[at[k]]]

\* A walk nothing interfered with returns each record exactly once and in
\* order, and as many as get_payment_count announced.
UndisturbedWalkExact ==
    cursor = None /\ steady = Range(Wanted) =>
       /\ Lists(got, {i \in DOMAIN Wanted : Present(Wanted[i])})
       /\ Len(got) = counted

\* A walk does not go round in circles: it ends, or its merchant is not
\* registered at some point, or nobody can authorize it any more.
WalkEnds ==
    cursor # None ~> cursor = None \/ ~assert_payments_readable(Reader) \/ Reader \notin signing
=============================================================================
