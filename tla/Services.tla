------------------------------ MODULE Services ------------------------------
(* What the panel does around its nodes and subscribers: the alerts and the    *)
(* addresses it reports, the kernels it keeps and relays, the nodes of other   *)
(* providers, the rule sets and the documents it renders.                      *)
EXTENDS Alerts, Online, AgentStream, Catalog, Routing, Subscription, KernelCache

\* What the panel says of a node is so: an announced change has settled, an
\* address counted as online belongs to a node whose stream is still there and
\* is in the record an operator reads later.
ReportsAreTrue == OnlySettledAnnounced /\ GoneIsForgotten /\ OnlineIsRecorded

\* A kernel reaches a node and the panel whole: the chunks of an archive are
\* put together in order, the archive they are cut from is the verified one,
\* and the panel judges configs with what it has unpacked.
KernelsWhole == ArchiveInOrder /\ ArchivesWhole /\ OffersWhatIsThere

\* The document a client downloads can be loaded: a proxy is dialled through
\* one the document has, no chain of them closes on itself, every group has
\* members the document defines, and the panel answers for every rule list.
DocumentLoads == DocumentResolves /\ ChainsEnd /\ GroupsLoad /\ ProvidersAnswered
=============================================================================
