------------------------ MODULE MCArchiveIngestion ------------------------
(* Two documents share a fiscal UUID: "copy" is another stamping of it. *)
EXTENDS ArchiveIngestion
MCDocuments == {"original", "copy"}
MCContents == MCDocuments \cup {"invalid", "infected", "unsupported"}
MCUuids == {"uuid"}
MCUuidOf == [d \in MCDocuments |-> "uuid"]
Of(a, b, c) == [class |-> <<a, b>>, corruptAt |-> c]
\* Two stampings of one UUID, the same bytes twice, the two refusals with
\* evidence, and damage found in an entry and at once.
MCArchives == {Of("original", "copy", None), Of("original", "original", None),
               Of("infected", "invalid", None),
               Of("unsupported", "original", 2), Of("unsupported", "copy", 0)}
\* One document, which a retry publishes again, and damage.
MCRetried == {Of("original", "unsupported", None),
              Of("unsupported", "original", 2), Of("unsupported", "copy", 0)}
=============================================================================
