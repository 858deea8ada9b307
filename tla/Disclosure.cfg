\* Every retained PCZT of at most two spends and two outputs, every request,
\* and every single alteration of the bytes on their way.
CONSTANTS
  Base = 8
  MaxMessage = 63
  MaxEntries = 16
  MaxListed = 2
  Messages <- ShortAndLonger
SPECIFICATION Spec
INVARIANTS
  TypeOK
  OneEncoding
  ExportVerifies
  AcceptedMeansSigned
  EvidenceAnswers
CHECK_DEADLOCK FALSE
