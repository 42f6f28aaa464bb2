SPECIFICATION Spec
INVARIANTS
  FallbackReported
  EraseRecovers
PROPERTY ContentsSurvive
