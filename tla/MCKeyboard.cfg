CONSTANTS
  Plain <- MCPlain
  Extended <- MCExtended
  Mapped <- MCMapped
SPECIFICATION Spec
INVARIANT Framed
INVARIANT ModifiersTrack
INVARIANT OneCharPerPress
INVARIANT CharmapFits
