SPECIFICATION Spec
PROPERTY CodecRoundTrip
PROPERTY Translated
PROPERTY PathReversed
PROPERTY PolicyHonoured
CHECK_DEADLOCK FALSE
