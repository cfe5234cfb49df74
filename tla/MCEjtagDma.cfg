SPECIFICATION Spec
CONSTANTS
  Words <- MCWords
  Half = {h0, h1}
  Zero = h0
  RETRY_ATTEMPTS = 1
PROPERTIES OnlyRequestedCells AccessSpec
