SPECIFICATION FairSpec
CONSTANTS
  Addr = {a1, a2}
  Val = {v0, v1}
  Zero = v0
  Timeout = 1
  Retries = 1
PROPERTIES FullPassStoresRequest CheckedWriteHolds AccessSpec CallsReturn
