SPECIFICATION Spec
INVARIANT FallbackOnlyAfterBootCrc
