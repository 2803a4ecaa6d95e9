CONSTANTS
  front = front
  rear = rear
  Ports <- MCPorts
  Size = 3
  USB_BUFFER_SIZE = 2
  Outstanding = 3
  MaxSent = 6
SPECIFICATION Spec
INVARIANTS TypeOK FillLevel NeverTooMuch
PROPERTIES Implements
CHECK_DEADLOCK TRUE
